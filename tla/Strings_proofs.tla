------------------------------ MODULE Strings_proofs ------------------------------
(***************************************************************************)
(* For every text, size, capacity and limit (string.hpp, both kinds):      *)
(* the characters and the terminator of a string stay in the cells it owns *)
(* (FitsAlways), memory is given back as it was allocated but at two       *)
(* boundaries (FreedAlways), a terminator follows the content              *)
(* (TerminatorAlways), and the operations do to the sequence of characters *)
(* what StringSpec says (ImplementsStringSpec).  For each of these come    *)
(* lemmas on cells, on the operations of either kind, and on the steps.    *)
(***************************************************************************)
EXTENDS Strings, SequenceTheorems, TLAPS

\* The values of a cell, and the two kinds of object.
Cell == Chars \cup {NUL, Raw}
\* What deallocate was told: the cells of the allocation, or one cell fewer.
Freed == {f \in [allocated : Nat, released : Nat] : f.released \in {f.allocated, f.allocated - 1}}
HeapStrings   == [dataVal : Seq(Cell), capacityVal : Nat, sizeVal : Nat, freed : Freed]
InlineStrings == [dataVal : Seq(Cell), sizeVal : Nat]

\* On the heap: no cells at all, or one more than the capacity.
HeapOk(s) ==
  /\ s \in HeapStrings
  /\ \/ Len(s.dataVal) = 0 /\ s.capacityVal = 0 /\ s.sizeVal = 0
     \/ Len(s.dataVal) = s.capacityVal + 1 /\ s.sizeVal <= s.capacityVal
\* Inline: the buffer and the cell of the terminator, one of them free.
InlineOk(s) ==
  /\ s \in InlineStrings
  /\ Len(s.dataVal) = BufferSize + 1 /\ s.sizeVal < BufferSize

\* The inductive invariant: Fits says nothing of what the cells hold.
IInv == \/ kind = "heap" /\ HeapOk(string)
        \/ kind = "inline" /\ InlineOk(string)

-------------------------------------------------------------------------------
\* Writing changes no number of cells, wherever the text would lie.
LEMMA WrittenCells ==
  ASSUME NEW cells \in Seq(Cell), NEW offset \in Int, NEW t \in Seq(Cell)
  PROVE  /\ Written(cells, offset, t) \in Seq(Cell)
         /\ Len(Written(cells, offset, t)) = Len(cells)
<1>1. \A k \in 1..Len(cells) : (IF k - offset \in DOMAIN t THEN t[k - offset] ELSE cells[k]) \in Cell
  OBVIOUS
<1>2. Written(cells, offset, t) \in [1..Len(cells) -> Cell]
  BY <1>1 DEF Written
<1> QED  BY <1>2

\* A range of cells is as long as its offsets are apart.
LEMMA BetweenCells ==
  ASSUME NEW cells \in Seq(Cell), NEW i \in Nat, NEW j \in Nat, i <= j, j <= Len(cells)
  PROVE  Between(cells, i, j) \in Seq(Cell) /\ Len(Between(cells, i, j)) = j - i
BY DEF Between

\* Cells filled with one character.
LEMMA FilledCells ==
  ASSUME NEW c \in Cell, NEW n \in Nat
  PROVE  Filled(c, n) \in Seq(Cell) /\ Len(Filled(c, n)) = n
<1>1. Filled(c, n) \in [1..n -> Cell]  BY DEF Filled
<1> QED  BY <1>1

\* The texts that operations are given can be written to cells.
LEMMA TextCells == ASSUME NEW t \in Seq(Chars) PROVE t \in Seq(Cell)
BY DEF Cell

\* The content of an object on the heap, which string.hpp copies between objects.
LEMMA HeapContent ==
  ASSUME NEW s, HeapOk(s)
  PROVE  Content(s) \in Seq(Cell) /\ Len(Content(s)) = s.sizeVal
<1>1. s.dataVal \in Seq(Cell) /\ s.sizeVal \in Nat /\ s.sizeVal <= Len(s.dataVal)
  BY DEF HeapOk, HeapStrings
<1>2. 0 <= s.sizeVal /\ s.sizeVal - 0 = s.sizeVal  BY <1>1
<1>3. Between(s.dataVal, 0, s.sizeVal) \in Seq(Cell) /\ Len(Between(s.dataVal, 0, s.sizeVal)) = s.sizeVal - 0
  BY <1>1, <1>2, BetweenCells
<1> QED  BY <1>2, <1>3 DEF Content

\* The content of an inline object.
LEMMA InlineContent ==
  ASSUME NEW s, InlineOk(s)
  PROVE  Content(s) \in Seq(Cell) /\ Len(Content(s)) = s.sizeVal
BY BetweenCells, BuffersAssumption DEF InlineOk, InlineStrings, Content

\* What an object with cells holds.
LEMMA HeapFields ==
  ASSUME NEW s, HeapOk(s)
  PROVE  /\ s.dataVal \in Seq(Cell) /\ Len(s.dataVal) \in Nat
         /\ s.capacityVal \in Nat /\ s.sizeVal \in Nat /\ s.sizeVal <= s.capacityVal
         /\ s.freed \in Freed
         /\ s.capacityVal > 0 => Len(s.dataVal) = s.capacityVal + 1
         /\ s.sizeVal <= Len(s.dataVal)
BY DEF HeapOk, HeapStrings

\* A write to its cells leaves an object's size and capacity as they were.
LEMMA HeapWritten ==
  ASSUME NEW s, HeapOk(s), NEW offset \in Int, NEW t \in Seq(Cell),
         NEW r, r = [s EXCEPT !.dataVal = Written(s.dataVal, offset, t)]
  PROVE  HeapOk(r) /\ r.sizeVal = s.sizeVal /\ r.capacityVal = s.capacityVal
<1>1. PICK d \in Seq(Cell) : d = Written(s.dataVal, offset, t) /\ Len(d) = Len(s.dataVal)
  BY HeapFields, WrittenCells
<1>2. r = [s EXCEPT !.dataVal = d]  BY <1>1
<1> QED  BY <1>1, <1>2 DEF HeapOk, HeapStrings

\* sizeVal may be set to anything up to the capacity (string.hpp 444-469).
LEMMA HeapResized ==
  ASSUME NEW s, HeapOk(s), NEW n \in Nat, n <= s.capacityVal, s.capacityVal > 0,
         NEW r, r = [s EXCEPT !.sizeVal = n]
  PROVE  HeapOk(r) /\ r.sizeVal = n /\ r.capacityVal = s.capacityVal
BY DEF HeapOk, HeapStrings

\* The terminator can be written to a cell.
LEMMA NULCell == <<NUL>> \in Seq(Cell)
BY DEF Cell

\* The terminator is written behind the content, within the object's cells.
LEMMA HeapTerminated ==
  ASSUME NEW s, HeapOk(s)
  PROVE  /\ HeapOk(Terminated(s)) /\ Terminated(s).sizeVal = s.sizeVal
         /\ Terminated(s).capacityVal = s.capacityVal
<1>1. s.sizeVal \in Int  BY HeapFields
<1>2. PICK t \in Seq(Cell) : t = <<NUL>>  BY NULCell
<1>3. PICK r : r = [s EXCEPT !.dataVal = Written(s.dataVal, s.sizeVal, t)]  OBVIOUS
<1>4. Terminated(s) = r  BY <1>2, <1>3 DEF Terminated
<1> QED  BY <1>1, <1>3, <1>4, HeapWritten

\* A new length and its terminator.
LEMMA HeapSized ==
  ASSUME NEW s, HeapOk(s), NEW n \in Nat, n <= s.capacityVal, s.capacityVal > 0
  PROVE  HeapOk(Sized(s, n)) /\ Sized(s, n).sizeVal = n /\ Sized(s, n).capacityVal = s.capacityVal
<1>1. PICK r : r = [s EXCEPT !.sizeVal = n]  OBVIOUS
<1>2. HeapOk(r) /\ r.sizeVal = n /\ r.capacityVal = s.capacityVal  BY <1>1, HeapResized
<1>3. Sized(s, n) = Terminated(r)  BY <1>1 DEF Sized
<1> QED  BY <1>2, <1>3, HeapTerminated

\* Characters written from an offset on, within the capacity.
LEMMA HeapExtended ==
  ASSUME NEW s, HeapOk(s), NEW n \in Nat, NEW t \in Seq(Cell), n + Len(t) <= s.capacityVal,
         s.capacityVal > 0
  PROVE  HeapOk(Extended(s, n, t)) /\ Extended(s, n, t).sizeVal = n + Len(t)
<1>1. PICK r : r = [s EXCEPT !.dataVal = Written(s.dataVal, n, t)]  OBVIOUS
<1>2. HeapOk(r) /\ r.capacityVal = s.capacityVal  BY <1>1, HeapWritten
<1>3. n + Len(t) \in Nat  OBVIOUS
<1>4. Extended(s, n, t) = Sized(r, n + Len(t))  BY <1>1 DEF Extended
<1> QED  BY <1>2, <1>3, <1>4, HeapSized

\* HeapString and InlineString have these operators of their own.
LEMMA HeapCells ==
  ASSUME NEW s, NEW n, NEW t, NEW m
  PROVE  /\ Heap!Written(s, n, t) = Written(s, n, t) /\ Heap!Filled(s, n) = Filled(s, n)
         /\ Heap!Between(s, n, m) = Between(s, n, m) /\ Heap!Content(s) = Content(s)
         /\ Heap!Terminated(s) = Terminated(s) /\ Heap!Sized(s, n) = Sized(s, n)
         /\ Heap!Extended(s, n, t) = Extended(s, n, t) /\ Heap!Spread(s, n, t) = Spread(s, n, t)
         /\ Heap!Lesser(n, m) = Lesser(n, m)
BY DEF Heap!Written, Written, Heap!Filled, Filled, Heap!Between, Between, Heap!Content, Content,
       Heap!Terminated, Terminated, Heap!Sized, Sized, Heap!Extended, Extended, Heap!Spread, Spread,
       Heap!Lesser, Lesser

\* The same of InlineString.
LEMMA InlineCells ==
  ASSUME NEW s, NEW n, NEW t, NEW m
  PROVE  /\ Inline!Written(s, n, t) = Written(s, n, t) /\ Inline!Filled(s, n) = Filled(s, n)
         /\ Inline!Between(s, n, m) = Between(s, n, m) /\ Inline!Content(s) = Content(s)
         /\ Inline!Terminated(s) = Terminated(s) /\ Inline!Sized(s, n) = Sized(s, n)
         /\ Inline!Extended(s, n, t) = Extended(s, n, t) /\ Inline!Spread(s, n, t) = Spread(s, n, t)
         /\ Inline!Lesser(n, m) = Lesser(n, m)
BY DEF Inline!Written, Written, Inline!Filled, Filled, Inline!Between, Between, Inline!Content, Content,
       Inline!Terminated, Terminated, Inline!Sized, Sized, Inline!Extended, Extended, Inline!Spread, Spread,
       Inline!Lesser, Lesser

\* A cell that nothing was written to.
LEMMA RawCell == Raw \in Cell
BY DEF Cell

\* What is given back to the allocator is the capacity or one cell more.
LEMMA HeapReleased ==
  ASSUME NEW s, HeapOk(s), NEW n \in {s.capacityVal, s.capacityVal + 1}
  PROVE  Heap!Released(s, n) \in Freed
BY HeapFields DEF Heap!Released, Freed

\* reserve and resize move the content to an allocation of a capacity that holds it.
LEMMA HeapReallocated ==
  ASSUME NEW s, HeapOk(s), NEW c \in Nat, s.sizeVal <= c,
         NEW n \in {s.capacityVal, s.capacityVal + 1}
  PROVE  LET r == Heap!Reallocated(s, c, n)
         IN  HeapOk(r) /\ r.sizeVal = s.sizeVal /\ r.capacityVal = c
<1>1. PICK f \in Freed : f = Heap!Released(s, n)  BY HeapReleased
<1>2. Filled(Raw, c + 1) \in Seq(Cell) /\ Len(Filled(Raw, c + 1)) = c + 1
  BY RawCell, FilledCells
<1>3. PICK d \in Seq(Cell) : d = Written(Filled(Raw, c + 1), 0, Content(s)) /\ Len(d) = c + 1
  BY <1>2, HeapContent, WrittenCells
<1>4. d = Heap!Written(Heap!Filled(Raw, c + 1), 0, Heap!Content(s))
  <2>1. PICK k, g, v : k = c + 1 /\ g = Filled(Raw, k) /\ v = Content(s)  OBVIOUS
  <2>2. Heap!Filled(Raw, k) = g /\ Heap!Content(s) = v  BY <2>1, HeapCells
  <2>3. Heap!Written(g, 0, v) = Written(g, 0, v)  BY HeapCells
  <2> QED  BY <1>3, <2>1, <2>2, <2>3
<1>5. Heap!Reallocated(s, c, n)
        = [s EXCEPT !.dataVal = d, !.capacityVal = c, !.freed = f]
  BY <1>1, <1>4 DEF Heap!Reallocated
<1> QED  BY <1>3, <1>5 DEF HeapOk, HeapStrings

\* reserve keeps the object and gives it the capacity it is asked for, at least.
LEMMA HeapReserve ==
  ASSUME NEW s, HeapOk(s), NEW c \in Nat
  PROVE  LET r == Heap!reserve(s, c)
         IN  HeapOk(r) /\ r.sizeVal = s.sizeVal /\ r.capacityVal \in Nat /\ r.capacityVal >= c
<1>1. CASE c > s.capacityVal
  <2>1. s.sizeVal <= c  BY <1>1, HeapFields
  <2>2. PICK q : q = Heap!Reallocated(s, c, s.capacityVal + 1)  OBVIOUS
  <2>3. HeapOk(q) /\ q.sizeVal = s.sizeVal /\ q.capacityVal = c  BY <2>1, <2>2, HeapReallocated
  <2>4. Heap!reserve(s, c) = Terminated(q)  BY <1>1, <2>2, HeapCells DEF Heap!reserve
  <2> QED  BY <2>3, <2>4, HeapTerminated
<1>2. CASE ~(c > s.capacityVal)
  BY <1>2, HeapFields DEF Heap!reserve
<1> QED  BY <1>1, <1>2

\* insert shifts and writes within the capacity it made sure of (string.hpp 292-341).
LEMMA HeapSpread ==
  ASSUME NEW s, HeapOk(s), NEW n \in Nat, n <= s.sizeVal, NEW t \in Seq(Cell),
         s.sizeVal + Len(t) <= s.capacityVal, s.capacityVal > 0
  PROVE  HeapOk(Spread(s, n, t))
<1>1. PICK b \in Seq(Cell) : b = Between(s.dataVal, n, s.sizeVal)
  BY HeapFields, BetweenCells
<1>2. n + Len(t) \in Int /\ s.sizeVal + Len(t) \in Nat  BY HeapFields
<1>3. PICK r : r = [s EXCEPT !.dataVal = Written(s.dataVal, n + Len(t), b)]  OBVIOUS
<1>4. HeapOk(r) /\ r.sizeVal = s.sizeVal /\ r.capacityVal = s.capacityVal
  BY <1>2, <1>3, HeapWritten
<1>5. PICK q : q = [r EXCEPT !.dataVal = Written(r.dataVal, n, t)]  OBVIOUS
<1>6. HeapOk(q) /\ q.sizeVal = s.sizeVal /\ q.capacityVal = s.capacityVal
  BY <1>4, <1>5, HeapWritten
<1>7. Spread(s, n, t) = [q EXCEPT !.sizeVal = s.sizeVal + Len(t)]
  BY <1>1, <1>3, <1>5 DEF Spread, HeapOk, HeapStrings
<1> QED  BY <1>2, <1>6, <1>7, HeapResized

\* A capacity is asked for when there is no cell to spare.
LEMMA HeapGrown ==
  ASSUME NEW s, HeapOk(s), NEW m \in Nat, NEW c \in Nat, m <= c,
         NEW r, r = IF m >= s.capacityVal THEN Heap!reserve(s, c) ELSE s
  PROVE  HeapOk(r) /\ r.sizeVal = s.sizeVal /\ r.capacityVal \in Nat /\ r.capacityVal >= m
<1>1. s.capacityVal \in Nat  BY HeapFields
<1>2. CASE m >= s.capacityVal
  <2>1. r = Heap!reserve(s, c)  BY <1>2
  <2>2. HeapOk(r) /\ r.sizeVal = s.sizeVal /\ r.capacityVal \in Nat /\ r.capacityVal >= c
    BY <2>1, HeapReserve
  <2> QED  BY <2>2
<1>3. CASE ~(m >= s.capacityVal)  BY <1>1, <1>3
<1> QED  BY <1>2, <1>3

\* append and insert have room for n characters more once reserve has returned.
LEMMA HeapRoom ==
  ASSUME NEW s, HeapOk(s), NEW n \in Nat, n > 0
  PROVE  LET r == Heap!Room(s, n)
         IN  /\ HeapOk(r) /\ r.sizeVal = s.sizeVal
             /\ r.capacityVal \in Nat /\ r.capacityVal >= s.sizeVal + n /\ r.capacityVal > 0
<1>1. s.sizeVal \in Nat  BY HeapFields
<1>2. PICK m \in Nat : m = s.sizeVal + n /\ m > 0  BY <1>1
<1>3. PICK r : r = IF m >= s.capacityVal THEN Heap!reserve(s, m) ELSE s  OBVIOUS
<1>4. HeapOk(r) /\ r.sizeVal = s.sizeVal /\ r.capacityVal \in Nat /\ r.capacityVal >= m
  BY <1>2, <1>3, HeapGrown
<1>5. Heap!Room(s, n) = r  BY <1>2, <1>3 DEF Heap!Room
<1> QED  BY <1>2, <1>4, <1>5

\* append keeps the object in its cells, for every text.
LEMMA HeapAppend ==
  ASSUME NEW s, HeapOk(s), NEW t \in Seq(Cell)
  PROVE  HeapOk(Heap!append(s, t))
<1>1. CASE t = <<>>
  <2>1. s.sizeVal + 0 \in Nat  BY HeapFields
  <2> QED  BY <1>1, <2>1, HeapReserve DEF Heap!append, Heap!Room
<1>2. CASE t # <<>>
  <2>1. Len(t) \in Nat /\ Len(t) > 0 /\ s.sizeVal \in Nat  BY <1>2, HeapFields
  <2>2. PICK r : r = Heap!Room(s, Len(t))  OBVIOUS
  <2>3. HeapOk(r) /\ r.capacityVal >= s.sizeVal + Len(t) /\ r.capacityVal > 0
        /\ r.capacityVal \in Nat
    BY <2>1, <2>2, HeapRoom
  <2>4. Heap!append(s, t) = Extended(r, s.sizeVal, t)  BY <1>2, <2>2, HeapCells DEF Heap!append
  <2> QED  BY <2>1, <2>3, <2>4, HeapExtended
<1> QED  BY <1>1, <1>2

\* insert of a range at any offset up to the length.
LEMMA HeapInsert ==
  ASSUME NEW s, HeapOk(s), NEW n \in Nat, n <= s.sizeVal, NEW t \in Seq(Cell)
  PROVE  HeapOk(Heap!insert(s, n, t))
<1>1. CASE t = <<>>  BY <1>1 DEF Heap!insert
<1>2. CASE t # <<>>
  <2>1. Len(t) \in Nat /\ Len(t) > 0 /\ s.sizeVal \in Nat  BY <1>2, HeapFields
  <2>2. PICK r : r = Heap!Room(s, Len(t))  OBVIOUS
  <2>3. HeapOk(r) /\ r.capacityVal >= s.sizeVal + Len(t) /\ r.capacityVal > 0
        /\ r.capacityVal \in Nat /\ r.sizeVal = s.sizeVal
    BY <2>1, <2>2, HeapRoom
  <2>4. Heap!insert(s, n, t) = Terminated(Spread(r, n, t))  BY <1>2, <2>2, HeapCells DEF Heap!insert
  <2>5. HeapOk(Spread(r, n, t))  BY <2>1, <2>3, HeapSpread
  <2> QED  BY <2>4, <2>5, HeapTerminated
<1> QED  BY <1>1, <1>2

\* One character is a text of length one.
LEMMA OneCell == ASSUME NEW c \in Chars PROVE <<c>> \in Seq(Cell) /\ Len(<<c>>) = 1
BY DEF Cell

\* insert of one character, which doubles the capacity and writes no terminator.
LEMMA HeapInsertOne ==
  ASSUME NEW s, HeapOk(s), NEW n \in Nat, n <= s.sizeVal, NEW c \in Chars
  PROVE  HeapOk(Heap!insertOne(s, n, c))
<1>1. s.sizeVal \in Nat  BY HeapFields
<1>2. PICK m \in Nat, k \in Nat : m = s.sizeVal + 1 /\ k = (s.sizeVal + 1) * 2 /\ m <= k  BY <1>1
<1>3. PICK r : r = IF m >= s.capacityVal THEN Heap!reserve(s, k) ELSE s  OBVIOUS
<1>4. HeapOk(r) /\ r.sizeVal = s.sizeVal /\ r.capacityVal \in Nat /\ r.capacityVal >= m
  BY <1>2, <1>3, HeapGrown
<1>5. PICK t \in Seq(Cell) : t = <<c>> /\ Len(t) = 1  BY OneCell
<1>6. Heap!insertOne(s, n, c) = Spread(r, n, t)  BY <1>3, <1>5, <1>2, HeapCells DEF Heap!insertOne
<1>7. s.sizeVal + Len(t) <= r.capacityVal /\ r.capacityVal > 0 /\ r.sizeVal + Len(t) <= r.capacityVal /\ n <= r.sizeVal
  BY <1>1, <1>4, <1>5, <1>2
<1> QED  BY <1>1, <1>4, <1>5, <1>6, <1>7, HeapSpread

\* emplace_back, which reserves four times what is needed.
LEMMA HeapEmplaceBack ==
  ASSUME NEW s, HeapOk(s), NEW c \in Chars
  PROVE  HeapOk(Heap!emplace_back(s, c))
<1>1. s.sizeVal \in Nat  BY HeapFields
<1>2. PICK m \in Nat, k \in Nat : m = s.sizeVal + 1 /\ k = (s.sizeVal + 2) * 4 /\ m <= k  BY <1>1
<1>3. PICK r : r = IF m >= s.capacityVal THEN Heap!reserve(s, k) ELSE s  OBVIOUS
<1>4. HeapOk(r) /\ r.capacityVal \in Nat /\ r.capacityVal >= m
  BY <1>2, <1>3, HeapGrown
<1>5. PICK t \in Seq(Cell) : t = <<c>> /\ Len(t) = 1  BY OneCell
<1>6. Heap!emplace_back(s, c) = Extended(r, s.sizeVal, t)
  BY <1>3, <1>5, <1>2, HeapCells DEF Heap!emplace_back
<1>7. s.sizeVal + Len(t) <= r.capacityVal /\ r.capacityVal > 0
  BY <1>1, <1>4, <1>5, <1>2
<1> QED  BY <1>1, <1>4, <1>5, <1>6, <1>7, HeapExtended

\* An object without cells.
LEMMA HeapNull == HeapOk(Heap!Null)
<1>1. <<>> \in Seq(Cell) /\ Len(<<>>) = 0  OBVIOUS
<1>2. [allocated |-> 0, released |-> 0] \in Freed  BY DEF Freed
<1> QED  BY <1>1, <1>2 DEF HeapOk, HeapStrings, Heap!Null, Heap!None

\* Construction from a text, and of nothing from a text that is too long.
LEMMA HeapConstruct ==
  ASSUME NEW t \in Seq(Cell)
  PROVE  HeapOk(Heap!construct(t))
<1>1. CASE Len(t) > 0 /\ Len(t) < MaxSize
  <2>1. PICK r : r = Heap!reserve(Heap!Null, Len(t))  OBVIOUS
  <2>2. HeapOk(r) /\ r.capacityVal \in Nat /\ r.capacityVal >= Len(t)
    BY <2>1, HeapNull, HeapReserve
  <2>3. 0 + Len(t) <= r.capacityVal /\ r.capacityVal > 0  BY <1>1, <2>2
  <2>4. Heap!construct(t) = Extended(r, 0, t)  BY <1>1, <2>1, HeapCells DEF Heap!construct
  <2> QED  BY <2>2, <2>3, <2>4, HeapExtended
<1>2. CASE ~(Len(t) > 0 /\ Len(t) < MaxSize)  BY <1>2, HeapNull DEF Heap!construct
<1> QED  BY <1>1, <1>2

\* The object that takes another's place by swap, whose cells are given back.
LEMMA HeapReplaced ==
  ASSUME NEW s, HeapOk(s), NEW r, HeapOk(r)
  PROVE  HeapOk(Heap!Replaced(s, r))
<1>1. PICK f \in Freed : f = Heap!Released(s, s.capacityVal)  BY HeapFields, HeapReleased
<1>2. Heap!Replaced(s, r) = [r EXCEPT !.freed = f]  BY <1>1 DEF Heap!Replaced
<1> QED  BY <1>2 DEF HeapOk, HeapStrings

\* resize, with its three cases: to nothing, within the capacity, and beyond it.
LEMMA HeapResize ==
  ASSUME NEW s, HeapOk(s), NEW n \in Nat
  PROVE  HeapOk(Heap!resize(s, n)) /\ Heap!resize(s, n).sizeVal = n
<1>1. s.sizeVal \in Nat /\ s.capacityVal \in Nat /\ s.sizeVal <= s.capacityVal  BY HeapFields
<1>2. CASE n = 0
  <2>1. Heap!resize(s, n) = [s EXCEPT !.sizeVal = 0]  BY <1>1, <1>2 DEF Heap!resize
  <2> QED  BY <1>2, <2>1 DEF HeapOk, HeapStrings
<1>3. CASE n > s.sizeVal
  <2>1. PICK r : r = IF n > s.capacityVal THEN Heap!Reallocated(s, n, s.capacityVal) ELSE s
    OBVIOUS
  <2>2. HeapOk(r) /\ r.sizeVal = s.sizeVal /\ r.capacityVal >= n
    <3>1. CASE n > s.capacityVal
      <4>1. r = Heap!Reallocated(s, n, s.capacityVal)  BY <2>1, <3>1
      <4>2. s.sizeVal <= n  BY <1>1, <1>3
      <4>3. HeapOk(r) /\ r.sizeVal = s.sizeVal /\ r.capacityVal = n
        BY <1>1, <4>1, <4>2, HeapReallocated
      <4> QED  BY <4>3
    <3>2. CASE ~(n > s.capacityVal)  BY <1>1, <2>1, <3>2
    <3> QED  BY <3>1, <3>2
  <2>3. PICK k \in Nat : k = r.capacityVal - s.sizeVal  BY <1>1, <1>3, <2>2, HeapFields
  <2>4. PICK t \in Seq(Cell) : t = Filled(NUL, k)  BY FilledCells DEF Cell
  <2>5. PICK q : q = [r EXCEPT !.dataVal = Written(r.dataVal, s.sizeVal, t)]  OBVIOUS
  <2>6. HeapOk(q) /\ q.capacityVal = r.capacityVal  BY <1>1, <2>2, <2>5, HeapWritten
  <2>7. Heap!resize(s, n) = Sized(q, n)
    <3>1. n # 0 /\ ~(n < s.sizeVal) /\ n # s.sizeVal  BY <1>1, <1>3
    <3>2. q = [r EXCEPT !.dataVal =
                 Heap!Written(r.dataVal, s.sizeVal, Heap!Filled(NUL, r.capacityVal - s.sizeVal))]
      BY <2>3, <2>4, <2>5, HeapCells
    <3>3. Heap!resize(s, n) = Heap!Sized(q, n)
      BY <1>3, <2>1, <3>1, <3>2 DEF Heap!resize
    <3> QED  BY <3>3, HeapCells
  <2>8. n <= q.capacityVal /\ q.capacityVal > 0  BY <1>1, <1>3, <2>2, <2>6, HeapFields
  <2> QED  BY <2>6, <2>7, <2>8, HeapSized
<1>4. CASE n < s.sizeVal /\ n # 0
  <2>1. Heap!resize(s, n) = Sized(s, n)  BY <1>1, <1>4, HeapCells DEF Heap!resize
  <2>2. n <= s.capacityVal /\ s.capacityVal > 0  BY <1>1, <1>4
  <2> QED  BY <2>1, <2>2, HeapSized
<1>5. CASE n = s.sizeVal /\ n # 0  BY <1>1, <1>5 DEF Heap!resize
<1> QED  BY <1>1, <1>2, <1>3, <1>4, <1>5

\* The object as its default constructor makes it.
LEMMA HeapNew == HeapOk(Heap!New)
BY HeapNull, HeapResize, BuffersAssumption DEF Heap!New

\* clear keeps the cells.
LEMMA HeapClear == ASSUME NEW s, HeapOk(s) PROVE HeapOk(Heap!clear(s))
<1>1. CASE s.sizeVal > 0
  <2>1. PICK t \in Seq(Cell) : t = <<NUL>>  BY NULCell
  <2>2. PICK o \in Int : o = 0  OBVIOUS
  <2>3. PICK r : r = [s EXCEPT !.dataVal = Written(s.dataVal, o, t)]  OBVIOUS
  <2>4. HeapOk(r) /\ r.capacityVal = s.capacityVal  BY <2>3, HeapWritten
  <2>5. Heap!clear(s) = [r EXCEPT !.sizeVal = 0]
    BY <1>1, <2>1, <2>3, <2>2, HeapCells DEF Heap!clear
  <2>6. 0 <= r.capacityVal /\ r.capacityVal > 0  BY <1>1, <2>4, HeapFields
  <2> QED  BY <2>4, <2>5, <2>6, HeapResized
<1>2. CASE ~(s.sizeVal > 0)  BY <1>2 DEF Heap!clear
<1> QED  BY <1>1, <1>2

\* substr from an offset within the content.
LEMMA HeapSubstr ==
  ASSUME NEW s, HeapOk(s), NEW i \in Nat, NEW count \in Nat, i < s.sizeVal
  PROVE  HeapOk(Heap!substr(s, i, count))
<1>1. s.sizeVal \in Nat /\ s.sizeVal <= Len(s.dataVal) /\ s.dataVal \in Seq(Cell)  BY HeapFields
<1>2. PICK n \in Nat : n = Lesser(count, s.sizeVal - i) /\ n <= s.sizeVal - i
  BY <1>1 DEF Lesser
<1>3. CASE n = 0  BY <1>2, <1>3, HeapNew, HeapCells DEF Heap!substr
<1>4. CASE n # 0
  <2>1. PICK r : r = Heap!resize(Heap!New, n)  OBVIOUS
  <2>2. HeapOk(r)  BY <2>1, HeapNew, HeapResize
  <2>3. i + n \in Nat /\ i <= i + n /\ i + n <= Len(s.dataVal)  BY <1>1, <1>2
  <2>4. PICK b \in Seq(Cell) : b = Between(s.dataVal, i, i + n)  BY <1>1, <2>3, BetweenCells
  <2>5. PICK o \in Int : o = 0  OBVIOUS
  <2>6. PICK q : q = [r EXCEPT !.dataVal = Written(r.dataVal, o, b)]  OBVIOUS
  <2>7. Heap!substr(s, i, count) = q
    <3>1. n = Heap!Lesser(count, s.sizeVal - i)  BY <1>2, HeapCells
    <3>2. q = [r EXCEPT !.dataVal = Heap!Written(r.dataVal, 0, Heap!Between(s.dataVal, i, i + n))]
      BY <2>4, <2>5, <2>6, HeapCells
    <3> QED  BY <1>4, <2>1, <3>1, <3>2 DEF Heap!substr
  <2> QED  BY <2>2, <2>6, <2>7, HeapWritten
<1> QED  BY <1>3, <1>4

\* A number of characters goes that is at most what there is.
LEMMA HeapShrunk ==
  ASSUME NEW s, HeapOk(s), NEW n \in Nat, n <= s.sizeVal, NEW r, r = [s EXCEPT !.sizeVal = n]
  PROVE  HeapOk(r)
BY DEF HeapOk, HeapStrings

\* erase of any number of characters, more than there are included.
LEMMA HeapErase ==
  ASSUME NEW s, HeapOk(s), NEW n \in Nat
  PROVE  HeapOk(erase(s, n))
<1>1. s.sizeVal \in Nat /\ s.capacityVal \in Nat /\ s.sizeVal <= Len(s.dataVal)
      /\ s.sizeVal <= s.capacityVal /\ s.dataVal \in Seq(Cell)
  BY HeapFields
<1>2. PICK k \in Nat : k = Lesser(n, s.sizeVal) /\ k <= s.sizeVal  BY <1>1 DEF Lesser
<1>3. CASE n = 0  BY <1>3 DEF erase
<1>4. CASE n # 0
  <2>1. PICK b \in Seq(Cell) : b = Between(s.dataVal, k, s.sizeVal)  BY <1>1, <1>2, BetweenCells
  <2>2. PICK o \in Int : o = 0  OBVIOUS
  <2>3. PICK r : r = [s EXCEPT !.dataVal = Written(s.dataVal, o, b)]  OBVIOUS
  <2>4. HeapOk(r) /\ r.sizeVal = s.sizeVal  BY <2>3, HeapWritten
  <2>5. PICK m \in Nat : m = s.sizeVal - k /\ m <= s.sizeVal  BY <1>1, <1>2
  <2>6. PICK q : q = [r EXCEPT !.sizeVal = m]  OBVIOUS
  <2>7. HeapOk(q)  BY <2>4, <2>5, <2>6, HeapShrunk
  <2>8. Shifted(s, k) = q  BY <1>1, <2>1, <2>2, <2>3, <2>5, <2>6 DEF Shifted, HeapOk, HeapStrings
  <2>9. erase(s, n) = Terminated(q)  BY <1>2, <1>4, <2>8 DEF erase
  <2> QED  BY <2>7, <2>9, HeapTerminated
<1> QED  BY <1>3, <1>4

-------------------------------------------------------------------------------
\* Inline strings: the same, without a capacity.
LEMMA InlineFields ==
  ASSUME NEW s, InlineOk(s)
  PROVE  /\ s.dataVal \in Seq(Cell) /\ s.sizeVal \in Nat /\ BufferSize \in Nat
         /\ Len(s.dataVal) = BufferSize + 1 /\ s.sizeVal < BufferSize /\ s.sizeVal <= Len(s.dataVal)
BY BuffersAssumption DEF InlineOk, InlineStrings

\* An object of the cells an inline one has.
LEMMA InlineBuilt ==
  ASSUME NEW s, InlineOk(s), NEW d \in Seq(Cell), Len(d) = Len(s.dataVal),
         NEW n \in Nat, n < BufferSize, NEW r, r = [s EXCEPT !.dataVal = d, !.sizeVal = n]
  PROVE  InlineOk(r) /\ r.sizeVal = n
BY DEF InlineOk, InlineStrings

\* A write to its cells leaves an inline object's length as it was.
LEMMA InlineWritten ==
  ASSUME NEW s, InlineOk(s), NEW offset \in Int, NEW t \in Seq(Cell),
         NEW r, r = [s EXCEPT !.dataVal = Written(s.dataVal, offset, t)]
  PROVE  InlineOk(r) /\ r.sizeVal = s.sizeVal
<1>1. PICK d \in Seq(Cell) : d = Written(s.dataVal, offset, t) /\ Len(d) = Len(s.dataVal)
  BY InlineFields, WrittenCells
<1>2. r = [s EXCEPT !.dataVal = d]  BY <1>1
<1> QED  BY <1>1, <1>2 DEF InlineOk, InlineStrings

\* sizeVal may be set to anything that leaves a cell free.
LEMMA InlineResized ==
  ASSUME NEW s, InlineOk(s), NEW n \in Nat, n < BufferSize, NEW r, r = [s EXCEPT !.sizeVal = n]
  PROVE  InlineOk(r) /\ r.sizeVal = n
BY DEF InlineOk, InlineStrings

\* The terminator lies within an inline object's cells.
LEMMA InlineTerminated ==
  ASSUME NEW s, InlineOk(s)
  PROVE  InlineOk(Terminated(s)) /\ Terminated(s).sizeVal = s.sizeVal
<1>1. s.sizeVal \in Int  BY InlineFields
<1>2. PICK t \in Seq(Cell) : t = <<NUL>>  BY NULCell
<1>3. PICK r : r = [s EXCEPT !.dataVal = Written(s.dataVal, s.sizeVal, t)]  OBVIOUS
<1>4. Terminated(s) = r  BY <1>2, <1>3 DEF Terminated
<1> QED  BY <1>1, <1>3, <1>4, InlineWritten

\* A new length and its terminator.
LEMMA InlineSized ==
  ASSUME NEW s, InlineOk(s), NEW n \in Nat, n < BufferSize
  PROVE  InlineOk(Sized(s, n)) /\ Sized(s, n).sizeVal = n
<1>1. PICK r : r = [s EXCEPT !.sizeVal = n]  OBVIOUS
<1>2. InlineOk(r) /\ r.sizeVal = n  BY <1>1, InlineResized
<1>3. Sized(s, n) = Terminated(r)  BY <1>1 DEF Sized
<1> QED  BY <1>2, <1>3, InlineTerminated

\* Characters written from an offset on, leaving a cell free.
LEMMA InlineExtended ==
  ASSUME NEW s, InlineOk(s), NEW n \in Nat, NEW t \in Seq(Cell), n + Len(t) < BufferSize
  PROVE  InlineOk(Extended(s, n, t))
<1>1. PICK r : r = [s EXCEPT !.dataVal = Written(s.dataVal, n, t)]  OBVIOUS
<1>2. InlineOk(r)  BY <1>1, InlineWritten
<1>3. n + Len(t) \in Nat  OBVIOUS
<1>4. Extended(s, n, t) = Sized(r, n + Len(t))  BY <1>1 DEF Extended
<1> QED  BY <1>2, <1>3, <1>4, InlineSized

\* insert shifts and writes within the cells it checked for.
LEMMA InlineSpread ==
  ASSUME NEW s, InlineOk(s), NEW n \in Nat, n <= s.sizeVal, NEW t \in Seq(Cell),
         s.sizeVal + Len(t) < BufferSize
  PROVE  InlineOk(Spread(s, n, t))
<1>1. PICK b \in Seq(Cell) : b = Between(s.dataVal, n, s.sizeVal)
  BY InlineFields, BetweenCells
<1>2. n + Len(t) \in Int /\ s.sizeVal + Len(t) \in Nat  BY InlineFields
<1>3. PICK r : r = [s EXCEPT !.dataVal = Written(s.dataVal, n + Len(t), b)]  OBVIOUS
<1>4. InlineOk(r) /\ r.sizeVal = s.sizeVal
  BY <1>2, <1>3, InlineWritten
<1>5. PICK q : q = [r EXCEPT !.dataVal = Written(r.dataVal, n, t)]  OBVIOUS
<1>6. InlineOk(q) /\ q.sizeVal = s.sizeVal
  BY <1>4, <1>5, InlineWritten
<1>7. Spread(s, n, t) = [q EXCEPT !.sizeVal = s.sizeVal + Len(t)]
  BY <1>1, <1>3, <1>5 DEF Spread, InlineOk, InlineStrings
<1> QED  BY <1>2, <1>6, <1>7, InlineResized

\* An inline object of no characters.
LEMMA InlineEmpty == InlineOk(Inline!Empty)
<1>1. BufferSize \in Nat /\ BufferSize > 0  BY BuffersAssumption
<1>2. Filled(NUL, BufferSize + 1) \in Seq(Cell) /\ Len(Filled(NUL, BufferSize + 1)) = BufferSize + 1
  <2>1. PICK n \in Nat : n = BufferSize + 1  BY <1>1
  <2>2. NUL \in Cell  BY DEF Cell
  <2> QED  BY <2>1, <2>2, FilledCells
<1>3. PICK d \in Seq(Cell) : d = Inline!Filled(NUL, BufferSize + 1) /\ Len(d) = BufferSize + 1
  BY <1>2, InlineCells
<1>4. Inline!Empty = [dataVal |-> d, sizeVal |-> 0]  BY <1>3 DEF Inline!Empty
<1> QED  BY <1>1, <1>3, <1>4 DEF InlineOk, InlineStrings

\* resize does nothing when no cell would be left free.
LEMMA InlineResize ==
  ASSUME NEW s, InlineOk(s), NEW n \in Nat
  PROVE  InlineOk(Inline!resize(s, n))
<1>1. CASE ~(n < BufferSize)  BY <1>1 DEF Inline!resize
<1>2. CASE n < BufferSize
  <2>1. PICK d \in Seq(Cell) :
          /\ Len(d) = Len(s.dataVal)
          /\ d = IF n > s.sizeVal
                 THEN Inline!Written(s.dataVal, s.sizeVal, Inline!Filled(NUL, n - s.sizeVal))
                 ELSE s.dataVal
    <3>1. CASE n > s.sizeVal
      <4>1. PICK k \in Nat : k = n - s.sizeVal  BY <3>1, InlineFields
      <4>2. PICK t \in Seq(Cell) : t = Filled(NUL, k)  BY FilledCells DEF Cell
      <4>3. Written(s.dataVal, s.sizeVal, t) \in Seq(Cell)
            /\ Len(Written(s.dataVal, s.sizeVal, t)) = Len(s.dataVal)
        BY InlineFields, WrittenCells
      <4> QED  BY <3>1, <4>1, <4>2, <4>3, InlineCells
    <3>2. CASE ~(n > s.sizeVal)  BY <3>2, InlineFields
    <3> QED  BY <3>1, <3>2
  <2>2. PICK r : r = [s EXCEPT !.dataVal = d]  OBVIOUS
  <2>3. InlineOk(r)  BY <2>1, <2>2 DEF InlineOk, InlineStrings
  <2>4. Inline!resize(s, n) = Sized(r, n)  BY <1>2, <2>1, <2>2, InlineCells DEF Inline!resize
  <2> QED  BY <1>2, <2>3, <2>4, InlineSized
<1> QED  BY <1>1, <1>2

\* An inline object as its default constructor makes it.
LEMMA InlineNew == InlineOk(Inline!New)
BY InlineEmpty, InlineResize, BuffersAssumption DEF Inline!New

\* Construction from a text, of nothing when the text leaves no cell free.
LEMMA InlineConstruct ==
  ASSUME NEW t \in Seq(Cell)
  PROVE  InlineOk(Inline!construct(t))
<1>1. CASE t # <<>> /\ Inline!HasRoom(Inline!Empty, Len(t))
  <2>1. PICK e : e = Inline!Empty  OBVIOUS
  <2>2. InlineOk(e) /\ e.sizeVal = 0  BY <2>1, InlineEmpty DEF Inline!Empty
  <2>3. PICK o \in Nat : o = 0  OBVIOUS
  <2>4. o + Len(t) < BufferSize  BY <1>1, <2>1, <2>2, <2>3 DEF Inline!HasRoom
  <2>5. Inline!construct(t) = Extended(e, o, t)  BY <1>1, <2>1, <2>3, InlineCells DEF Inline!construct
  <2> QED  BY <2>2, <2>4, <2>5, InlineExtended
<1>2. CASE ~(t # <<>> /\ Inline!HasRoom(Inline!Empty, Len(t)))
  BY <1>2, InlineEmpty DEF Inline!construct
<1> QED  BY <1>1, <1>2

\* swap exchanges every cell but the last and the lengths (string.hpp 976-985).
LEMMA InlineReplaced ==
  ASSUME NEW s, InlineOk(s), NEW r, InlineOk(r)
  PROVE  InlineOk(Inline!Replaced(s, r))
<1>1. /\ r.dataVal \in Seq(Cell) /\ s.dataVal \in Seq(Cell) /\ BufferSize \in Nat
      /\ Len(r.dataVal) = BufferSize + 1 /\ Len(s.dataVal) = BufferSize + 1
  BY BuffersAssumption DEF InlineOk, InlineStrings
<1>2. PICK cells \in Seq(Cell) : cells = r.dataVal /\ BufferSize <= Len(cells)  BY <1>1
<1>3. PICK o \in Nat : o = 0 /\ o <= BufferSize  BY <1>1
<1>4. PICK t \in Seq(Cell) : t = Between(cells, o, BufferSize)
  BY <1>1, <1>2, <1>3, BetweenCells
<1>5. o + 1 = 1  BY <1>3
<1>6. t = SubSeq(r.dataVal, 1, BufferSize)  BY <1>2, <1>4, <1>5 DEF Between
<1>7. Written(s.dataVal, o, t) \in Seq(Cell) /\ Len(Written(s.dataVal, o, t)) = Len(s.dataVal)
  BY <1>1, WrittenCells
<1>8. PICK d \in Seq(Cell) : d = Written(s.dataVal, o, t) /\ Len(d) = Len(r.dataVal)
  BY <1>1, <1>7
<1>9. Inline!Replaced(s, r) = [r EXCEPT !.dataVal = d]
  BY <1>3, <1>6, <1>8, InlineCells DEF Inline!Replaced
<1> QED  BY <1>8, <1>9 DEF InlineOk, InlineStrings

\* append does nothing when no cell would be left free.
LEMMA InlineAppend ==
  ASSUME NEW s, InlineOk(s), NEW t \in Seq(Cell)
  PROVE  InlineOk(Inline!append(s, t))
<1>1. CASE t # <<>> /\ Inline!HasRoom(s, Len(t))
  <2>1. s.sizeVal \in Nat  BY InlineFields
  <2>2. s.sizeVal + Len(t) < BufferSize  BY <1>1 DEF Inline!HasRoom
  <2>3. Inline!append(s, t) = Extended(s, s.sizeVal, t)  BY <1>1, InlineCells DEF Inline!append
  <2> QED  BY <2>1, <2>2, <2>3, InlineExtended
<1>2. CASE ~(t # <<>> /\ Inline!HasRoom(s, Len(t)))  BY <1>2 DEF Inline!append
<1> QED  BY <1>1, <1>2

\* insert at any offset up to the length.
LEMMA InlineInsert ==
  ASSUME NEW s, InlineOk(s), NEW n \in Nat, n <= s.sizeVal, NEW t \in Seq(Cell)
  PROVE  InlineOk(Inline!insert(s, n, t))
<1>1. CASE t # <<>> /\ Inline!HasRoom(s, Len(t))
  <2>1. s.sizeVal + Len(t) < BufferSize  BY <1>1 DEF Inline!HasRoom
  <2>2. Inline!insert(s, n, t) = Terminated(Spread(s, n, t))
    BY <1>1, InlineCells DEF Inline!insert
  <2>3. InlineOk(Spread(s, n, t))  BY <2>1, InlineSpread
  <2> QED  BY <2>2, <2>3, InlineTerminated
<1>2. CASE ~(t # <<>> /\ Inline!HasRoom(s, Len(t)))  BY <1>2 DEF Inline!insert
<1> QED  BY <1>1, <1>2

\* emplace_back does nothing when no cell would be left free.
LEMMA InlineEmplaceBack ==
  ASSUME NEW s, InlineOk(s), NEW c \in Chars
  PROVE  InlineOk(Inline!emplace_back(s, c))
<1>1. CASE Inline!HasRoom(s, 1)
  <2>1. PICK t \in Seq(Cell) : t = <<c>> /\ Len(t) = 1  BY OneCell
  <2>2. s.sizeVal \in Nat  BY InlineFields
  <2>3. s.sizeVal + Len(t) < BufferSize  BY <1>1, <2>1 DEF Inline!HasRoom
  <2>4. Inline!emplace_back(s, c) = Extended(s, s.sizeVal, t)
    BY <1>1, <2>1, InlineCells DEF Inline!emplace_back
  <2> QED  BY <2>2, <2>3, <2>4, InlineExtended
<1>2. CASE ~Inline!HasRoom(s, 1)  BY <1>2 DEF Inline!emplace_back
<1> QED  BY <1>1, <1>2

\* clear keeps the cells and writes a terminator in the first.
LEMMA InlineClear == ASSUME NEW s, InlineOk(s) PROVE InlineOk(Inline!clear(s))
<1>1. PICK t \in Seq(Cell) : t = <<NUL>>  BY NULCell
<1>2. PICK o \in Nat : o = 0 /\ o < BufferSize  BY BuffersAssumption
<1>3. PICK r : r = [s EXCEPT !.dataVal = Written(s.dataVal, o, t)]  OBVIOUS
<1>4. InlineOk(r)  BY <1>3, InlineWritten
<1>5. PICK q : q = [r EXCEPT !.sizeVal = o]  OBVIOUS
<1>6. Inline!clear(s) = q  BY <1>1, <1>2, <1>3, <1>5, InlineCells DEF Inline!clear
<1> QED  BY <1>2, <1>4, <1>5, <1>6, InlineResized

\* erase of any number of characters.
LEMMA InlineErase ==
  ASSUME NEW s, InlineOk(s), NEW n \in Nat
  PROVE  InlineOk(erase(s, n))
<1>1. s.sizeVal \in Nat /\ s.sizeVal <= Len(s.dataVal) /\ s.sizeVal < BufferSize
      /\ s.dataVal \in Seq(Cell) /\ BufferSize \in Nat
  BY InlineFields
<1>2. PICK k \in Nat : k = Lesser(n, s.sizeVal) /\ k <= s.sizeVal  BY <1>1 DEF Lesser
<1>3. CASE n = 0  BY <1>3 DEF erase
<1>4. CASE n # 0
  <2>1. PICK b \in Seq(Cell) : b = Between(s.dataVal, k, s.sizeVal)  BY <1>1, <1>2, BetweenCells
  <2>2. PICK o \in Int : o = 0  OBVIOUS
  <2>3. PICK r : r = [s EXCEPT !.dataVal = Written(s.dataVal, o, b)]  OBVIOUS
  <2>4. InlineOk(r)  BY <2>3, InlineWritten
  <2>5. PICK m \in Nat : m = s.sizeVal - k /\ m < BufferSize  BY <1>1, <1>2
  <2>6. PICK q : q = [r EXCEPT !.sizeVal = m]  OBVIOUS
  <2>7. InlineOk(q)  BY <2>4, <2>5, <2>6, InlineResized
  <2>8. Shifted(s, k) = q  BY <1>1, <2>1, <2>2, <2>3, <2>5, <2>6 DEF Shifted, InlineOk, InlineStrings
  <2>9. erase(s, n) = Terminated(q)  BY <1>2, <1>4, <2>8 DEF erase
  <2> QED  BY <2>7, <2>9, InlineTerminated
<1> QED  BY <1>3, <1>4

\* Not longer than what it is taken from, so that the text always fits.
LEMMA InlineSubstr ==
  ASSUME NEW s, InlineOk(s), NEW i \in Nat, NEW count \in Nat, i < s.sizeVal
  PROVE  InlineOk(Inline!substr(s, i, count))
<1>1. s.sizeVal \in Nat /\ s.sizeVal <= Len(s.dataVal) /\ s.dataVal \in Seq(Cell)
      /\ s.sizeVal < BufferSize /\ BufferSize \in Nat
  BY InlineFields
<1>2. PICK n \in Nat : n = Lesser(count, s.sizeVal - i) /\ n <= s.sizeVal - i
  BY <1>1 DEF Lesser
<1>3. CASE n = 0  BY <1>2, <1>3, InlineNew, InlineCells DEF Inline!substr
<1>4. CASE n # 0
  <2>1. PICK j \in Nat : j = i + n /\ i <= j /\ j <= Len(s.dataVal) /\ j - i = n  BY <1>1, <1>2
  <2>2. Between(s.dataVal, i, j) \in Seq(Cell) /\ Len(Between(s.dataVal, i, j)) = j - i
    BY <1>1, <2>1, BetweenCells
  <2>3. PICK b \in Seq(Cell) : b = Between(s.dataVal, i, j) /\ Len(b) = n
    BY <2>1, <2>2
  <2>4. PICK o \in Nat : o = 0  OBVIOUS
  <2>5. o + Len(b) < BufferSize  BY <1>1, <1>2, <2>3, <2>4
  <2>6. Inline!substr(s, i, count) = Extended(Inline!New, o, b)
    <3>1. n = Inline!Lesser(count, s.sizeVal - i)  BY <1>2, InlineCells
    <3>2. b = Inline!Between(s.dataVal, i, i + n)  BY <2>1, <2>3, InlineCells
    <3>3. Inline!substr(s, i, count) = Inline!Extended(Inline!New, o, b)
      BY <1>4, <2>4, <3>1, <3>2 DEF Inline!substr
    <3> QED  BY <3>3, InlineCells
  <2> QED  BY <2>5, <2>6, InlineNew, InlineExtended
<1> QED  BY <1>3, <1>4

-------------------------------------------------------------------------------
\* An operation of either kind keeps the invariant if it keeps both kinds of object.
LEMMA EitherKeeps ==
  ASSUME IInv, NEW h, NEW l, kind = "heap" => HeapOk(h), kind = "inline" => InlineOk(l),
         Either(h, l), kind' = kind
  PROVE  IInv'
BY DEF IInv, Either

\* Construction, and the object that a longer-lived one is swapped with.
LEMMA AssignedKeeps ==
  ASSUME IInv, NEW t \in Seq(Cell), Assigned(t), kind' = kind
  PROVE  IInv'
<1>1. kind = "heap" => HeapOk(Heap!Replaced(string, Heap!construct(t)))
  BY HeapConstruct, HeapReplaced DEF IInv
<1>2. kind = "inline" => InlineOk(Inline!Replaced(string, Inline!construct(t)))
  BY InlineConstruct, InlineReplaced DEF IInv
<1> QED  BY <1>1, <1>2, EitherKeeps DEF Assigned

\* The texts of the instance are sequences of cells' values.
LEMMA TextsOfCells == \A t \in Texts : t \in Seq(Cell)
BY TextsAssumption, TextCells

\* An object's own content can be given to its operations.
LEMMA OwnContent == ASSUME IInv PROVE Content(string) \in Seq(Cell) /\ string.sizeVal \in Nat
BY HeapContent, InlineContent, HeapFields, InlineFields DEF IInv

\* The step of AppendAll.
LEMMA AppendAllKeeps == ASSUME IInv, AppendAll, kind' = kind PROVE IInv'
<1>1. PICK t : /\ t \in Addable \cup {Content(string)}
               /\ Either(Heap!append(string, t), Inline!append(string, t))
  BY DEF AppendAll
<1>2. t \in Seq(Cell)  BY <1>1, TextsOfCells, OwnContent DEF Addable
<1>3. kind = "heap" => HeapOk(Heap!append(string, t))  BY <1>2, HeapAppend DEF IInv
<1>4. kind = "inline" => InlineOk(Inline!append(string, t))  BY <1>2, InlineAppend DEF IInv
<1> QED  BY <1>1, <1>3, <1>4, EitherKeeps

\* The step of Prepend.
LEMMA PrependKeeps == ASSUME IInv, Prepend, kind' = kind PROVE IInv'
<1> DEFINE Front(t) == Heap!append(Heap!construct(t), Content(string))
           H(t) == Heap!Replaced(string, Heap!construct(Content(Front(t))))
           L(t) == Inline!Replaced(string, Inline!append(Inline!construct(t), Content(string)))
<1>1. PICK t : t \in Addable /\ Either(H(t), L(t))  BY DEF Prepend
<1>2. t \in Seq(Cell)  BY <1>1, TextsOfCells DEF Addable
<1>3. ASSUME kind = "heap" PROVE HeapOk(H(t))
  <2>1. HeapOk(Front(t))  BY <1>2, OwnContent, HeapConstruct, HeapAppend
  <2>2. Content(Front(t)) \in Seq(Cell)  BY <2>1, HeapContent
  <2>3. HeapOk(Heap!construct(Content(Front(t))))  BY <2>2, HeapConstruct
  <2> QED  BY <1>3, <2>3, HeapReplaced DEF IInv
<1>4. ASSUME kind = "inline" PROVE InlineOk(L(t))
  <2>1. InlineOk(Inline!append(Inline!construct(t), Content(string)))
    BY <1>2, OwnContent, InlineConstruct, InlineAppend
  <2> QED  BY <1>4, <2>1, InlineReplaced DEF IInv
<1> HIDE DEF H, L
<1> QED  BY <1>1, <1>3, <1>4, EitherKeeps

\* The step of Push.
LEMMA PushKeeps == ASSUME IInv, Push, kind' = kind PROVE IInv'
<1>1. PICK c \in Chars : Either(Heap!emplace_back(string, c), Inline!emplace_back(string, c))
  BY DEF Push
<1>2. kind = "heap" => HeapOk(Heap!emplace_back(string, c))  BY HeapEmplaceBack DEF IInv
<1>3. kind = "inline" => InlineOk(Inline!emplace_back(string, c))  BY InlineEmplaceBack DEF IInv
<1> QED  BY <1>1, <1>2, <1>3, EitherKeeps

\* The step of Insert.
LEMMA InsertKeeps == ASSUME IInv, Insert, kind' = kind PROVE IInv'
<1>1. PICK t \in Addable, n \in Positions : Either(Heap!insert(string, n, t), Inline!insert(string, n, t))
  BY DEF Insert
<1>2. t \in Seq(Cell) /\ n \in Nat /\ n <= string.sizeVal
  BY <1>1, TextsOfCells, OwnContent DEF Addable, Positions
<1>3. kind = "heap" => HeapOk(Heap!insert(string, n, t))  BY <1>2, HeapInsert DEF IInv
<1>4. kind = "inline" => InlineOk(Inline!insert(string, n, t))  BY <1>2, InlineInsert DEF IInv
<1> QED  BY <1>1, <1>3, <1>4, EitherKeeps

\* The step of InsertOne.
LEMMA InsertOneKeeps == ASSUME IInv, InsertOne, kind' = kind PROVE IInv'
<1>1. PICK c \in Chars, n \in Positions :
        Either(Heap!insertOne(string, n, c), Inline!insert(string, n, <<c>>))
  BY DEF InsertOne
<1>2. n \in Nat /\ n <= string.sizeVal  BY <1>1, OwnContent DEF Positions
<1>3. PICK t \in Seq(Cell) : t = <<c>>  BY OneCell
<1>4. kind = "heap" => HeapOk(Heap!insertOne(string, n, c))  BY <1>2, HeapInsertOne DEF IInv
<1>5. kind = "inline" => InlineOk(Inline!insert(string, n, t))  BY <1>2, InlineInsert DEF IInv
<1> QED  BY <1>1, <1>3, <1>4, <1>5, EitherKeeps

\* The step of Erase.
LEMMA EraseKeeps == ASSUME IInv, Erase, kind' = kind PROVE IInv'
<1>1. PICK n \in 0..(string.sizeVal + 1) : string' = erase(string, n)  BY DEF Erase
<1>2. n \in Nat  BY <1>1, OwnContent
<1> QED  BY <1>1, <1>2, HeapErase, InlineErase DEF IInv

\* The step of Substr.
LEMMA SubstrKeeps == ASSUME IInv, Substr, kind' = kind PROVE IInv'
<1>1. PICK n \in 0..(string.sizeVal - 1), count \in 0..MaxLength :
        Assigned(Content(IF kind = "heap" THEN Heap!substr(string, n, count)
                         ELSE Inline!substr(string, n, count)))
  BY DEF Substr
<1>2. n \in Nat /\ n < string.sizeVal /\ count \in Nat
  BY <1>1, OwnContent, TextsAssumption
<1>3. PICK r : r = IF kind = "heap" THEN Heap!substr(string, n, count) ELSE Inline!substr(string, n, count)
  OBVIOUS
<1>4. Content(r) \in Seq(Cell)
  <2>1. CASE kind = "heap"
    BY <1>2, <1>3, <2>1, HeapSubstr, HeapContent DEF IInv
  <2>2. CASE kind = "inline"
    BY <1>2, <1>3, <2>2, InlineSubstr, InlineContent DEF IInv
  <2> QED  BY <2>1, <2>2 DEF IInv
<1> QED  BY <1>1, <1>3, <1>4, AssignedKeeps

\* The step of Resize.
LEMMA ResizeKeeps == ASSUME IInv, Resize, kind' = kind PROVE IInv'
<1>1. PICK n \in Sizes : Either(Heap!resize(string, n), Inline!resize(string, n))  BY DEF Resize
<1>2. n \in Nat  BY TextsAssumption
<1>3. kind = "heap" => HeapOk(Heap!resize(string, n))  BY <1>2, HeapResize DEF IInv
<1>4. kind = "inline" => InlineOk(Inline!resize(string, n))  BY <1>2, InlineResize DEF IInv
<1> QED  BY <1>1, <1>3, <1>4, EitherKeeps

\* The step of Reserve.
LEMMA ReserveKeeps == ASSUME IInv, Reserve, kind' = kind PROVE IInv'
<1>1. PICK n \in Capacities : Either(Heap!reserve(string, n), string)  BY DEF Reserve
<1>2. n \in Nat  BY TextsAssumption
<1>3. kind = "heap" => HeapOk(Heap!reserve(string, n))  BY <1>2, HeapReserve DEF IInv
<1>4. kind = "inline" => InlineOk(string)  BY DEF IInv
<1> QED  BY <1>1, <1>3, <1>4, EitherKeeps

\* The step of Clear.
LEMMA ClearKeeps == ASSUME IInv, Clear, kind' = kind PROVE IInv'
<1>1. kind = "heap" => HeapOk(Heap!clear(string))  BY HeapClear DEF IInv
<1>2. kind = "inline" => InlineOk(Inline!clear(string))  BY InlineClear DEF IInv
<1> QED  BY <1>1, <1>2, EitherKeeps DEF Clear

\* The step of Renew.
LEMMA RenewKeeps == ASSUME IInv, Renew, kind' = kind PROVE IInv'
<1>1. kind = "heap" => HeapOk(Heap!Replaced(string, Heap!New))  BY HeapNew, HeapReplaced DEF IInv
<1>2. kind = "inline" => InlineOk(Inline!New)  BY InlineNew
<1> QED  BY <1>1, <1>2, EitherKeeps DEF Renew

\* The step of MoveOut.
LEMMA MoveOutKeeps == ASSUME IInv, MoveOut, kind' = kind PROVE IInv'
<1>1. ASSUME kind = "heap" PROVE HeapOk([Heap!Null EXCEPT !.freed = string.freed])
  BY <1>1, HeapNull, HeapFields DEF IInv, HeapOk, HeapStrings
<1>2. kind = "inline" => InlineOk(Inline!Replaced(string, Inline!Empty))
  BY InlineEmpty, InlineReplaced DEF IInv
<1> QED  BY <1>1, <1>2, EitherKeeps DEF MoveOut

\* The step of Receive.
LEMMA ReceiveKeeps == ASSUME IInv, Receive, kind' = kind PROVE IInv'
<1> DEFINE Given(t) == IF string.sizeVal # Len(t) THEN Heap!resize(string, Len(t)) ELSE string
<1>1. kind = "heap" /\ HeapOk(string)  BY DEF Receive, IInv
<1>2. PICK t \in Texts : string' = [Given(t) EXCEPT !.dataVal = Written(@, 0, t)]  BY DEF Receive
<1>3. t \in Seq(Cell) /\ Len(t) \in Nat  BY TextsOfCells
<1>4. HeapOk(Given(t))  BY <1>1, <1>3, HeapResize
<1>5. PICK o \in Int : o = 0  OBVIOUS
<1>6. PICK s : s = Given(t)  OBVIOUS
<1> HIDE DEF Given
<1>7. PICK r : r = [s EXCEPT !.dataVal = Written(s.dataVal, o, t)]  OBVIOUS
<1>8. string' = r  BY <1>2, <1>5, <1>6, <1>7
<1>9. HeapOk(r)  BY <1>3, <1>4, <1>6, <1>7, HeapWritten
<1> QED  BY <1>1, <1>8, <1>9 DEF IInv

\* Every step keeps the invariant: one lemma for each operation.
LEMMA NextKeeps == ASSUME IInv, [Next]_vars PROVE IInv'
<1>1. CASE UNCHANGED vars  BY <1>1 DEF vars, IInv
<1>2. CASE Next
  <2>1. kind' = kind  BY <1>2 DEF Next
  <2>2. CASE Assign
    <3>1. PICK t \in Texts : Assigned(t)  BY <2>2 DEF Assign
    <3> QED  BY <2>1, <3>1, TextsOfCells, AssignedKeeps
  <2> QED
    BY <1>2, <2>1, <2>2, AppendAllKeeps, PrependKeeps, PushKeeps, InsertKeeps, InsertOneKeeps,
       EraseKeeps, SubstrKeeps, ResizeKeeps, ReserveKeeps, ClearKeeps, RenewKeeps, MoveOutKeeps,
       ReceiveKeeps DEF Next
<1> QED  BY <1>1, <1>2

\* What the invariant says of the cells is Fits and TypeOK.
LEMMA InvariantFits == ASSUME IInv PROVE Fits /\ TypeOK
<1>1. CASE kind = "heap"
  <2>1. HeapOk(string)  BY <1>1 DEF IInv
  <2>2. Len(string.dataVal) = 0 => string.dataVal = <<>>  BY <2>1, HeapFields
  <2> QED  BY <1>1, <2>1, <2>2, HeapFields DEF Fits, TypeOK, HeapOk, Cell
<1>2. CASE kind = "inline"
  BY <1>2, InlineFields DEF IInv, Fits, TypeOK, Cell
<1> QED  BY <1>1, <1>2 DEF IInv

\* Every state of a behaviour satisfies the invariant.
LEMMA InvariantAlways == Spec => []IInv
<1>1. Init => IInv  BY HeapNew, InlineNew DEF Init, IInv
<1>2. IInv /\ [Next]_vars => IInv'  BY NextKeeps
<1> QED  BY <1>1, <1>2, PTL DEF Spec

\* The characters and the terminator of a string lie in the cells it owns after any
\* sequence of its operations, for every text, size, capacity and limit.
THEOREM FitsAlways == Spec => [](Fits /\ TypeOK)
BY InvariantAlways, InvariantFits, PTL

-------------------------------------------------------------------------------
\* Division of a natural number.
LEMMA Division ==
  ASSUME NEW a \in Nat, NEW b \in Nat \ {0}
  PROVE  a = b * (a \div b) + (a % b) /\ a \div b \in Nat /\ a % b \in 0..(b - 1)
OBVIOUS

\* A quotient is the only one with a remainder below the divisor.
LEMMA Quotient ==
  ASSUME NEW q \in Nat, NEW b \in Nat \ {0}, NEW r \in 0..(b - 1)
  PROVE  (b * q + r) \div b = q /\ (b * q + r) % b = r
OBVIOUS

\* A number as a multiple and a remainder.
LEMMA Divided ==
  ASSUME NEW n \in Nat, NEW b \in Nat \ {0}
  PROVE  \E q \in Nat, r \in 0..(b - 1) : n = b * q + r /\ r = n % b
<1>1. PICK q : q = n \div b  OBVIOUS
<1>2. PICK r : r = n % b  OBVIOUS
<1> QED  BY <1>1, <1>2, Division

\* A number without remainder is a multiple.
LEMMA Multiple ==
  ASSUME NEW n \in Nat \ {0}, NEW b \in Nat \ {0}, NEW r, r = n % b, r = 0
  PROVE  \E q \in Nat \ {0} : n = b * q
<1>1. PICK q : q = n \div b  OBVIOUS
<1>2. n = b * q + r /\ q \in Nat  BY <1>1, Division
<1>3. n = b * q /\ q \in Nat \ {0}
  <2>1. ASSUME q = 0 PROVE FALSE  BY <1>2, <2>1
  <2> QED  BY <1>2, <2>1
<1> QED  BY <1>3, Zenon

\* RoundUp rounds to the next multiple, ...
LEMMA RoundedUp ==
  ASSUME NEW b \in Nat \ {0}, NEW q \in Nat, NEW r \in 1..b, NEW n, n = b * q + r
  PROVE  RoundUp(n, b) = b * (q + 1)
<1>1. PICK p \in Nat : p = q + 1  OBVIOUS
<1>2. PICK k \in 0..(b - 1) : k = r - 1  OBVIOUS
<1>3. n + b - 1 = b * p + k  BY <1>1, <1>2
<1>4. (b * p + k) \div b = p  BY Quotient
<1>5. (n + b - 1) \div b = p  BY <1>3, <1>4
<1>6. p * b = b * (q + 1) BY <1>1
<1> QED  BY <1>5, <1>6 DEF RoundUp

\* ... and a multiple is rounded to itself, the number behind it to the next.
LEMMA RoundedApart ==
  ASSUME NEW b \in Nat \ {0}, NEW q \in Nat, NEW n, n = b * q
  PROVE  RoundUp(n, b) = n /\ RoundUp(n + 1, b) = n + b
<1>1. PICK o \in 1..b : o = 1  OBVIOUS
<1>2. PICK m : m = n + 1  OBVIOUS
<1>3. m = b * q + o  BY <1>1, <1>2
<1>4. RoundUp(m, b) = b * (q + 1)  BY <1>3, RoundedUp
<1>5. PICK k \in 0..(b - 1) : k = b - 1  OBVIOUS
<1>6. (b * q + k) \div b = q  BY Quotient
<1>7. n + b - 1 = b * q + k  BY <1>5
<1>8. RoundUp(n, b) = q * b  BY <1>6, <1>7 DEF RoundUp
<1> QED  BY <1>2, <1>4, <1>8

\* A multiple of a, when a divides b, is at least a below the next multiple of b.
LEMMA MultiplesApart ==
  ASSUME NEW a \in Nat \ {0}, NEW k \in Nat \ {0}, NEW b \in Nat \ {0}, b = a * k,
         NEW m \in Nat, NEW q \in Nat, NEW r \in 1..(b - 1), a * m = b * q + r
  PROVE  r + a <= b
<1>1. PICK s \in Int : s = m - k * q  OBVIOUS
<1>2. r = a * s
  <2>1. a * (m - k * q) = a * m - (a * k) * q  OBVIOUS
  <2> QED  BY <1>1, <2>1
<1>3. s < k
  <2>1. ASSUME s >= k PROVE a * s >= a * k  BY <2>1
  <2> QED  BY <2>1, <1>2
<1>4. a * (s + 1) <= a * k  BY <1>3
<1>5. a * (s + 1) = r + a  BY <1>2
<1> QED  BY <1>4, <1>5

\* One cell fewer is the same to the allocator but at a boundary (allocator.hpp).
LEMMA PagesAlike == \A n \in Nat : Pages(n) = Pages(n + 1) \/ AtBoundary(n)
<1> SUFFICES ASSUME NEW n \in Nat, ~AtBoundary(n) PROVE Pages(n) = Pages(n + 1)
  OBVIOUS
<1>1. PICK a \in Nat \ {0}, h \in Nat \ {0}, t \in Nat \ {0} :
        a = Alignment /\ h = HugePageSize /\ t = HugePageThreshold
  BY AllocatorAssumption
<1>2. PICK k \in Nat \ {0} : h = a * k
  <2>1. PICK r : r = h % a /\ r = 0  BY <1>1, AllocatorAssumption
  <2> QED  BY <2>1, Multiple
<1>3. PICK l \in Nat \ {0} : t = h * l
  <2>1. PICK r : r = t % h /\ r = 0  BY <1>1, AllocatorAssumption
  <2> QED  BY <2>1, Multiple
<1>4. PICK m \in Nat : m = k * l  OBVIOUS
<1>5. t = a * m
  <2>1. (a * k) * l = a * (k * l)  OBVIOUS
  <2> QED  BY <2>1, <1>2, <1>3, <1>4
<1>6. PICK q \in Nat, r \in 0..(a - 1) : n = a * q + r /\ r = n % a  BY Divided
<1>7. n = a * q + r  BY <1>6
<1>8. CASE r # 0
  <2>1. PICK e \in 1..a : e = r + 1  BY <1>8
  <2>2. PICK d : d = n + 1  OBVIOUS
  <2>3. d = a * q + e  BY <1>7, <2>1, <2>2
  <2>4. r \in 1..a  BY <1>8
  <2>5. RoundUp(n, a) = a * (q + 1)  BY <1>7, <2>4, RoundedUp
  <2>6. RoundUp(d, a) = a * (q + 1)  BY <2>3, RoundedUp
  <2> QED  BY <1>1, <2>2, <2>5, <2>6 DEF Pages
<1>9. CASE r = 0
  <2>1. n = a * q  BY <1>7, <1>9
  <2>2. RoundUp(n, a) = n /\ RoundUp(n + 1, a) = n + a  BY <2>1, RoundedApart
  <2>3. CASE n + a < t
    BY <1>1, <2>2, <2>3 DEF Pages
  <2>4. CASE ~(n + a < t) /\ n < t
    <3>1. q < m
      <4>1. ASSUME q >= m PROVE a * q >= a * m  BY <4>1
      <4> QED  BY <4>1, <2>1, <2>4, <1>5
    <3>2. a * (q + 1) <= a * m  BY <3>1
    <3>3. a * (q + 1) = a * q + a  OBVIOUS
    <3>4. n + a <= t  BY <2>1, <1>5, <3>2, <3>3
    <3> QED  BY <1>1, <2>4, <3>4 DEF AtBoundary
  <2>5. CASE n >= t
    <3>1. PICK p \in Nat, e \in 0..(h - 1) : n = h * p + e /\ e = n % h  BY Divided
    <3>2. e \in 1..(h - 1)  BY <1>1, <2>5, <3>1 DEF AtBoundary
    <3>3. a * q = h * p + e  BY <2>1, <3>1
    <3>4. e + a <= h  BY <1>2, <3>2, <3>3, MultiplesApart
    <3>5. e \in 1..h  BY <3>2
    <3>6. n = h * p + e  BY <3>1
    <3>7. PICK f \in 1..h : f = e + a  BY <3>2, <3>4
    <3>8. PICK d : d = n + a  OBVIOUS
    <3>9. d = h * p + f  BY <3>6, <3>7, <3>8
    <3>10. RoundUp(n, h) = h * (p + 1)  BY <3>5, <3>6, RoundedUp
    <3>11. RoundUp(d, h) = h * (p + 1)  BY <3>9, RoundedUp
    <3> QED  BY <1>1, <2>2, <2>5, <3>8, <3>10, <3>11 DEF Pages
  <2> QED  BY <2>3, <2>4, <2>5
<1> QED  BY <1>8, <1>9

\* What a string gives back is to the allocator what it was given, but at a boundary, after
\* any sequence of operations and for every alignment, threshold and size of huge pages.
THEOREM FreedAlways == Spec => []FreedAsAllocated
<1>1. IInv => FreedAsAllocated
  <2>1. SUFFICES ASSUME kind = "heap", HeapOk(string) PROVE FreedAsAllocated
    BY DEF FreedAsAllocated, IInv
  <2>2. PICK m \in Nat, n \in Nat :
          /\ m = string.freed.allocated /\ n = string.freed.released /\ n \in {m, m - 1}
    BY <2>1, HeapFields DEF Freed
  <2>3. CASE n = m  BY <2>2, <2>3 DEF FreedAsAllocated
  <2>4. CASE n = m - 1
    <3>1. n + 1 = m  BY <2>4
    <3>2. Pages(n) = Pages(m) \/ AtBoundary(n)  BY <3>1, PagesAlike
    <3> QED  BY <2>2, <2>4, <3>2 DEF FreedAsAllocated
  <2> QED  BY <2>2, <2>3, <2>4
<1> QED  BY <1>1, InvariantAlways, PTL

-------------------------------------------------------------------------------
\* What lemmas on the content need of an object of either kind.
Held(s) ==
  /\ {"dataVal", "sizeVal"} \subseteq DOMAIN s
  /\ s.dataVal \in Seq(Cell) /\ s.sizeVal \in Nat /\ s.sizeVal <= Len(s.dataVal)

\* Objects that keep the invariant are such objects, one with cells has one to spare.
LEMMA OkHeld ==
  ASSUME NEW s
  PROVE  /\ HeapOk(s) => Held(s) /\ (s.capacityVal > 0 => s.sizeVal < Len(s.dataVal))
         /\ InlineOk(s) => Held(s) /\ s.sizeVal < Len(s.dataVal)
<1>1. ASSUME HeapOk(s) PROVE Held(s) /\ (s.capacityVal > 0 => s.sizeVal < Len(s.dataVal))
  <2>1. {"dataVal", "sizeVal"} \subseteq DOMAIN s  BY <1>1 DEF HeapOk, HeapStrings
  <2> QED  BY <1>1, <2>1, HeapFields DEF Held
<1>2. ASSUME InlineOk(s) PROVE Held(s) /\ s.sizeVal < Len(s.dataVal)
  <2>1. {"dataVal", "sizeVal"} \subseteq DOMAIN s  BY <1>2 DEF InlineOk, InlineStrings
  <2> QED  BY <1>2, <2>1, InlineFields DEF Held
<1> QED  BY <1>1, <1>2

\* The first cells hold v.
Begins(cells, v) == Len(v) <= Len(cells) /\ \A k \in 1..Len(v) : cells[k] = v[k]

\* A cell is written to or is what it was.
LEMMA WrittenAt ==
  ASSUME NEW cells \in Seq(Cell), NEW o \in Int, NEW t \in Seq(Cell),
         NEW k \in 1..Len(cells), NEW j \in Int, k = o + j
  PROVE  /\ j \in 1..Len(t) => Written(cells, o, t)[k] = t[j]
         /\ j \notin 1..Len(t) => Written(cells, o, t)[k] = cells[k]
BY DEF Written

\* What a cell holds once t is written from o on, if it is the j-th behind that.
CellIs(new, cells, t, k, j) ==
  /\ j \in 1..Len(t) => new[k] = t[j]
  /\ j \notin 1..Len(t) => new[k] = cells[k]

\* A write makes it so.
LEMMA WrittenCell ==
  ASSUME NEW cells \in Seq(Cell), NEW o \in Int, NEW t \in Seq(Cell),
         NEW k \in 1..Len(cells), NEW j \in Int, k = o + j,
         NEW new, new = Written(cells, o, t)
  PROVE  CellIs(new, cells, t, k, j)
<1>1. j \in 1..Len(t) => Written(cells, o, t)[k] = t[j]  BY WrittenAt
<1>2. j \notin 1..Len(t) => Written(cells, o, t)[k] = cells[k]  BY WrittenAt
<1> QED  BY <1>1, <1>2 DEF CellIs

\* Sequences of the same elements are the same.
LEMMA SameElements ==
  ASSUME NEW v \in Seq(Cell), NEW w \in Seq(Cell), Len(v) = Len(w), Begins(v, w)
  PROVE  v = w
BY DEF Begins

\* The elements of a concatenation.
LEMMA ConcatAt ==
  ASSUME NEW v \in Seq(Cell), NEW t \in Seq(Cell)
  PROVE  /\ v \o t \in Seq(Cell) /\ Len(v \o t) = Len(v) + Len(t)
         /\ \A k \in 1..Len(v) : (v \o t)[k] = v[k]
         /\ \A k \in 1..(Len(v) + Len(t)), j \in 1..Len(t) : k = Len(v) + j => (v \o t)[k] = t[j]
BY ConcatProperties

\* Nothing is at the beginning of all cells.
LEMMA BeginsEmpty == ASSUME NEW cells \in Seq(Cell) PROVE Begins(cells, <<>>) /\ <<>> \in Seq(Cell) /\ Len(<<>>) = 0
BY DEF Begins

\* What is written behind the beginning does not change it.
LEMMA WrittenBehind ==
  ASSUME NEW cells \in Seq(Cell), NEW v \in Seq(Cell), Begins(cells, v),
         NEW o \in Nat, o >= Len(v), NEW t \in Seq(Cell)
  PROVE  Begins(Written(cells, o, t), v)
<1>1. Len(Written(cells, o, t)) = Len(cells) /\ Len(v) <= Len(cells)  BY WrittenCells DEF Begins
<1>2. ASSUME NEW k \in 1..Len(v) PROVE Written(cells, o, t)[k] = v[k]
  <2>1. PICK j \in Int : k = o + j  OBVIOUS
  <2>2. k \in 1..Len(cells) /\ j \notin 1..Len(t)  BY <1>1, <2>1
  <2>3. Written(cells, o, t)[k] = cells[k]  BY <2>1, <2>2, WrittenAt
  <2> QED  BY <2>3 DEF Begins
<1> QED  BY <1>1, <1>2 DEF Begins

\* What is written at its end extends it.
LEMMA WrittenJoined ==
  ASSUME NEW cells \in Seq(Cell), NEW v \in Seq(Cell), Begins(cells, v),
         NEW o \in Nat, o = Len(v), NEW t \in Seq(Cell), o + Len(t) <= Len(cells)
  PROVE  Begins(Written(cells, o, t), v \o t)
<1>1. Len(Written(cells, o, t)) = Len(cells)  BY WrittenCells
<1>2. PICK w \in Seq(Cell) : w = v \o t  BY ConcatAt
<1>3. Len(w) = o + Len(t)  BY <1>2, ConcatAt
<1>4. ASSUME NEW k \in 1..(o + Len(t)) PROVE Written(cells, o, t)[k] = w[k]
  <2>1. PICK j \in Int : k = o + j
    <3>1. k - o \in Int /\ k = o + (k - o)  OBVIOUS
    <3> QED  BY <3>1
  <2>2. k \in 1..Len(cells)  OBVIOUS
  <2>3. CASE k <= o
    <3>1. j \notin 1..Len(t) /\ k \in 1..Len(v)  BY <2>1, <2>3
    <3>2. Written(cells, o, t)[k] = cells[k]  BY <2>1, <2>2, <3>1, WrittenAt
    <3>3. w[k] = v[k]  BY <1>2, <3>1, ConcatAt
    <3> QED  BY <3>1, <3>2, <3>3 DEF Begins
  <2>4. CASE ~(k <= o)
    <3>1. j \in 1..Len(t)  BY <2>1, <2>4
    <3>2. Written(cells, o, t)[k] = t[j]  BY <2>1, <2>2, <3>1, WrittenAt
    <3>3. k \in 1..(Len(v) + Len(t)) /\ k = Len(v) + j  BY <2>1
    <3>4. w[k] = t[j]  BY <1>2, <3>1, <3>3, ConcatAt
    <3> QED  BY <3>2, <3>4
  <2> QED  BY <2>3, <2>4
<1> QED  BY <1>1, <1>2, <1>3, <1>4 DEF Begins

\* Writes to cells behind one another can be made in either order.
LEMMA WrittenApart ==
  ASSUME NEW cells \in Seq(Cell), NEW o \in Nat, NEW t \in Seq(Cell), NEW b \in Seq(Cell),
         NEW p \in Nat, p = o + Len(t)
  PROVE  Written(Written(cells, p, b), o, t) = Written(Written(cells, o, t), p, b)
<1>1. PICK d \in Seq(Cell) : d = Written(cells, p, b) /\ Len(d) = Len(cells)  BY WrittenCells
<1>2. PICK e \in Seq(Cell) : e = Written(cells, o, t) /\ Len(e) = Len(cells)  BY WrittenCells
<1>3. PICK x \in Seq(Cell) : x = Written(d, o, t) /\ Len(x) = Len(cells)  BY <1>1, WrittenCells
<1>4. PICK y \in Seq(Cell) : y = Written(e, p, b) /\ Len(y) = Len(cells)  BY <1>2, WrittenCells
<1>5. ASSUME NEW k \in 1..Len(cells) PROVE x[k] = y[k]
  <2>1. k \in Int  OBVIOUS
  <2>2. PICK i \in Int : k = o + i
    <3>1. k - o \in Int /\ k = o + (k - o)  BY <2>1
    <3> QED  BY <3>1
  <2>3. PICK j \in Int : k = p + j
    <3>1. k - p \in Int /\ k = p + (k - p)  BY <2>1
    <3> QED  BY <3>1
  <2>4. k = o + i /\ k = p + j  BY <2>2, <2>3
  <2>5. k \in 1..Len(d) /\ k \in 1..Len(e)  BY <1>1, <1>2
  <2>6. /\ CellIs(x, d, t, k, i) /\ CellIs(e, cells, t, k, i)
        /\ CellIs(y, e, b, k, j) /\ CellIs(d, cells, b, k, j)
    <3>1. CellIs(x, d, t, k, i)  BY <1>3, <2>2, <2>5, WrittenCell
    <3>2. CellIs(e, cells, t, k, i)  BY <1>2, <2>2, WrittenCell
    <3>3. CellIs(y, e, b, k, j)  BY <1>4, <2>3, <2>5, WrittenCell
    <3>4. CellIs(d, cells, b, k, j)  BY <1>1, <2>3, WrittenCell
    <3> QED  BY <3>1, <3>2, <3>3, <3>4
  <2>7. CASE i \in 1..Len(t)
    <3>1. j \notin 1..Len(b)
      <4>1. i <= Len(t)  BY <2>7
      <4>2. PICK l \in Nat : l = Len(t)  OBVIOUS
      <4>3. p = o + l  BY <4>2
      <4>4. i = j + l  BY <2>4, <2>1, <4>3
      <4>5. j <= 0  BY <4>1, <4>4, <4>2
      <4> QED  BY <4>5
    <3>2. x[k] = t[i]  BY <2>7, <2>6 DEF CellIs
    <3>3. y[k] = e[k]  BY <2>6, <3>1 DEF CellIs
    <3>4. e[k] = t[i]  BY <2>7, <2>6 DEF CellIs
    <3> QED  BY <3>2, <3>3, <3>4
  <2>8. CASE i \notin 1..Len(t)
    <3>1. x[k] = d[k]  BY <2>8, <2>6 DEF CellIs
    <3>2. e[k] = cells[k]  BY <2>8, <2>6 DEF CellIs
    <3>3. CASE j \in 1..Len(b)  BY <2>6, <3>1, <3>3 DEF CellIs
    <3>4. CASE j \notin 1..Len(b)  BY <2>6, <3>1, <3>2, <3>4 DEF CellIs
    <3> QED  BY <3>3, <3>4
  <2> QED  BY <2>7, <2>8
<1>6. Begins(x, y)  BY <1>3, <1>4, <1>5 DEF Begins
<1>7. x = y  BY <1>3, <1>4, <1>6, SameElements
<1> QED  BY <1>1, <1>2, <1>3, <1>4, <1>7

-------------------------------------------------------------------------------
\* The content is at the beginning of the cells.
LEMMA ContentAt ==
  ASSUME NEW s, Held(s)
  PROVE  Content(s) \in Seq(Cell) /\ Len(Content(s)) = s.sizeVal /\ Begins(s.dataVal, Content(s))
<1>1. PICK o \in Nat : o = 0  OBVIOUS
<1>2. Content(s) = Between(s.dataVal, o, s.sizeVal)  BY <1>1 DEF Content
<1>3. s.dataVal \in Seq(Cell) /\ s.sizeVal \in Nat /\ s.sizeVal <= Len(s.dataVal) /\ o <= s.sizeVal
  BY <1>1 DEF Held
<1>4. Content(s) \in Seq(Cell) /\ Len(Content(s)) = s.sizeVal - o
  BY <1>2, <1>3, BetweenCells
<1>5. ASSUME NEW k \in 1..s.sizeVal PROVE Content(s)[k] = s.dataVal[k]
  BY <1>1, <1>2, <1>3 DEF Between
<1> QED  BY <1>1, <1>3, <1>4, <1>5 DEF Begins

\* What the first cells hold is the content when it is as long.
LEMMA ContentIs ==
  ASSUME NEW s, Held(s), NEW v \in Seq(Cell), Len(v) = s.sizeVal, Begins(s.dataVal, v)
  PROVE  Content(s) = v
<1>1. PICK w \in Seq(Cell) : w = Content(s) /\ Len(w) = Len(v) /\ Begins(s.dataVal, w)  BY ContentAt
<1>2. Begins(w, v)  BY <1>1 DEF Begins
<1> QED  BY <1>1, <1>2, SameElements

\* Terminated leaves the content, and the terminator behind it when there is a cell.
LEMMA TerminatedIs ==
  ASSUME NEW s, Held(s)
  PROVE  LET r == Terminated(s)
         IN  /\ Held(r) /\ r.sizeVal = s.sizeVal /\ Content(r) = Content(s)
             /\ s.sizeVal < Len(s.dataVal) => IsTerminated(r)
<1>1. s.dataVal \in Seq(Cell) /\ s.sizeVal \in Nat /\ s.sizeVal <= Len(s.dataVal)
      /\ {"dataVal", "sizeVal"} \subseteq DOMAIN s
  BY DEF Held
<1>2. PICK t \in Seq(Cell) : t = <<NUL>>  BY NULCell
<1>3. PICK d \in Seq(Cell) : d = Written(s.dataVal, s.sizeVal, t) /\ Len(d) = Len(s.dataVal)
  BY <1>1, WrittenCells
<1>4. PICK r : r = [s EXCEPT !.dataVal = d]  OBVIOUS
<1>5. Terminated(s) = r  BY <1>2, <1>3, <1>4 DEF Terminated
<1>6. Held(r) /\ r.sizeVal = s.sizeVal /\ r.dataVal = d  BY <1>1, <1>3, <1>4 DEF Held
<1>7. PICK v \in Seq(Cell) : v = Content(s) /\ Len(v) = s.sizeVal /\ Begins(s.dataVal, v)  BY ContentAt
<1>8. Begins(d, v)
  <2>1. PICK c \in Seq(Cell), o \in Nat : c = s.dataVal /\ o = s.sizeVal  BY <1>1
  <2>2. Begins(c, v) /\ o >= Len(v)  BY <1>7, <2>1
  <2>3. d = Written(c, o, t)  BY <1>3, <2>1
  <2> QED  BY <2>2, <2>3, WrittenBehind
<1>9. Content(r) = v  BY <1>6, <1>7, <1>8, ContentIs
<1>10. ASSUME s.sizeVal < Len(s.dataVal) PROVE IsTerminated(r)
  <2>1. PICK k \in 1..Len(s.dataVal) : k = s.sizeVal + 1  BY <1>1, <1>10
  <2>2. PICK j \in Int : k = s.sizeVal + j /\ j = 1  BY <1>1, <2>1
  <2>3. j \in 1..Len(t) /\ t[j] = NUL  BY <1>2, <2>2
  <2>4. d[k] = t[j]  BY <1>1, <1>3, <2>2, <2>3, WrittenAt
  <2> QED  BY <1>6, <2>1, <2>3, <2>4 DEF IsTerminated
<1> QED  BY <1>5, <1>6, <1>7, <1>9, <1>10

\* A length within the cells: the content is what they begin with.
LEMMA SizedIs ==
  ASSUME NEW s, Held(s), NEW n \in Nat, n < Len(s.dataVal),
         NEW v \in Seq(Cell), Len(v) = n, Begins(s.dataVal, v)
  PROVE  LET r == Sized(s, n)
         IN  Held(r) /\ r.sizeVal = n /\ IsTerminated(r) /\ Content(r) = v
<1>1. PICK q : q = [s EXCEPT !.sizeVal = n]  OBVIOUS
<1>2. Held(q) /\ q.sizeVal = n /\ q.dataVal = s.dataVal  BY <1>1 DEF Held
<1>3. Content(q) = v  BY <1>2, ContentIs
<1>4. Sized(s, n) = Terminated(q)  BY <1>1 DEF Sized
<1> QED  BY <1>2, <1>3, <1>4, TerminatedIs

\* Extended by t behind v: the content is both.
LEMMA ExtendedIs ==
  ASSUME NEW s, Held(s), NEW v \in Seq(Cell), Begins(s.dataVal, v), NEW n, n = Len(v),
         NEW t \in Seq(Cell), n + Len(t) < Len(s.dataVal)
  PROVE  LET r == Extended(s, n, t)
         IN  Held(r) /\ r.sizeVal = n + Len(t) /\ IsTerminated(r) /\ Content(r) = v \o t
<1>1. s.dataVal \in Seq(Cell) /\ s.sizeVal \in Nat /\ {"dataVal", "sizeVal"} \subseteq DOMAIN s
      /\ s.sizeVal <= Len(s.dataVal) /\ n \in Nat
  BY DEF Held
<1>2. PICK d \in Seq(Cell) : d = Written(s.dataVal, n, t) /\ Len(d) = Len(s.dataVal)
  BY <1>1, WrittenCells
<1>3. PICK q : q = [s EXCEPT !.dataVal = d]  OBVIOUS
<1>4. q.dataVal = d /\ Held(q)  BY <1>1, <1>2, <1>3 DEF Held
<1>5. PICK m \in Nat : m = n + Len(t)  BY <1>1
<1>6. PICK w \in Seq(Cell) : w = v \o t /\ Len(w) = m  BY <1>5, ConcatAt
<1>7. Begins(d, w)  BY <1>1, <1>2, <1>5, <1>6, WrittenJoined
<1>8. Extended(s, n, t) = Sized(q, m)  BY <1>2, <1>3, <1>5 DEF Extended
<1>9. m < Len(q.dataVal)  BY <1>2, <1>4, <1>5
<1>10. PICK r : r = Sized(q, m)  OBVIOUS
<1>11. Held(r) /\ r.sizeVal = m /\ IsTerminated(r) /\ Content(r) = w
  BY <1>4, <1>6, <1>7, <1>9, <1>10, SizedIs
<1> QED  BY <1>5, <1>6, <1>8, <1>10, <1>11

\* What an object is made.
Became(r, n, w) == Held(r) /\ r.sizeVal = n /\ IsTerminated(r) /\ Content(r) = w

\* The same with a name for all that it is about.
LEMMA ExtendedBecame ==
  ASSUME NEW s, Held(s), NEW v \in Seq(Cell), Begins(s.dataVal, v), NEW n, n = Len(v),
         NEW t \in Seq(Cell), n + Len(t) < Len(s.dataVal),
         NEW r, r = Extended(s, n, t), NEW m, m = n + Len(t), NEW w, w = v \o t
  PROVE  Became(r, m, w)
<1>1. LET e == Extended(s, n, t)
      IN  Held(e) /\ e.sizeVal = n + Len(t) /\ IsTerminated(e) /\ Content(e) = v \o t
  BY ExtendedIs
<1> QED  BY <1>1 DEF Became

\* Appended to the content, ...
LEMMA ExtendedAll ==
  ASSUME NEW s, Held(s), NEW t \in Seq(Cell), s.sizeVal + Len(t) < Len(s.dataVal)
  PROVE  LET r == Extended(s, s.sizeVal, t)
         IN  /\ Held(r) /\ r.sizeVal = s.sizeVal + Len(t) /\ IsTerminated(r)
             /\ Content(r) = Content(s) \o t
<1>1. PICK v \in Seq(Cell) : v = Content(s) /\ Len(v) = s.sizeVal /\ Begins(s.dataVal, v)  BY ContentAt
<1>2. PICK n : n = s.sizeVal /\ n = Len(v)  BY <1>1
<1>3. n + Len(t) < Len(s.dataVal)  BY <1>2
<1>4. PICK r, m, w : r = Extended(s, n, t) /\ m = n + Len(t) /\ w = v \o t  OBVIOUS
<1>5. Became(r, m, w)  BY <1>1, <1>2, <1>3, <1>4, ExtendedBecame
<1> QED  BY <1>1, <1>2, <1>4, <1>5 DEF Became

\* ... and in its place.
LEMMA ExtendedFirst ==
  ASSUME NEW s, Held(s), NEW o \in Nat, o = 0, NEW t \in Seq(Cell), Len(t) < Len(s.dataVal)
  PROVE  LET r == Extended(s, o, t)
         IN  Held(r) /\ r.sizeVal = Len(t) /\ IsTerminated(r) /\ Content(r) = t
<1>1. PICK v \in Seq(Cell) : v = <<>> /\ o = Len(v) /\ Begins(s.dataVal, v)  BY BeginsEmpty DEF Held
<1>2. v \o t = t  BY <1>1, ConcatEmptySeq
<1>3. o + Len(t) = Len(t)  OBVIOUS
<1>4. o + Len(t) < Len(s.dataVal)  BY <1>3
<1>5. PICK r, m, w : r = Extended(s, o, t) /\ m = o + Len(t) /\ w = v \o t  OBVIOUS
<1>6. o = Len(v) /\ Begins(s.dataVal, v)  BY <1>1
<1>7. Became(r, m, w)  BY <1>4, <1>5, <1>6, ExtendedBecame
<1> QED  BY <1>2, <1>3, <1>5, <1>7 DEF Became

\* The first n elements and those behind them.
Front(v, n) == SubSeq(v, 1, n)
Back(v, n)  == SubSeq(v, n + 1, Len(v))

\* What they are sequences of and how long.
LEMMA FrontBack ==
  ASSUME NEW v \in Seq(Cell), NEW l \in Nat, l = Len(v), NEW n \in Nat, n <= l
  PROVE  /\ Front(v, n) \in Seq(Cell) /\ Len(Front(v, n)) = n
         /\ Back(v, n) \in Seq(Cell) /\ Len(Back(v, n)) = l - n
<1>1. PICK o \in Nat : o = 0  OBVIOUS
<1>2. o + 1 = 1 /\ o <= n /\ n - o = n /\ l <= Len(v)  BY <1>1
<1>3. Front(v, n) = Between(v, o, n)  BY <1>2 DEF Front, Between
<1>4. Back(v, n) = Between(v, n, l)  BY DEF Back, Between
<1>5. Between(v, o, n) \in Seq(Cell) /\ Len(Between(v, o, n)) = n - o  BY <1>2, BetweenCells
<1>6. Between(v, n, l) \in Seq(Cell) /\ Len(Between(v, n, l)) = l - n  BY <1>2, BetweenCells
<1> QED  BY <1>2, <1>3, <1>4, <1>5, <1>6

\* The cells that Between takes.
LEMMA BetweenAt ==
  ASSUME NEW cells \in Seq(Cell), NEW i \in Nat, NEW j \in Nat, i <= j, j <= Len(cells),
         NEW k \in 1..(j - i), NEW m \in 1..Len(cells), m = i + k
  PROVE  Between(cells, i, j)[k] = cells[m]
BY DEF Between

\* Cells that begin alike have the same between two places, ...
LEMMA BetweenAlike ==
  ASSUME NEW d \in Seq(Cell), NEW v \in Seq(Cell), Begins(d, v), NEW l \in Nat, l <= Len(v),
         NEW n \in Nat, n <= l
  PROVE  Between(d, n, l) = Between(v, n, l)
<1>1. l <= Len(d) /\ Len(d) \in Nat
  <2>1. Len(v) <= Len(d) /\ Len(v) \in Nat /\ Len(d) \in Nat  BY DEF Begins
  <2> QED  BY <2>1
<1>2. PICK m \in Nat : m = l - n
  <2>1. l - n \in Nat  OBVIOUS
  <2> QED  BY <2>1
<1>3. PICK b \in Seq(Cell) : b = Between(d, n, l) /\ Len(b) = m  BY <1>1, <1>2, BetweenCells
<1>4. PICK c \in Seq(Cell) : c = Between(v, n, l) /\ Len(c) = m  BY <1>1, <1>2, BetweenCells
<1>5. ASSUME NEW k \in 1..m PROVE b[k] = c[k]
  <2>1. PICK j \in 1..l : j = n + k  BY <1>2
  <2>2. k \in 1..(l - n) /\ j \in 1..Len(d) /\ j \in 1..Len(v)  BY <1>1, <1>2, <2>1
  <2>3. b[k] = d[j]  BY <1>1, <1>3, <2>1, <2>2, BetweenAt
  <2>4. c[k] = v[j]  BY <1>1, <1>4, <2>1, <2>2, BetweenAt
  <2>5. d[j] = v[j]  BY <2>2 DEF Begins
  <2> QED  BY <2>3, <2>4, <2>5
<1>6. Len(b) = Len(c)  BY <1>3, <1>4
<1>7. Begins(b, c)  BY <1>3, <1>4, <1>5 DEF Begins
<1>8. b = c  BY <1>6, <1>7, SameElements
<1> QED  BY <1>3, <1>4, <1>8

\* ... and behind one.
LEMMA BetweenIsBack ==
  ASSUME NEW d \in Seq(Cell), NEW v \in Seq(Cell), Begins(d, v), NEW l \in Nat, l = Len(v),
         NEW n \in Nat, n <= l
  PROVE  Between(d, n, l) = Back(v, n)
<1>1. l <= Len(v)  OBVIOUS
<1>2. Between(d, n, l) = Between(v, n, l)  BY <1>1, BetweenAlike
<1> QED  BY <1>2 DEF Back, Between

\* Together they are all.
LEMMA FrontJoinsBack ==
  ASSUME NEW v \in Seq(Cell), NEW l \in Nat, l = Len(v), NEW n \in Nat, n <= l, NEW t, t = <<>>
  PROVE  Front(v, n) \o t \o Back(v, n) = v
<1>1. PICK f \in Seq(Cell) : f = Front(v, n) /\ Len(f) = n  BY FrontBack
<1>2. PICK b \in Seq(Cell) : b = Back(v, n) /\ Len(b) = l - n  BY FrontBack
<1>3. f \o t = f  BY ConcatEmptySeq
<1>4. PICK w \in Seq(Cell) : w = f \o b /\ Len(w) = Len(f) + Len(b)  BY ConcatAt
<1>5. Len(w) = l /\ Len(w) = Len(v)  BY <1>1, <1>2, <1>4
<1>6. ASSUME NEW k \in 1..l PROVE w[k] = v[k]
  <2>1. CASE k <= n
    <3>1. k \in 1..Len(f)  BY <1>1, <2>1
    <3>2. w[k] = f[k]  BY <1>4, <3>1, ConcatAt
    <3> QED  BY <1>1, <2>1, <3>2 DEF Front
  <2>2. CASE ~(k <= n)
    <3>1. PICK j \in 1..(l - n) : k = n + j
      <4>1. k - n \in 1..(l - n) /\ k = n + (k - n)  BY <2>2
      <4> QED  BY <4>1
    <3>2. k \in 1..(Len(f) + Len(b)) /\ j \in 1..Len(b) /\ k = Len(f) + j  BY <1>1, <1>2, <3>1
    <3>3. w[k] = b[j]  BY <1>4, <3>2, ConcatAt
    <3>4. b[j] = v[k]  BY <1>2, <3>1 DEF Back
    <3> QED  BY <3>3, <3>4
  <2> QED  BY <2>1, <2>2
<1>7. Begins(w, v)  BY <1>5, <1>6 DEF Begins
<1> QED  BY <1>1, <1>2, <1>3, <1>4, <1>5, <1>7, SameElements

\* Cells begin with the front of what they begin with, ...
LEMMA BeginsFront ==
  ASSUME NEW cells \in Seq(Cell), NEW v \in Seq(Cell), Begins(cells, v),
         NEW l \in Nat, l = Len(v), NEW n \in Nat, n <= l
  PROVE  Begins(cells, Front(v, n))
<1>1. Len(Front(v, n)) = n  BY FrontBack
<1>2. Len(v) <= Len(cells) /\ Len(v) \in Nat /\ Len(cells) \in Nat  BY DEF Begins
<1>3. Len(Front(v, n)) = n /\ n <= Len(cells)  BY <1>1, <1>2
<1>4. \A k \in 1..n : Front(v, n)[k] = v[k] /\ k \in 1..l  BY DEF Front
<1> QED  BY <1>3, <1>4 DEF Begins

\* ... and with what is written at the first of them.
LEMMA WrittenFirst ==
  ASSUME NEW cells \in Seq(Cell), NEW o \in Nat, o = 0, NEW t \in Seq(Cell), Len(t) <= Len(cells)
  PROVE  Begins(Written(cells, o, t), t)
<1>1. PICK v \in Seq(Cell) : v = <<>> /\ o = Len(v) /\ Begins(cells, v)  BY BeginsEmpty
<1>2. v \o t = t  BY <1>1, ConcatEmptySeq
<1>3. o + Len(t) <= Len(cells)  OBVIOUS
<1>4. o = Len(v) /\ Begins(cells, v)  BY <1>1
<1> QED  BY <1>2, <1>3, <1>4, WrittenJoined

\* insert moves what is behind a position up and writes the text before it.
LEMMA SpreadIs ==
  ASSUME NEW s, Held(s), NEW n \in Nat, n <= s.sizeVal, NEW t \in Seq(Cell),
         s.sizeVal + Len(t) <= Len(s.dataVal)
  PROVE  LET r == Spread(s, n, t)
         IN  /\ Held(r) /\ r.sizeVal = s.sizeVal + Len(t) /\ Len(r.dataVal) = Len(s.dataVal)
             /\ Content(r) = Front(Content(s), n) \o t \o Back(Content(s), n)
<1>1. s.dataVal \in Seq(Cell) /\ s.sizeVal \in Nat /\ {"dataVal", "sizeVal"} \subseteq DOMAIN s
      /\ s.sizeVal <= Len(s.dataVal) /\ Len(t) \in Nat
  BY DEF Held
<1>2. PICK l \in Nat : l = s.sizeVal /\ n <= l  BY <1>1
<1>3. PICK v \in Seq(Cell) : v = Content(s) /\ l = Len(v) /\ Begins(s.dataVal, v)  BY <1>2, ContentAt
<1>4. PICK f \in Seq(Cell) : f = Front(v, n) /\ Len(f) = n  BY <1>2, <1>3, FrontBack
<1>5. PICK b \in Seq(Cell) : b = Back(v, n) /\ Len(b) = l - n  BY <1>3, <1>2, FrontBack
<1>6. PICK c \in Seq(Cell) : c = s.dataVal  BY <1>1
<1>7. Begins(c, v) /\ l = Len(v) /\ n <= l  BY <1>3, <1>2, <1>6
<1>8. Between(c, n, l) = Back(v, n)  BY <1>7, BetweenIsBack
<1>9. Between(s.dataVal, n, s.sizeVal) = b  BY <1>2, <1>5, <1>6, <1>8
<1>10. PICK p \in Nat : p = n + Len(t)  BY <1>1
<1>11. PICK d \in Seq(Cell) : d = Written(s.dataVal, n, t) /\ Len(d) = Len(s.dataVal)  BY <1>1, WrittenCells
<1>12. PICK e \in Seq(Cell) : e = Written(d, p, b) /\ Len(e) = Len(s.dataVal)  BY <1>11, WrittenCells
<1>13. e = Written(Written(s.dataVal, p, b), n, t)  BY <1>1, <1>10, <1>11, <1>12, WrittenApart
<1>14. f \o t \in Seq(Cell) /\ Len(f \o t) = Len(f) + Len(t)  BY ConcatAt
<1>15. PICK g \in Seq(Cell) : g = f \o t /\ Len(g) = p  BY <1>4, <1>10, <1>14
<1>16. PICK w \in Seq(Cell) : w = g \o b /\ Len(w) = p + Len(b)  BY <1>15, ConcatAt
<1>17. Begins(d, g)
  <2>1. Begins(s.dataVal, f)  BY <1>1, <1>3, <1>2, <1>4, BeginsFront
  <2>2. n + Len(t) <= Len(s.dataVal)  BY <1>1
  <2> QED  BY <1>1, <1>4, <1>11, <1>15, <2>1, <2>2, WrittenJoined
<1>18. p + Len(b) = s.sizeVal + Len(t)  BY <1>1, <1>2, <1>5, <1>10
<1>19. Begins(e, w)
  <2>1. p + Len(b) <= Len(d)  BY <1>11, <1>18
  <2> QED  BY <1>12, <1>15, <1>16, <1>17, <2>1, WrittenJoined
<1>20. PICK m \in Nat : m = s.sizeVal + Len(t)  BY <1>1
<1>21. PICK r : r = [s EXCEPT !.dataVal = e, !.sizeVal = m]  OBVIOUS
<1>22. r.dataVal = e /\ r.sizeVal = m /\ Held(r)  BY <1>1, <1>12, <1>20, <1>21 DEF Held
<1>23. Spread(s, n, t) = r  BY <1>1, <1>9, <1>10, <1>13, <1>20, <1>21 DEF Spread
<1>24. Content(r) = w  BY <1>16, <1>18, <1>19, <1>20, <1>22, ContentIs
<1> QED  BY <1>3, <1>4, <1>5, <1>12, <1>15, <1>16, <1>20, <1>22, <1>23, <1>24

\* Characters that go move those behind them to the first cells.
LEMMA EraseIs ==
  ASSUME NEW s, Held(s), s.sizeVal < Len(s.dataVal), NEW n \in Nat, n # 0,
         NEW k \in Nat, k = Lesser(n, s.sizeVal)
  PROVE  LET r == erase(s, n)
         IN  k <= s.sizeVal /\ Content(r) = Back(Content(s), k) /\ IsTerminated(r)
<1>1. s.dataVal \in Seq(Cell) /\ s.sizeVal \in Nat /\ {"dataVal", "sizeVal"} \subseteq DOMAIN s
      /\ s.sizeVal <= Len(s.dataVal)
  BY DEF Held
<1>2. k <= s.sizeVal  BY <1>1 DEF Lesser
<1>3. PICK l \in Nat : l = s.sizeVal /\ k <= l  BY <1>1, <1>2
<1>4. PICK v \in Seq(Cell) : v = Content(s) /\ l = Len(v) /\ Begins(s.dataVal, v)  BY <1>3, ContentAt
<1>5. PICK b \in Seq(Cell) : b = Back(v, k) /\ Len(b) = l - k  BY <1>3, <1>4, FrontBack
<1>6. b = Between(s.dataVal, k, s.sizeVal)  BY <1>1, <1>5, <1>3, <1>4, BetweenIsBack
<1>7. PICK o \in Nat : o = 0  OBVIOUS
<1>8. PICK d \in Seq(Cell) : d = Written(s.dataVal, o, b) /\ Len(d) = Len(s.dataVal)  BY <1>1, WrittenCells
<1>9. Begins(d, b)
  <2>1. Len(b) <= Len(s.dataVal)  BY <1>1, <1>2, <1>5, <1>3
  <2> QED  BY <1>1, <1>7, <1>8, <2>1, WrittenFirst
<1>10. PICK m \in Nat : m = s.sizeVal - k  BY <1>1, <1>2
<1>11. PICK q : q = [s EXCEPT !.dataVal = d, !.sizeVal = m]  OBVIOUS
<1>12. Held(q) /\ q.dataVal = d /\ q.sizeVal = m /\ m < Len(d)  BY <1>1, <1>2, <1>8, <1>10, <1>11 DEF Held
<1>13. Content(q) = b  BY <1>5, <1>9, <1>10, <1>12, <1>3, ContentIs
<1>14. erase(s, n) = Terminated(q)  BY <1>1, <1>6, <1>7, <1>8, <1>10, <1>11 DEF erase, Shifted
<1> QED  BY <1>2, <1>5, <1>12, <1>13, <1>14, <1>4, TerminatedIs

-------------------------------------------------------------------------------
\* What an operation made of s holds v, terminated if the length is another and not 0.
Gives(r, s, v) ==
  Content(r) = v /\ (r.sizeVal # s.sizeVal /\ r.sizeVal > 0 => IsTerminated(r))

\* An object without cells has none.
LEMMA HeapNullIs == Content(Heap!Null) = <<>>
<1>1. PICK s : s = Heap!Null  OBVIOUS
<1>2. Held(s) /\ s.sizeVal = 0 /\ s.dataVal \in Seq(Cell)
  <2>1. Held(s)  BY <1>1, HeapNull, OkHeld
  <2> QED  BY <1>1, <2>1 DEF Held, Heap!Null
<1>3. PICK v : v = <<>> /\ v \in Seq(Cell) /\ Len(v) = 0 /\ Begins(s.dataVal, v)
  BY <1>2, BeginsEmpty
<1> QED  BY <1>1, <1>2, <1>3, ContentIs

\* A new allocation has the same content.
LEMMA HeapReallocatedIs ==
  ASSUME NEW s, HeapOk(s), NEW c \in Nat, s.sizeVal <= c,
         NEW n \in {s.capacityVal, s.capacityVal + 1}
  PROVE  Content(Heap!Reallocated(s, c, n)) = Content(s)
<1>1. PICK r : r = Heap!Reallocated(s, c, n)  OBVIOUS
<1>2. HeapOk(r) /\ r.sizeVal = s.sizeVal  BY <1>1, HeapReallocated
<1>3. PICK m \in Nat : m = c + 1  OBVIOUS
<1>4. PICK raw \in Seq(Cell) : raw = Filled(Raw, m) /\ Len(raw) = m  BY RawCell, FilledCells
<1>5. PICK v \in Seq(Cell) : v = Content(s) /\ Len(v) = s.sizeVal  BY OkHeld, ContentAt
<1>6. PICK o \in Nat : o = 0  OBVIOUS
<1>7. Len(v) <= Len(raw)  BY <1>3, <1>4, <1>5
<1>8. Begins(Written(raw, o, v), v)  BY <1>6, <1>7, WrittenFirst
<1>9. r.dataVal = Written(raw, o, v)
  <2>1. PICK d : d = Written(raw, o, v)  OBVIOUS
  <2>2. d = Heap!Written(Heap!Filled(Raw, c + 1), 0, Heap!Content(s))
    <3>1. d = Written(Filled(Raw, c + 1), 0, Content(s))  BY <2>1, <1>3, <1>4, <1>5, <1>6
    <3> QED  BY <3>1, HeapCells
  <2>3. r = [s EXCEPT !.dataVal = d, !.capacityVal = c, !.freed = Heap!Released(s, n)]
    BY <1>1, <2>2 DEF Heap!Reallocated
  <2> QED  BY <2>1, <2>3 DEF HeapOk, HeapStrings
<1> QED  BY <1>1, <1>2, <1>5, <1>8, <1>9, OkHeld, ContentIs

\* reserve does not change the content, ...
LEMMA HeapReserveIs ==
  ASSUME NEW s, HeapOk(s), NEW c \in Nat
  PROVE  Content(Heap!reserve(s, c)) = Content(s)
<1>1. CASE c > s.capacityVal
  <2>1. s.sizeVal <= c  BY <1>1, HeapFields
  <2>2. PICK n \in {s.capacityVal, s.capacityVal + 1} : n = s.capacityVal + 1  OBVIOUS
  <2>3. PICK q : q = Heap!Reallocated(s, c, n)  OBVIOUS
  <2>4. HeapOk(q) /\ Content(q) = Content(s)  BY <2>1, <2>3, HeapReallocated, HeapReallocatedIs
  <2>5. Heap!reserve(s, c) = Terminated(q)  BY <1>1, <2>2, <2>3, HeapCells DEF Heap!reserve
  <2> QED  BY <2>4, <2>5, OkHeld, TerminatedIs
<1>2. CASE ~(c > s.capacityVal)  BY <1>2 DEF Heap!reserve
<1> QED  BY <1>1, <1>2

\* ... nor does making room.
LEMMA HeapRoomIs ==
  ASSUME NEW s, HeapOk(s), NEW n \in Nat
  PROVE  Content(Heap!Room(s, n)) = Content(s)
<1>1. s.sizeVal + n \in Nat  BY HeapFields
<1> QED  BY <1>1, HeapReserveIs DEF Heap!Room

\* append.
LEMMA HeapAppendIs ==
  ASSUME NEW s, HeapOk(s), NEW t \in Seq(Cell)
  PROVE  Gives(Heap!append(s, t), s, Content(s) \o t)
<1>1. CASE t = <<>>
  <2>1. PICK o \in Nat : o = 0  OBVIOUS
  <2>2. Heap!append(s, t) = Heap!Room(s, o)  BY <1>1, <2>1 DEF Heap!append
  <2>3. Content(Heap!append(s, t)) = Content(s)  BY <2>2, HeapRoomIs
  <2>4. s.sizeVal + o \in Nat /\ s.sizeVal + o = s.sizeVal  BY <2>1, HeapFields
  <2>5. Heap!append(s, t).sizeVal = s.sizeVal  BY <2>2, <2>4, HeapReserve DEF Heap!Room
  <2>6. Content(s) \o t = Content(s)  BY <1>1, OkHeld, ContentAt, ConcatEmptySeq
  <2> QED  BY <2>3, <2>5, <2>6 DEF Gives
<1>2. CASE t # <<>>
  <2>1. Len(t) \in Nat /\ Len(t) > 0 /\ s.sizeVal \in Nat  BY <1>2, HeapFields
  <2>2. PICK r : r = Heap!Room(s, Len(t))  OBVIOUS
  <2>3. HeapOk(r) /\ r.capacityVal >= s.sizeVal + Len(t) /\ r.capacityVal > 0
        /\ r.capacityVal \in Nat /\ r.sizeVal = s.sizeVal
    BY <2>1, <2>2, HeapRoom
  <2>4. Content(r) = Content(s)  BY <2>1, <2>2, HeapRoomIs
  <2>5. r.sizeVal + Len(t) < Len(r.dataVal)  BY <2>1, <2>3, HeapFields
  <2>6. Heap!append(s, t) = Extended(r, r.sizeVal, t)  BY <1>2, <2>2, <2>3, HeapCells DEF Heap!append
  <2> QED  BY <2>3, <2>4, <2>5, <2>6, OkHeld, ExtendedAll DEF Gives
<1> QED  BY <1>1, <1>2

\* insert of a range.
LEMMA HeapInsertIs ==
  ASSUME NEW s, HeapOk(s), NEW n \in Nat, n <= s.sizeVal, NEW t \in Seq(Cell)
  PROVE  Gives(Heap!insert(s, n, t), s, Front(Content(s), n) \o t \o Back(Content(s), n))
<1>1. CASE t = <<>>
  <2>1. PICK l \in Nat : l = s.sizeVal  BY HeapFields
  <2>2. PICK v \in Seq(Cell) : v = Content(s) /\ l = Len(v)  BY <2>1, OkHeld, ContentAt
  <2>3. Front(v, n) \o t \o Back(v, n) = v  BY <1>1, <2>1, <2>2, FrontJoinsBack
  <2>4. Heap!insert(s, n, t) = s  BY <1>1 DEF Heap!insert
  <2> QED  BY <2>2, <2>3, <2>4 DEF Gives
<1>2. CASE t # <<>>
  <2>1. Len(t) \in Nat /\ Len(t) > 0 /\ s.sizeVal \in Nat  BY <1>2, HeapFields
  <2>2. PICK r : r = Heap!Room(s, Len(t))  OBVIOUS
  <2>3. HeapOk(r) /\ r.capacityVal >= s.sizeVal + Len(t) /\ r.capacityVal > 0
        /\ r.capacityVal \in Nat /\ r.sizeVal = s.sizeVal
    BY <2>1, <2>2, HeapRoom
  <2>4. Content(r) = Content(s)  BY <2>1, <2>2, HeapRoomIs
  <2>5. Len(r.dataVal) \in Nat /\ r.sizeVal + Len(t) < Len(r.dataVal) /\ r.sizeVal + Len(t) <= Len(r.dataVal)
    BY <2>1, <2>3, HeapFields
  <2>6. PICK q : q = Spread(r, n, t)  OBVIOUS
  <2>7. /\ Held(q) /\ q.sizeVal = r.sizeVal + Len(t) /\ Len(q.dataVal) = Len(r.dataVal)
        /\ Content(q) = Front(Content(r), n) \o t \o Back(Content(r), n)
    BY <2>3, <2>5, <2>6, OkHeld, SpreadIs
  <2>8. Heap!insert(s, n, t) = Terminated(q)  BY <1>2, <2>2, <2>6, HeapCells DEF Heap!insert
  <2>9. q.sizeVal < Len(q.dataVal)  BY <2>5, <2>7
  <2> QED  BY <2>4, <2>7, <2>8, <2>9, TerminatedIs DEF Gives
<1> QED  BY <1>1, <1>2

\* insert of one character, without a terminator.
LEMMA HeapInsertOneIs ==
  ASSUME NEW s, HeapOk(s), NEW n \in Nat, n <= s.sizeVal, NEW c \in Chars
  PROVE  Content(Heap!insertOne(s, n, c)) = Front(Content(s), n) \o <<c>> \o Back(Content(s), n)
<1>1. s.sizeVal \in Nat  BY HeapFields
<1>2. PICK m \in Nat, k \in Nat : m = s.sizeVal + 1 /\ k = (s.sizeVal + 1) * 2 /\ m <= k  BY <1>1
<1>3. PICK r : r = IF m >= s.capacityVal THEN Heap!reserve(s, k) ELSE s  OBVIOUS
<1>4. HeapOk(r) /\ r.sizeVal = s.sizeVal /\ r.capacityVal \in Nat /\ r.capacityVal >= m
  BY <1>2, <1>3, HeapGrown
<1>5. Content(r) = Content(s)  BY <1>3, HeapReserveIs
<1>6. PICK t \in Seq(Cell) : t = <<c>> /\ Len(t) = 1  BY OneCell
<1>7. Heap!insertOne(s, n, c) = Spread(r, n, t)  BY <1>3, <1>6, <1>2, HeapCells DEF Heap!insertOne
<1>8. r.sizeVal + Len(t) <= Len(r.dataVal) /\ n <= r.sizeVal  BY <1>1, <1>2, <1>4, <1>6, HeapFields
<1>9. Content(Spread(r, n, t)) = Front(Content(r), n) \o t \o Back(Content(r), n)
  BY <1>4, <1>8, OkHeld, SpreadIs
<1> QED  BY <1>5, <1>6, <1>7, <1>9

\* emplace_back.
LEMMA HeapEmplaceBackIs ==
  ASSUME NEW s, HeapOk(s), NEW c \in Chars
  PROVE  Gives(Heap!emplace_back(s, c), s, Content(s) \o <<c>>)
<1>1. s.sizeVal \in Nat  BY HeapFields
<1>2. PICK m \in Nat, k \in Nat : m = s.sizeVal + 1 /\ k = (s.sizeVal + 2) * 4 /\ m <= k  BY <1>1
<1>3. PICK r : r = IF m >= s.capacityVal THEN Heap!reserve(s, k) ELSE s  OBVIOUS
<1>4. HeapOk(r) /\ r.sizeVal = s.sizeVal /\ r.capacityVal \in Nat /\ r.capacityVal >= m
  BY <1>2, <1>3, HeapGrown
<1>5. Content(r) = Content(s)  BY <1>3, HeapReserveIs
<1>6. PICK t \in Seq(Cell) : t = <<c>> /\ Len(t) = 1  BY OneCell
<1>7. Heap!emplace_back(s, c) = Extended(r, r.sizeVal, t)
  BY <1>3, <1>4, <1>6, <1>2, HeapCells DEF Heap!emplace_back
<1>8. r.sizeVal + Len(t) < Len(r.dataVal)  BY <1>1, <1>2, <1>4, <1>6, HeapFields
<1> QED  BY <1>4, <1>5, <1>6, <1>7, <1>8, OkHeld, ExtendedAll DEF Gives

\* The object a constructor makes of a text.
LEMMA HeapConstructIs ==
  ASSUME NEW t \in Seq(Cell)
  PROVE  /\ Content(Heap!construct(t)) = IF Len(t) < MaxSize THEN t ELSE <<>>
         /\ Heap!construct(t).sizeVal > 0 => IsTerminated(Heap!construct(t))
<1>1. CASE Len(t) > 0 /\ Len(t) < MaxSize
  <2>1. PICK r : r = Heap!reserve(Heap!Null, Len(t))  OBVIOUS
  <2>2. HeapOk(r) /\ r.capacityVal \in Nat /\ r.capacityVal >= Len(t) /\ Len(t) \in Nat
    BY <2>1, HeapNull, HeapReserve
  <2>3. PICK o \in Nat : o = 0  OBVIOUS
  <2>4. Len(t) < Len(r.dataVal)  BY <1>1, <2>2, HeapFields
  <2>5. Heap!construct(t) = Extended(r, o, t)  BY <1>1, <2>1, <2>3, HeapCells DEF Heap!construct
  <2> QED  BY <1>1, <2>2, <2>3, <2>4, <2>5, OkHeld, ExtendedFirst
<1>2. CASE ~(Len(t) > 0 /\ Len(t) < MaxSize)
  <2>1. Heap!construct(t) = Heap!Null  BY <1>2 DEF Heap!construct
  <2>2. Len(t) < MaxSize => t = <<>>  BY <1>2
  <2> QED  BY <2>1, <2>2, HeapNullIs DEF Heap!Null
<1> QED  BY <1>1, <1>2

\* Another object in its place, with its own content.
LEMMA HeapReplacedIs ==
  ASSUME NEW s, NEW r, HeapOk(r)
  PROVE  LET q == Heap!Replaced(s, r)
         IN  q.dataVal = r.dataVal /\ q.sizeVal = r.sizeVal /\ Content(q) = Content(r)
BY DEF Heap!Replaced, HeapOk, HeapStrings, Content

\* resize to 0 and to fewer characters, ...
LEMMA HeapShrinkIs ==
  ASSUME NEW s, HeapOk(s), NEW n \in Nat, n <= s.sizeVal
  PROVE  Gives(Heap!resize(s, n), s, Front(Content(s), n))
<1>1. PICK l \in Nat : l = s.sizeVal /\ n <= l  BY HeapFields
<1>2. PICK v \in Seq(Cell) : v = Content(s) /\ l = Len(v) /\ Begins(s.dataVal, v)
  BY <1>1, OkHeld, ContentAt
<1>3. PICK f \in Seq(Cell) : f = Front(v, n) /\ Len(f) = n  BY <1>1, <1>2, FrontBack
<1>4. Begins(s.dataVal, f)  BY <1>1, <1>2, <1>3, HeapFields, BeginsFront
<1>5. CASE n = 0
  <2>1. PICK r : r = [s EXCEPT !.sizeVal = 0]  OBVIOUS
  <2>2. r = Heap!resize(s, n)  BY <1>1, <1>5, <2>1 DEF Heap!resize
  <2>3. HeapOk(r) /\ r.sizeVal = n  BY <2>2, HeapResize
  <2>4. r.dataVal = s.dataVal  BY <2>1 DEF HeapOk, HeapStrings
  <2>5. Content(r) = f  BY <1>3, <1>4, <2>3, <2>4, OkHeld, ContentIs
  <2> QED  BY <1>2, <1>3, <1>5, <2>2, <2>3, <2>5 DEF Gives
<1>6. CASE n # 0 /\ n < l
  <2>1. Heap!resize(s, n) = Sized(s, n)  BY <1>1, <1>6, HeapCells DEF Heap!resize
  <2>2. n < Len(s.dataVal)  BY <1>1, <1>6, HeapFields
  <2> QED  BY <1>2, <1>3, <1>4, <2>1, <2>2, OkHeld, SizedIs DEF Gives
<1>7. CASE n # 0 /\ n = l
  <2>1. Heap!resize(s, n) = s  BY <1>1, <1>7 DEF Heap!resize
  <2>2. PICK t \in Seq(Cell) : t = <<>>  BY BeginsEmpty
  <2>3. f = v
    <3>1. Begins(f, v)  BY <1>2, <1>3, <1>7 DEF Begins, Front
    <3> QED  BY <1>2, <1>3, <1>7, <3>1, SameElements
  <2> QED  BY <1>2, <1>3, <2>1, <2>3 DEF Gives
<1> QED  BY <1>1, <1>5, <1>6, <1>7

\* ... and to more, which are NULs.
LEMMA HeapGrowIs ==
  ASSUME NEW s, HeapOk(s), NEW n \in Nat, n > s.sizeVal, NEW k \in Nat, k = n - s.sizeVal
  PROVE  Gives(Heap!resize(s, n), s, Content(s) \o Filled(NUL, k))
<1>1. s.sizeVal \in Nat /\ s.capacityVal \in Nat /\ s.sizeVal <= s.capacityVal  BY HeapFields
<1>2. PICK r : r = IF n > s.capacityVal THEN Heap!Reallocated(s, n, s.capacityVal) ELSE s
  OBVIOUS
<1>3. HeapOk(r) /\ r.sizeVal = s.sizeVal /\ r.capacityVal >= n /\ Content(r) = Content(s)
  <2>1. CASE n > s.capacityVal
    <3>1. PICK m \in {s.capacityVal, s.capacityVal + 1} : m = s.capacityVal  OBVIOUS
    <3>2. r = Heap!Reallocated(s, n, m)  BY <1>2, <2>1, <3>1
    <3>3. s.sizeVal <= n  BY <1>1
    <3>4. HeapOk(r) /\ r.sizeVal = s.sizeVal /\ r.capacityVal = n
      BY <3>2, <3>3, HeapReallocated
    <3> QED  BY <3>2, <3>3, <3>4, HeapReallocatedIs
  <2>2. CASE ~(n > s.capacityVal)  BY <1>1, <1>2, <2>2
  <2> QED  BY <2>1, <2>2
<1>4. PICK j \in Nat : j = r.capacityVal - s.sizeVal /\ k <= j  BY <1>1, <1>3, HeapFields
<1>5. NUL \in Cell  BY DEF Cell
<1>6. PICK t \in Seq(Cell) : t = Filled(NUL, j) /\ Len(t) = j  BY <1>5, FilledCells
<1>7. PICK u \in Seq(Cell) : u = Filled(NUL, k) /\ Len(u) = k  BY <1>5, FilledCells
<1>8. PICK q : q = [r EXCEPT !.dataVal = Written(r.dataVal, s.sizeVal, t)]  OBVIOUS
<1>9. HeapOk(q) /\ q.capacityVal = r.capacityVal  BY <1>1, <1>3, <1>8, HeapWritten
<1>10. Heap!resize(s, n) = Sized(q, n)
  <2>1. n # 0 /\ ~(n < s.sizeVal) /\ n # s.sizeVal  BY <1>1
  <2>2. q = [r EXCEPT !.dataVal =
               Heap!Written(r.dataVal, s.sizeVal, Heap!Filled(NUL, r.capacityVal - s.sizeVal))]
    <3>1. q = [r EXCEPT !.dataVal = Written(r.dataVal, s.sizeVal, Filled(NUL, r.capacityVal - s.sizeVal))]
      BY <1>4, <1>6, <1>8
    <3> QED  BY <3>1, HeapCells
  <2>3. Heap!resize(s, n) = Heap!Sized(q, n)  BY <1>2, <2>1, <2>2 DEF Heap!resize
  <2> QED  BY <2>3, HeapCells
<1>11. PICK v \in Seq(Cell) : v = Content(s) /\ Len(v) = s.sizeVal /\ Begins(r.dataVal, v)
  BY <1>3, OkHeld, ContentAt
<1>12. PICK w \in Seq(Cell) : w = v \o u /\ Len(w) = Len(v) + Len(u)  BY ConcatAt
<1>13. Len(w) = n  BY <1>1, <1>7, <1>11, <1>12
<1>14. r.dataVal \in Seq(Cell) /\ Len(r.dataVal) = r.capacityVal + 1 /\ r.capacityVal \in Nat
  BY <1>1, <1>3, HeapFields
<1>15. q.dataVal = Written(r.dataVal, s.sizeVal, t)  BY <1>3, <1>8 DEF HeapOk, HeapStrings
<1>16. Begins(q.dataVal, w)
  <2>1. PICK x \in Seq(Cell) : x = v \o t /\ Len(x) = Len(v) + Len(t)  BY ConcatAt
  <2>2. s.sizeVal + Len(t) <= Len(r.dataVal)
    <3>1. PICK c \in Nat, z \in Nat : c = r.capacityVal /\ z = s.sizeVal  BY <1>1, <1>14, HeapFields
    <3>2. PICK l \in Nat, d \in Nat : l = Len(t) /\ l = c - z /\ d = Len(r.dataVal) /\ d = c + 1
      BY <1>4, <1>6, <1>14, <3>1
    <3>3. z + l <= d  BY <3>2
    <3> QED  BY <3>1, <3>2, <3>3
  <2>3. Begins(q.dataVal, x)  BY <1>1, <1>11, <1>14, <1>15, <2>1, <2>2, WrittenJoined
  <2>4. ASSUME NEW i \in 1..n PROVE x[i] = w[i]
    <3>1. i \in Nat /\ Len(v) \in Nat  BY <1>11
    <3>2. CASE i <= Len(v)
      <4>1. i \in 1..Len(v)  BY <3>1, <3>2
      <4> QED  BY <1>12, <2>1, <4>1, ConcatAt
    <3>3. CASE ~(i <= Len(v))
      <4>1. PICK h \in Nat : i = Len(v) + h
        <5>1. i - Len(v) \in Nat /\ i = Len(v) + (i - Len(v))  BY <3>1, <3>3
        <5> QED  BY <5>1
      <4>2. h \in 1..Len(u) /\ h \in 1..Len(t) /\ h \in 1..j /\ h \in 1..k
            /\ i \in 1..(Len(v) + Len(u)) /\ i \in 1..(Len(v) + Len(t))
        BY <1>4, <1>6, <1>7, <1>12, <1>13, <3>1, <3>3, <4>1
      <4>3. x[i] = t[h]  BY <2>1, <4>1, <4>2, ConcatAt
      <4>4. w[i] = u[h]  BY <1>12, <4>1, <4>2, ConcatAt
      <4> QED  BY <1>6, <1>7, <4>2, <4>3, <4>4 DEF Filled
    <3> QED  BY <3>2, <3>3
  <2>5. PICK l \in Nat : l = Len(x) /\ n <= l  BY <1>4, <1>6, <1>7, <1>12, <1>13, <2>1
  <2>6. PICK c \in Nat : c = Len(q.dataVal) /\ l <= c
    <3>1. Len(q.dataVal) \in Nat  BY <1>9, HeapFields
    <3> QED  BY <2>3, <2>5, <3>1 DEF Begins
  <2>7. ASSUME NEW i \in 1..n PROVE q.dataVal[i] = w[i]
    <3>1. i \in 1..Len(x)  BY <2>5
    <3>2. q.dataVal[i] = x[i]  BY <2>3, <3>1 DEF Begins
    <3> QED  BY <2>4, <3>2
  <2> QED  BY <1>13, <2>5, <2>6, <2>7 DEF Begins
<1>17. n < Len(q.dataVal)
  <2>1. PICK c \in Nat : c = q.capacityVal /\ c >= n  BY <1>3, <1>9, HeapFields
  <2>2. c > 0 => Len(q.dataVal) = c + 1  BY <1>9, <2>1, HeapFields
  <2>3. n > 0  BY <1>1, HeapFields
  <2> QED  BY <2>1, <2>2, <2>3
<1>18. PICK p : p = Sized(q, n)  OBVIOUS
<1>19. IsTerminated(p) /\ Content(p) = w  BY <1>9, <1>13, <1>16, <1>17, <1>18, OkHeld, SizedIs
<1> QED  BY <1>7, <1>10, <1>11, <1>12, <1>18, <1>19 DEF Gives

\* The default object's content.
LEMMA HeapNewIs ==
  /\ Content(Heap!New) = Filled(NUL, NewerSize)
  /\ Heap!New.sizeVal > 0 => IsTerminated(Heap!New)
<1>1. PICK k \in Nat : k = NewerSize  BY BuffersAssumption
<1>2. PICK s : s = Heap!Null  OBVIOUS
<1>3. HeapOk(s) /\ s.sizeVal = 0 /\ Content(s) = <<>>  BY <1>2, HeapNull, HeapNullIs DEF Heap!Null
<1>4. NUL \in Cell  BY DEF Cell
<1>5. PICK u \in Seq(Cell) : u = Filled(NUL, k) /\ Len(u) = k  BY <1>4, FilledCells
<1>6. CASE k = 0
  <2>1. Heap!New = s  BY <1>1, <1>2, <1>6 DEF Heap!New
  <2>2. u = <<>>  BY <1>5, <1>6
  <2> QED  BY <1>1, <1>3, <1>5, <2>1, <2>2
<1>7. CASE k > 0
  <2>1. k > s.sizeVal /\ k = k - s.sizeVal  BY <1>3, <1>7
  <2>2. Heap!New = Heap!resize(s, k)  BY <1>1, <1>2, <1>7 DEF Heap!New
  <2>3. Gives(Heap!resize(s, k), s, Content(s) \o Filled(NUL, k))  BY <1>3, <2>1, HeapGrowIs
  <2>4. Content(s) \o u = u  BY <1>3, ConcatEmptySeq
  <2> QED  BY <1>1, <1>3, <1>5, <2>2, <2>3, <2>4 DEF Gives
<1> QED  BY <1>6, <1>7

\* clear, of an object that may have no cells.
LEMMA HeapClearIs == ASSUME NEW s, HeapOk(s) PROVE Content(Heap!clear(s)) = <<>>
<1>1. PICK o \in Nat : o = 0  OBVIOUS
<1>2. PICK v \in Seq(Cell) : v = <<>> /\ Len(v) = o /\ Begins(s.dataVal, v)
  BY <1>1, HeapFields, BeginsEmpty
<1>3. CASE s.sizeVal > 0
  <2>1. PICK t \in Seq(Cell) : t = <<NUL>>  BY NULCell
  <2>2. PICK d : d = Written(s.dataVal, o, t)  OBVIOUS
  <2>3. d = Heap!Written(s.dataVal, 0, <<NUL>>)  BY <1>1, <2>1, <2>2, HeapCells
  <2>4. PICK r : r = [s EXCEPT !.dataVal = d, !.sizeVal = o]  OBVIOUS
  <2>5. Heap!clear(s) = r  BY <1>1, <1>3, <2>3, <2>4 DEF Heap!clear
  <2>6. Sized(s, o) = r  BY <2>1, <2>2, <2>4 DEF Sized, Terminated, HeapOk, HeapStrings
  <2>7. o < Len(s.dataVal)  BY <1>1, <1>3, HeapFields
  <2> QED  BY <1>2, <2>5, <2>6, <2>7, OkHeld, SizedIs
<1>4. CASE ~(s.sizeVal > 0)
  <2>1. Heap!clear(s) = s  BY <1>4 DEF Heap!clear
  <2>2. s.sizeVal = o  BY <1>1, <1>4, HeapFields
  <2> QED  BY <1>2, <2>1, <2>2, OkHeld, ContentIs
<1> QED  BY <1>3, <1>4

\* substr from an offset within the content, of at least a character.
LEMMA HeapSubstrIs ==
  ASSUME NEW s, HeapOk(s), NEW i \in Nat, NEW count \in Nat, i < s.sizeVal,
         NEW n \in Nat, n = Lesser(count, s.sizeVal - i), NEW j \in Nat, j = i + n
  PROVE  /\ j <= s.sizeVal
         /\ n = 0 => Heap!substr(s, i, count) = Heap!New
         /\ n # 0 => Content(Heap!substr(s, i, count)) = Between(Content(s), i, j)
<1>1. PICK l \in Nat : l = s.sizeVal  BY HeapFields
<1>2. j <= l  BY <1>1 DEF Lesser
<1>3. n = Heap!Lesser(count, s.sizeVal - i)  BY HeapCells
<1>4. n = 0 => Heap!substr(s, i, count) = Heap!New  BY <1>3 DEF Heap!substr
<1>5. ASSUME n # 0 PROVE Content(Heap!substr(s, i, count)) = Between(Content(s), i, j)
  <2>1. PICK r : r = Heap!resize(Heap!New, n)  OBVIOUS
  <2>2. HeapOk(r) /\ r.sizeVal = n  BY <2>1, HeapNew, HeapResize
  <2>3. PICK v \in Seq(Cell) : v = Content(s) /\ l = Len(v) /\ Begins(s.dataVal, v)
    BY <1>1, OkHeld, ContentAt
  <2>4. i <= j /\ n = j - i  OBVIOUS
  <2>5. j <= Len(v) /\ i <= j /\ n = j - i  BY <1>2, <2>3, <2>4
  <2>6. PICK b \in Seq(Cell) : b = Between(v, i, j) /\ Len(b) = n
    <3>1. Between(v, i, j) \in Seq(Cell) /\ Len(Between(v, i, j)) = j - i  BY <2>5, BetweenCells
    <3>2. j - i = n  BY <2>5
    <3> QED  BY <3>1, <3>2
  <2>7. Between(s.dataVal, i, j) = b  BY <2>3, <2>5, <2>6, HeapFields, BetweenAlike
  <2>8. PICK o \in Nat : o = 0  OBVIOUS
  <2>9. PICK q : q = [r EXCEPT !.dataVal = Written(r.dataVal, o, b)]  OBVIOUS
  <2>10. HeapOk(q) /\ q.sizeVal = n  BY <2>2, <2>9, HeapWritten
  <2>11. q.dataVal = Written(r.dataVal, o, b)  BY <2>2, <2>9 DEF HeapOk, HeapStrings
  <2>12. r.dataVal \in Seq(Cell) /\ Len(b) <= Len(r.dataVal)  BY <2>2, <2>6, HeapFields
  <2>13. Begins(q.dataVal, b)  BY <2>8, <2>11, <2>12, WrittenFirst
  <2>14. Content(q) = b  BY <2>6, <2>10, <2>13, OkHeld, ContentIs
  <2>15. Heap!substr(s, i, count) = q
    <3>1. q = [r EXCEPT !.dataVal = Written(r.dataVal, 0, Between(s.dataVal, i, i + n))]
      BY <2>7, <2>8, <2>9
    <3>2. q = [r EXCEPT !.dataVal = Heap!Written(r.dataVal, 0, Heap!Between(s.dataVal, i, i + n))]
      BY <3>1, HeapCells
    <3> QED  BY <1>3, <1>5, <2>1, <3>2 DEF Heap!substr
  <2> QED  BY <2>3, <2>6, <2>14, <2>15
<1> QED  BY <1>1, <1>2, <1>4, <1>5

-------------------------------------------------------------------------------
\* What an operation made of an inline object holds v and is as terminated as it was.
GivesInline(r, s, v) == Content(r) = v /\ (IsTerminated(s) => IsTerminated(r))

\* Inline objects have a cell to spare.
LEMMA InlineHeld == ASSUME NEW s, InlineOk(s) PROVE Held(s) /\ s.sizeVal < Len(s.dataVal) /\ Len(s.dataVal) \in Nat
BY OkHeld, InlineFields

\* resize to fewer characters, ...
LEMMA InlineShrinkIs ==
  ASSUME NEW s, InlineOk(s), NEW n \in Nat, n <= s.sizeVal
  PROVE  GivesInline(Inline!resize(s, n), s, Front(Content(s), n))
<1>1. PICK l \in Nat : l = s.sizeVal /\ n <= l /\ l < BufferSize  BY InlineFields
<1>2. PICK v \in Seq(Cell) : v = Content(s) /\ l = Len(v) /\ Begins(s.dataVal, v)
  BY <1>1, InlineHeld, ContentAt
<1>3. PICK f \in Seq(Cell) : f = Front(v, n) /\ Len(f) = n  BY <1>1, <1>2, FrontBack
<1>4. Begins(s.dataVal, f)  BY <1>1, <1>2, <1>3, InlineFields, BeginsFront
<1>5. n < BufferSize /\ ~(n > s.sizeVal)  BY <1>1, InlineFields
<1>6. [s EXCEPT !.dataVal = s.dataVal] = s  BY DEF InlineOk, InlineStrings
<1>7. Inline!resize(s, n) = Sized(s, n)  BY <1>5, <1>6, InlineCells DEF Inline!resize
<1>8. n < Len(s.dataVal)  BY <1>1, InlineHeld
<1> QED  BY <1>2, <1>3, <1>4, <1>7, <1>8, InlineHeld, SizedIs DEF GivesInline

\* ... and to more, when a cell is left.
LEMMA InlineGrowIs ==
  ASSUME NEW s, InlineOk(s), NEW n \in Nat, n > s.sizeVal, NEW k \in Nat, k = n - s.sizeVal
  PROVE  GivesInline(Inline!resize(s, n), s,
                     IF n < BufferSize THEN Content(s) \o Filled(NUL, k) ELSE Content(s))
<1>1. CASE ~(n < BufferSize)  BY <1>1 DEF Inline!resize, GivesInline
<1>2. CASE n < BufferSize
  <2>1. PICK l \in Nat : l = s.sizeVal  BY InlineFields
  <2>2. PICK v \in Seq(Cell) : v = Content(s) /\ l = Len(v) /\ Begins(s.dataVal, v)
    BY <2>1, InlineHeld, ContentAt
  <2>3. NUL \in Cell  BY DEF Cell
  <2>4. PICK u \in Seq(Cell) : u = Filled(NUL, k) /\ Len(u) = k  BY <2>3, FilledCells
  <2>5. PICK d \in Seq(Cell) : d = Written(s.dataVal, l, u) /\ Len(d) = Len(s.dataVal)
    BY InlineFields, WrittenCells
  <2>6. v \o u \in Seq(Cell) /\ Len(v \o u) = Len(v) + Len(u)  BY ConcatAt
  <2>7. PICK w \in Seq(Cell) : w = v \o u /\ Len(w) = n
    <3>1. l + k = n  BY <2>1
    <3> QED  BY <2>2, <2>4, <2>6, <3>1
  <2>8. l + Len(u) <= Len(s.dataVal) /\ n < Len(s.dataVal)  BY <1>2, <2>1, <2>4, InlineFields
  <2>9. s.dataVal \in Seq(Cell)  BY InlineFields
  <2>10. Begins(d, w)  BY <2>2, <2>5, <2>7, <2>8, <2>9, WrittenJoined
  <2>11. PICK r : r = [s EXCEPT !.dataVal = d]  OBVIOUS
  <2>12. InlineOk(r) /\ r.dataVal = d  BY <2>5, <2>11 DEF InlineOk, InlineStrings
  <2>13. Inline!resize(s, n) = Sized(r, n)
    <3>1. d = Written(s.dataVal, s.sizeVal, Filled(NUL, n - s.sizeVal))  BY <2>1, <2>4, <2>5
    <3>2. d = Inline!Written(s.dataVal, s.sizeVal, Inline!Filled(NUL, n - s.sizeVal))
      BY <3>1, InlineCells
    <3>3. Inline!resize(s, n) = Inline!Sized(r, n)  BY <1>2, <2>11, <3>2 DEF Inline!resize
    <3> QED  BY <3>3, InlineCells
  <2>14. n < Len(r.dataVal)  BY <2>5, <2>8, <2>12
  <2>15. Content(Sized(r, n)) = w /\ IsTerminated(Sized(r, n))
    BY <2>7, <2>10, <2>12, <2>14, InlineHeld, SizedIs
  <2> QED  BY <1>2, <2>2, <2>4, <2>7, <2>13, <2>15 DEF GivesInline
<1> QED  BY <1>1, <1>2

\* An inline object of no characters, terminated like all its cells.
LEMMA InlineEmptyIs ==
  Inline!Empty.sizeVal = 0 /\ Content(Inline!Empty) = <<>> /\ IsTerminated(Inline!Empty)
<1>1. PICK s : s = Inline!Empty  OBVIOUS
<1>2. InlineOk(s) /\ Held(s) /\ s.dataVal \in Seq(Cell) /\ s.sizeVal = 0
  BY <1>1, InlineEmpty, InlineHeld, InlineFields DEF Inline!Empty
<1>3. PICK v : v = <<>> /\ v \in Seq(Cell) /\ Len(v) = 0 /\ Begins(s.dataVal, v)
  BY <1>2, BeginsEmpty
<1>4. Content(s) = v  BY <1>2, <1>3, ContentIs
<1>5. IsTerminated(s)
  <2>1. s.dataVal = Filled(NUL, BufferSize + 1)  BY <1>1, InlineCells DEF Inline!Empty
  <2>2. s.sizeVal + 1 \in 1..(BufferSize + 1)  BY <1>2, BuffersAssumption
  <2> QED  BY <2>1, <2>2 DEF IsTerminated, Filled
<1> QED  BY <1>1, <1>2, <1>3, <1>4, <1>5

\* append, of nothing when no cell would be left.
LEMMA InlineAppendIs ==
  ASSUME NEW s, InlineOk(s), NEW t \in Seq(Cell)
  PROVE  GivesInline(Inline!append(s, t), s,
                     IF s.sizeVal + Len(t) < BufferSize THEN Content(s) \o t ELSE Content(s))
<1>1. CASE t # <<>> /\ Inline!HasRoom(s, Len(t))
  <2>1. s.sizeVal + Len(t) < BufferSize  BY <1>1 DEF Inline!HasRoom
  <2>2. s.sizeVal + Len(t) < Len(s.dataVal)  BY <2>1, InlineFields
  <2>3. Inline!append(s, t) = Extended(s, s.sizeVal, t)  BY <1>1, InlineCells DEF Inline!append
  <2> QED  BY <2>1, <2>2, <2>3, InlineHeld, ExtendedAll DEF GivesInline
<1>2. CASE ~(t # <<>> /\ Inline!HasRoom(s, Len(t)))
  <2>1. Inline!append(s, t) = s  BY <1>2 DEF Inline!append
  <2>2. CASE t = <<>>
    <3>1. Content(s) \o t = Content(s)  BY <2>2, InlineHeld, ContentAt, ConcatEmptySeq
    <3> QED  BY <2>1, <3>1 DEF GivesInline
  <2>3. CASE ~Inline!HasRoom(s, Len(t))
    BY <2>1, <2>3 DEF GivesInline, Inline!HasRoom
  <2> QED  BY <1>2, <2>2, <2>3
<1> QED  BY <1>1, <1>2

\* The object a constructor makes of a text.
LEMMA InlineConstructIs ==
  ASSUME NEW t \in Seq(Cell)
  PROVE  /\ Content(Inline!construct(t)) = IF Len(t) < BufferSize THEN t ELSE <<>>
         /\ IsTerminated(Inline!construct(t))
<1>1. PICK e : e = Inline!Empty  OBVIOUS
<1>2. InlineOk(e) /\ e.sizeVal = 0 /\ Content(e) = <<>> /\ IsTerminated(e)
  BY <1>1, InlineEmpty, InlineEmptyIs
<1>3. Inline!construct(t) = Inline!append(e, t)
  BY <1>1, <1>2 DEF Inline!construct, Inline!append
<1>4. e.sizeVal + Len(t) = Len(t) /\ Content(e) \o t = t  BY <1>2, ConcatEmptySeq
<1>5. GivesInline(Inline!append(e, t), e,
                  IF e.sizeVal + Len(t) < BufferSize THEN Content(e) \o t ELSE Content(e))
  BY <1>2, InlineAppendIs
<1> QED  BY <1>2, <1>3, <1>4, <1>5 DEF GivesInline

\* insert, of nothing when no cell would be left.
LEMMA InlineInsertIs ==
  ASSUME NEW s, InlineOk(s), NEW n \in Nat, n <= s.sizeVal, NEW t \in Seq(Cell)
  PROVE  GivesInline(Inline!insert(s, n, t), s,
                     IF s.sizeVal + Len(t) < BufferSize
                     THEN Front(Content(s), n) \o t \o Back(Content(s), n) ELSE Content(s))
<1>1. CASE t # <<>> /\ Inline!HasRoom(s, Len(t))
  <2>1. s.sizeVal + Len(t) < BufferSize  BY <1>1 DEF Inline!HasRoom
  <2>2. Len(s.dataVal) \in Nat /\ s.sizeVal + Len(t) < Len(s.dataVal) /\ s.sizeVal + Len(t) <= Len(s.dataVal)
    BY <2>1, InlineFields
  <2>3. PICK q : q = Spread(s, n, t)  OBVIOUS
  <2>4. /\ Held(q) /\ q.sizeVal = s.sizeVal + Len(t) /\ Len(q.dataVal) = Len(s.dataVal)
        /\ Content(q) = Front(Content(s), n) \o t \o Back(Content(s), n)
    BY <2>2, <2>3, InlineHeld, SpreadIs
  <2>5. Inline!insert(s, n, t) = Terminated(q)  BY <1>1, <2>3, InlineCells DEF Inline!insert
  <2>6. q.sizeVal < Len(q.dataVal)  BY <2>2, <2>4
  <2> QED  BY <2>1, <2>4, <2>5, <2>6, TerminatedIs DEF GivesInline
<1>2. CASE ~(t # <<>> /\ Inline!HasRoom(s, Len(t)))
  <2>1. Inline!insert(s, n, t) = s  BY <1>2 DEF Inline!insert
  <2>2. CASE t = <<>>
    <3>1. PICK l \in Nat : l = s.sizeVal  BY InlineFields
    <3>2. PICK v \in Seq(Cell) : v = Content(s) /\ l = Len(v)  BY <3>1, InlineHeld, ContentAt
    <3>3. Front(v, n) \o t \o Back(v, n) = v  BY <2>2, <3>1, <3>2, FrontJoinsBack
    <3> QED  BY <2>1, <3>2, <3>3 DEF GivesInline
  <2>3. CASE ~Inline!HasRoom(s, Len(t))
    BY <2>1, <2>3 DEF GivesInline, Inline!HasRoom
  <2> QED  BY <1>2, <2>2, <2>3
<1> QED  BY <1>1, <1>2

\* emplace_back is append of one character.
LEMMA InlineEmplaceBackIs ==
  ASSUME NEW s, InlineOk(s), NEW c \in Chars
  PROVE  GivesInline(Inline!emplace_back(s, c), s,
                     IF s.sizeVal + 1 < BufferSize THEN Content(s) \o <<c>> ELSE Content(s))
<1>1. PICK t \in Seq(Cell) : t = <<c>> /\ Len(t) = 1 /\ t # <<>>  BY OneCell
<1>2. Inline!emplace_back(s, c) = Inline!append(s, t)
  BY <1>1 DEF Inline!emplace_back, Inline!append
<1> QED  BY <1>1, <1>2, InlineAppendIs

\* clear writes the terminator to the first cell.
LEMMA InlineClearIs ==
  ASSUME NEW s, InlineOk(s)
  PROVE  Content(Inline!clear(s)) = <<>> /\ IsTerminated(Inline!clear(s))
<1>1. PICK o \in Nat : o = 0  OBVIOUS
<1>2. PICK v \in Seq(Cell) : v = <<>> /\ Len(v) = o /\ Begins(s.dataVal, v)
  BY <1>1, InlineFields, BeginsEmpty
<1>3. PICK d : d = Written(s.dataVal, 0, <<NUL>>)  OBVIOUS
<1>4. d = Inline!Written(s.dataVal, 0, <<NUL>>)  BY <1>3, InlineCells
<1>5. PICK r : r = [s EXCEPT !.dataVal = d, !.sizeVal = 0]  OBVIOUS
<1>6. Inline!clear(s) = r  BY <1>4, <1>5 DEF Inline!clear
<1>7. Sized(s, o) = r  BY <1>1, <1>3, <1>5 DEF Sized, Terminated, InlineOk, InlineStrings
<1>8. o < Len(s.dataVal)  BY <1>1, InlineFields
<1> QED  BY <1>2, <1>6, <1>7, <1>8, InlineHeld, SizedIs

\* The default object's content, and of none when no cell would be left.
LEMMA InlineNewIs ==
  /\ Content(Inline!New) = IF InlineSize < BufferSize THEN Filled(NUL, InlineSize) ELSE <<>>
  /\ IsTerminated(Inline!New)
<1>1. PICK k \in Nat : k = InlineSize  BY BuffersAssumption
<1>2. PICK e : e = Inline!Empty  OBVIOUS
<1>3. InlineOk(e) /\ e.sizeVal = 0 /\ Content(e) = <<>> /\ IsTerminated(e)
  BY <1>2, InlineEmpty, InlineEmptyIs
<1>4. NUL \in Cell  BY DEF Cell
<1>5. PICK u \in Seq(Cell) : u = Filled(NUL, k) /\ Len(u) = k  BY <1>4, FilledCells
<1>6. Inline!New = Inline!resize(e, k)  BY <1>1, <1>2 DEF Inline!New
<1>7. CASE k = 0
  <2>1. k <= e.sizeVal  BY <1>3, <1>7
  <2>2. GivesInline(Inline!resize(e, k), e, Front(Content(e), k))  BY <1>3, <2>1, InlineShrinkIs
  <2>3. Front(Content(e), k) = <<>>  BY <1>3, <1>7 DEF Front
  <2>4. u = <<>>  BY <1>5, <1>7
  <2> QED  BY <1>1, <1>3, <1>5, <1>6, <2>2, <2>3, <2>4 DEF GivesInline
<1>8. CASE k > 0
  <2>1. k > e.sizeVal /\ k = k - e.sizeVal  BY <1>3, <1>8
  <2>2. GivesInline(Inline!resize(e, k), e,
                    IF k < BufferSize THEN Content(e) \o Filled(NUL, k) ELSE Content(e))
    BY <1>3, <2>1, InlineGrowIs
  <2>3. Content(e) \o u = u  BY <1>3, ConcatEmptySeq
  <2> QED  BY <1>1, <1>3, <1>5, <1>6, <2>2, <2>3 DEF GivesInline
<1> QED  BY <1>7, <1>8

\* substr from an offset within the content, of at least a character.
LEMMA InlineSubstrIs ==
  ASSUME NEW s, InlineOk(s), NEW i \in Nat, NEW count \in Nat, i < s.sizeVal,
         NEW n \in Nat, n = Lesser(count, s.sizeVal - i), NEW j \in Nat, j = i + n
  PROVE  /\ j <= s.sizeVal
         /\ n = 0 => Inline!substr(s, i, count) = Inline!New
         /\ n # 0 => Content(Inline!substr(s, i, count)) = Between(Content(s), i, j)
<1>1. PICK l \in Nat : l = s.sizeVal /\ l < BufferSize  BY InlineFields
<1>2. j <= l  BY <1>1 DEF Lesser
<1>3. n = Inline!Lesser(count, s.sizeVal - i)  BY InlineCells
<1>4. n = 0 => Inline!substr(s, i, count) = Inline!New  BY <1>3 DEF Inline!substr
<1>5. ASSUME n # 0 PROVE Content(Inline!substr(s, i, count)) = Between(Content(s), i, j)
  <2>1. PICK r : r = Inline!New  OBVIOUS
  <2>2. InlineOk(r)  BY <2>1, InlineNew
  <2>3. PICK v \in Seq(Cell) : v = Content(s) /\ l = Len(v) /\ Begins(s.dataVal, v)
    BY <1>1, InlineHeld, ContentAt
  <2>4. i <= j /\ n = j - i  OBVIOUS
  <2>5. j <= Len(v) /\ i <= j /\ n = j - i  BY <1>2, <2>3, <2>4
  <2>6. PICK b \in Seq(Cell) : b = Between(v, i, j) /\ Len(b) = n
    <3>1. Between(v, i, j) \in Seq(Cell) /\ Len(Between(v, i, j)) = j - i  BY <2>5, BetweenCells
    <3>2. j - i = n  BY <2>5
    <3> QED  BY <3>1, <3>2
  <2>7. Between(s.dataVal, i, j) = b
    <3>1. PICK d \in Seq(Cell) : d = s.dataVal  BY InlineFields
    <3> QED  BY <2>3, <2>5, <2>6, <3>1, BetweenAlike
  <2>8. PICK o \in Nat : o = 0  OBVIOUS
  <2>9. Len(b) < Len(r.dataVal)
    <3>1. Len(r.dataVal) = BufferSize + 1 /\ BufferSize \in Nat  BY <2>2, InlineFields
    <3>2. n <= j  OBVIOUS
    <3> QED  BY <1>1, <1>2, <2>6, <3>1, <3>2
  <2>10. Content(Extended(r, o, b)) = b  BY <2>2, <2>8, <2>9, InlineHeld, ExtendedFirst
  <2>11. Inline!substr(s, i, count) = Extended(r, o, b)
    <3>1. b = Inline!Between(s.dataVal, i, i + n)  BY <2>7, InlineCells
    <3>2. Inline!substr(s, i, count) = Inline!Extended(r, o, b)
      BY <1>3, <1>5, <2>1, <2>8, <3>1 DEF Inline!substr
    <3> QED  BY <3>2, InlineCells
  <2> QED  BY <2>3, <2>6, <2>10, <2>11
<1> QED  BY <1>1, <1>2, <1>4, <1>5

\* Swapped in, an object brings its content and its terminator.
LEMMA InlineReplacedIs ==
  ASSUME NEW s, InlineOk(s), NEW r, InlineOk(r)
  PROVE  GivesInline(Inline!Replaced(s, r), r, Content(r))
<1>1. PICK z \in Nat : z = BufferSize /\ Len(r.dataVal) = z + 1 /\ Len(s.dataVal) = z + 1
  BY InlineFields
<1>2. PICK d \in Seq(Cell), c \in Seq(Cell) : d = s.dataVal /\ c = r.dataVal  BY InlineFields
<1>3. PICK l \in Nat : l = r.sizeVal /\ l < z  BY <1>1, InlineFields
<1>4. Len(d) = z + 1 /\ Len(c) = z + 1 /\ z <= Len(c)  BY <1>1, <1>2
<1>5. PICK t \in Seq(Cell) : t = Front(c, z) /\ Len(t) = z
  <2>1. PICK m \in Nat : m = Len(c) /\ z <= m  BY <1>4
  <2> QED  BY <2>1, FrontBack
<1>6. PICK o \in Nat : o = 0  OBVIOUS
<1>7. Len(t) <= Len(d)  BY <1>4, <1>5
<1>8. PICK e \in Seq(Cell) : e = Written(d, o, t) /\ Begins(e, t)  BY <1>6, <1>7, WrittenFirst, WrittenCells
<1>9. PICK q : q = [r EXCEPT !.dataVal = e]  OBVIOUS
<1>10. Inline!Replaced(s, r) = q
  <2>1. e = Written(s.dataVal, 0, SubSeq(r.dataVal, 1, BufferSize))  BY <1>1, <1>2, <1>5, <1>6, <1>8 DEF Front
  <2>2. e = Inline!Written(s.dataVal, 0, SubSeq(r.dataVal, 1, BufferSize))  BY <2>1, InlineCells
  <2> QED  BY <1>9, <2>2 DEF Inline!Replaced
<1>11. InlineOk(q)  BY <1>10, InlineReplaced
<1>12. q.dataVal = e /\ q.sizeVal = l  BY <1>3, <1>9 DEF InlineOk, InlineStrings
<1>13. \A k \in 1..z : e[k] = c[k]
  <2>1. SUFFICES ASSUME NEW k \in 1..z PROVE e[k] = c[k]  OBVIOUS
  <2>2. e[k] = t[k]  BY <1>5, <1>8 DEF Begins
  <2> QED  BY <1>5, <2>2 DEF Front
<1>14. PICK v \in Seq(Cell) : v = Content(r) /\ Len(v) = l /\ Begins(c, v)
  BY <1>2, <1>3, InlineHeld, ContentAt
<1>15. Begins(e, v)
  <2>1. Len(e) = z + 1  BY <1>1, <1>11, <1>12, InlineFields
  <2>2. ASSUME NEW k \in 1..l PROVE e[k] = v[k]
    <3>1. k \in 1..z /\ k \in 1..Len(v)  BY <1>3, <1>14
    <3> QED  BY <1>13, <1>14, <3>1 DEF Begins
  <2> QED  BY <1>3, <1>14, <2>1, <2>2 DEF Begins
<1>16. Content(q) = v  BY <1>11, <1>12, <1>14, <1>15, InlineHeld, ContentIs
<1>17. l + 1 \in 1..z  BY <1>3
<1>18. IsTerminated(r) => IsTerminated(q)  BY <1>2, <1>3, <1>12, <1>13, <1>17 DEF IsTerminated
<1> QED  BY <1>10, <1>14, <1>16, <1>18 DEF GivesInline

-------------------------------------------------------------------------------
\* Fits of the abstract specification, and the terminator that an inline object
\* never loses: an operation that is refused leaves it where it was.
Limit == IF kind = "heap" THEN MaxSize ELSE BufferSize
Kept ==
  /\ Len(Content(string)) < Limit
  /\ kind = "inline" => IsTerminated(string)
Refining == IInv /\ Kept

\* What TerminatorFollows says of a step that is not InsertOne.
Ends ==
  IF kind = "heap"
  THEN string.sizeVal # string'.sizeVal /\ string'.sizeVal > 0 => IsTerminated(string')
  ELSE IsTerminated(string')

\* The limits are those of the code.
LEMMA Limits == ASSUME IInv PROVE Limit \in Nat /\ Limit > 0
BY BuffersAssumption DEF Limit, IInv

\* The content of the object.
LEMMA OwnLength ==
  ASSUME IInv
  PROVE  /\ Content(string) \in Seq(Cell) /\ Len(Content(string)) = string.sizeVal
         /\ string.sizeVal \in Nat
BY HeapContent, InlineContent, OwnContent DEF IInv

\* A step whose result holds v, or is refused since v is too long.
LEMMA EitherHolds ==
  ASSUME Refining, kind' = kind, NEW h, NEW l, NEW v \in Seq(Cell), Either(h, l),
         kind = "heap" => Len(v) < MaxSize /\ Content(h) = v,
         kind = "inline" => GivesInline(l, string, IF Len(v) < BufferSize THEN v ELSE Content(string))
  PROVE  Abstract!Becomes(v) /\ Kept' /\ (kind = "inline" => Ends)
<1>1. CASE kind = "heap"
  <2>1. string' = h /\ Content(h) = v /\ Len(v) < MaxSize  BY <1>1 DEF Either
  <2>2. Abstract!Becomes(v)  BY <1>1, <2>1 DEF Abstract!Becomes, Abstract!Fits
  <2>3. Kept'  BY <1>1, <2>1 DEF Kept, Limit
  <2> QED  BY <1>1, <2>2, <2>3
<1>2. CASE kind = "inline"
  <2>1. /\ string' = l /\ IsTerminated(l)
        /\ Content(l) = IF Len(v) < BufferSize THEN v ELSE Content(string)
    BY <1>2 DEF Either, GivesInline, Refining, Kept
  <2>2. Abstract!Becomes(v)  BY <1>2, <2>1 DEF Abstract!Becomes, Abstract!Fits
  <2>3. Ends  BY <1>2, <2>1 DEF Ends
  <2>4. Kept'  BY <1>2, <2>1 DEF Kept, Limit, Refining
  <2> QED  BY <2>2, <2>3, <2>4
<1> QED  BY <1>1, <1>2 DEF Refining, IInv

\* The same of a step that leaves a terminator.
LEMMA EitherBecomes ==
  ASSUME Refining, kind' = kind, NEW h, NEW l, NEW v \in Seq(Cell), Either(h, l),
         kind = "heap" => Len(v) < MaxSize /\ Gives(h, string, v),
         kind = "inline" => GivesInline(l, string, IF Len(v) < BufferSize THEN v ELSE Content(string))
  PROVE  Abstract!Becomes(v) /\ Ends /\ Kept'
<1>1. Abstract!Becomes(v) /\ Kept' /\ (kind = "inline" => Ends)  BY EitherHolds DEF Gives
<1>2. ASSUME kind = "heap" PROVE Ends  BY <1>2 DEF Either, Gives, Ends
<1> QED  BY <1>1, <1>2 DEF Refining, IInv

\* Texts of the instance and what it says of their lengths.
LEMMA Short == ASSUME NEW n \in Nat, Fitting(n) PROVE n < MaxSize /\ n <= MaxLength /\ MaxSize \in Nat /\ MaxLength \in Nat
BY TextsAssumption, BuffersAssumption DEF Fitting

\* An object that takes the other's place holds what was made of the text, or nothing.
LEMMA AssignedIs ==
  ASSUME Refining, kind' = kind, NEW t \in Seq(Cell), Assigned(t)
  PROVE  /\ Content(string') = IF Len(t) < Limit THEN t ELSE <<>>
         /\ Ends /\ Kept'
<1>1. Limit \in Nat /\ Limit > 0 /\ IInv /\ Len(<<>>) = 0  BY Limits DEF Refining
<1>2. CASE kind = "heap"
  <2>1. PICK r : r = Heap!construct(t) /\ HeapOk(r)  BY HeapConstruct
  <2>2. PICK q : q = Heap!Replaced(string, r) /\ q.dataVal = r.dataVal /\ q.sizeVal = r.sizeVal /\ Content(q) = Content(r)
    BY <2>1, HeapReplacedIs
  <2>3. string' = q  BY <1>2, <2>1, <2>2 DEF Assigned, Either
  <2>4. Content(q) = IF Len(t) < Limit THEN t ELSE <<>>  BY <1>2, <2>1, <2>2, HeapConstructIs DEF Limit
  <2>5. q.sizeVal > 0 => IsTerminated(q)  BY <2>1, <2>2, HeapConstructIs DEF IsTerminated
  <2>6. Ends  BY <1>2, <2>3, <2>5 DEF Ends
  <2>7. Kept'  BY <1>1, <1>2, <2>3, <2>4 DEF Kept, Limit
  <2> QED  BY <2>3, <2>4, <2>6, <2>7
<1>3. CASE kind = "inline"
  <2>1. PICK r : r = Inline!construct(t) /\ InlineOk(r)  BY InlineConstruct
  <2>2. InlineOk(string)  BY <1>1, <1>3 DEF IInv
  <2>3. PICK q : q = Inline!Replaced(string, r) /\ GivesInline(q, r, Content(r))
    BY <2>1, <2>2, InlineReplacedIs
  <2>4. string' = q  BY <1>3, <2>1, <2>3 DEF Assigned, Either
  <2>5. Content(q) = IF Len(t) < Limit THEN t ELSE <<>>
    BY <1>3, <2>1, <2>3, InlineConstructIs DEF Limit, GivesInline
  <2>6. IsTerminated(q)  BY <2>1, <2>3, InlineConstructIs DEF GivesInline
  <2>7. Ends /\ Kept'  BY <1>1, <1>3, <2>4, <2>5, <2>6 DEF Ends, Kept, Limit
  <2> QED  BY <2>4, <2>5, <2>7
<1> QED  BY <1>1, <1>2, <1>3 DEF IInv

\* The step of Assign.
LEMMA AssignIs ==
  ASSUME Refining, kind' = kind, NEW t \in Texts, Assigned(t)
  PROVE  Abstract!Assign /\ Ends /\ Kept'
<1>1. t \in Seq(Cell)  BY TextsOfCells
<1>2. Content(string') = IF Len(t) < Limit THEN t ELSE <<>>  BY <1>1, AssignedIs
<1>3. Abstract!Assign  BY <1>2 DEF Abstract!Assign, Abstract!Made, Abstract!Fits, Limit
<1> QED  BY <1>1, <1>3, AssignedIs

\* The step of AppendAll.
LEMMA AppendAllIs ==
  ASSUME Refining, kind' = kind, AppendAll
  PROVE  Abstract!AppendAll /\ Ends /\ Kept'
<1>1. PICK t : /\ t \in Addable \cup {Content(string)}
               /\ Fitting(string.sizeVal + Len(t))
               /\ Either(Heap!append(string, t), Inline!append(string, t))
  BY DEF AppendAll
<1>2. t \in Seq(Cell) /\ IInv  BY <1>1, TextsOfCells, OwnContent DEF Addable, Refining
<1>3. PICK v \in Seq(Cell) : v = Content(string) \o t /\ Len(v) = string.sizeVal + Len(t)
  <2>1. PICK w \in Seq(Cell) : w = Content(string) /\ Len(w) = string.sizeVal  BY <1>2, OwnLength
  <2>2. w \o t \in Seq(Cell) /\ Len(w \o t) = Len(w) + Len(t)  BY <1>2, ConcatAt
  <2> QED  BY <2>1, <2>2
<1>4. Len(v) < MaxSize  BY <1>1, <1>3, Short
<1>5. kind = "heap" => Gives(Heap!append(string, t), string, v)
  BY <1>2, <1>3, HeapAppendIs DEF IInv
<1>6. ASSUME kind = "inline"
      PROVE  GivesInline(Inline!append(string, t), string, IF Len(v) < BufferSize THEN v ELSE Content(string))
  <2>1. InlineOk(string)  BY <1>2, <1>6 DEF IInv
  <2>2. GivesInline(Inline!append(string, t), string,
           IF string.sizeVal + Len(t) < BufferSize THEN Content(string) \o t ELSE Content(string))
    BY <1>2, <2>1, InlineAppendIs
  <2> QED  BY <1>3, <2>2
<1>7. Abstract!Becomes(v) /\ Ends /\ Kept'  BY <1>1, <1>4, <1>5, <1>6, EitherBecomes
<1>8. Abstract!AppendAll  BY <1>1, <1>3, <1>7 DEF Abstract!AppendAll, Addable
<1> QED  BY <1>7, <1>8

\* The step of Push.
LEMMA PushIs ==
  ASSUME Refining, kind' = kind, Push
  PROVE  Abstract!Push /\ Ends /\ Kept'
<1>1. PICK c \in Chars : /\ Fitting(string.sizeVal + 1)
                         /\ Either(Heap!emplace_back(string, c), Inline!emplace_back(string, c))
  BY DEF Push
<1>2. IInv  BY DEF Refining
<1>3. c \in Cell /\ Content(string) \in Seq(Cell) /\ Len(Content(string)) = string.sizeVal /\ string.sizeVal \in Nat
  BY <1>2, OwnLength DEF Cell
<1>4. PICK v \in Seq(Cell) : v = Content(string) \o <<c>> /\ v = Append(Content(string), c) /\ Len(v) = string.sizeVal + 1
  <2>1. PICK w \in Seq(Cell) : w = Content(string) /\ Len(w) = string.sizeVal  BY <1>3
  <2>2. w \o <<c>> = Append(w, c) /\ Append(w, c) \in Seq(Cell) /\ Len(Append(w, c)) = Len(w) + 1
    BY <1>3, AppendIsConcat, AppendProperties
  <2> QED  BY <2>1, <2>2
<1>5. Len(v) < MaxSize  BY <1>1, <1>4, Short
<1>6. kind = "heap" => Gives(Heap!emplace_back(string, c), string, v)
  BY <1>2, <1>4, HeapEmplaceBackIs DEF IInv
<1>7. ASSUME kind = "inline"
      PROVE  GivesInline(Inline!emplace_back(string, c), string, IF Len(v) < BufferSize THEN v ELSE Content(string))
  <2>1. InlineOk(string)  BY <1>2, <1>7 DEF IInv
  <2>2. GivesInline(Inline!emplace_back(string, c), string,
           IF string.sizeVal + 1 < BufferSize THEN Content(string) \o <<c>> ELSE Content(string))
    BY <2>1, InlineEmplaceBackIs
  <2> QED  BY <1>4, <2>2
<1>8. Abstract!Becomes(v) /\ Ends /\ Kept'  BY <1>1, <1>5, <1>6, <1>7, EitherBecomes
<1>9. Abstract!Push  BY <1>4, <1>8 DEF Abstract!Push
<1> QED  BY <1>8, <1>9

\* What insert makes, in the words of the abstract specification.
LEMMA Inserted ==
  ASSUME IInv, NEW n \in Nat, n <= string.sizeVal, NEW t \in Seq(Cell)
  PROVE  LET v == Front(Content(string), n) \o t \o Back(Content(string), n)
         IN  v \in Seq(Cell) /\ Len(v) = string.sizeVal + Len(t)
             /\ v = Abstract!Prefix(n) \o t \o Abstract!Suffix(n)
<1>1. PICK w \in Seq(Cell) : w = Content(string) /\ Len(w) = string.sizeVal  BY OwnLength
<1>2. PICK f \in Seq(Cell), b \in Seq(Cell) :
        f = Front(w, n) /\ b = Back(w, n) /\ Len(f) = n /\ Len(b) = string.sizeVal - n
  <2>1. PICK l \in Nat : l = Len(w) /\ l = string.sizeVal /\ n <= l  BY <1>1
  <2>2. /\ Front(w, n) \in Seq(Cell) /\ Len(Front(w, n)) = n
        /\ Back(w, n) \in Seq(Cell) /\ Len(Back(w, n)) = l - n
    BY <2>1, FrontBack
  <2> QED  BY <2>1, <2>2
<1>3. f \o t \o b \in Seq(Cell) /\ Len(f \o t \o b) = Len(f) + Len(t) + Len(b)  OBVIOUS
<1>4. Len(f \o t \o b) = string.sizeVal + Len(t)  BY <1>2, <1>3, OwnLength
<1> QED  BY <1>1, <1>2, <1>3, <1>4 DEF Abstract!Prefix, Abstract!Suffix, Front, Back

\* The step of Insert.
LEMMA InsertIs ==
  ASSUME Refining, kind' = kind, Insert
  PROVE  Abstract!Insert /\ Ends /\ Kept'
<1>1. PICK t \in Addable, n \in Positions : Either(Heap!insert(string, n, t), Inline!insert(string, n, t))
  BY DEF Insert
<1>2. IInv /\ t \in Texts /\ t \in Seq(Cell) /\ Fitting(string.sizeVal + Len(t)) /\ n \in Nat /\ n <= string.sizeVal
  BY <1>1, TextsOfCells, OwnContent DEF Addable, Positions, Refining
<1>3. PICK v \in Seq(Cell) :
        /\ v = Front(Content(string), n) \o t \o Back(Content(string), n)
        /\ v = Abstract!Prefix(n) \o t \o Abstract!Suffix(n) /\ Len(v) = string.sizeVal + Len(t)
  BY <1>2, Inserted
<1>4. Len(v) < MaxSize  BY <1>2, <1>3, Short
<1>5. kind = "heap" => Gives(Heap!insert(string, n, t), string, v)
  BY <1>2, <1>3, HeapInsertIs DEF IInv
<1>6. ASSUME kind = "inline"
      PROVE  GivesInline(Inline!insert(string, n, t), string, IF Len(v) < BufferSize THEN v ELSE Content(string))
  <2>1. InlineOk(string)  BY <1>2, <1>6 DEF IInv
  <2>2. GivesInline(Inline!insert(string, n, t), string,
           IF string.sizeVal + Len(t) < BufferSize
           THEN Front(Content(string), n) \o t \o Back(Content(string), n) ELSE Content(string))
    BY <1>2, <2>1, InlineInsertIs
  <2> QED  BY <1>3, <2>2
<1>7. Abstract!Becomes(v) /\ Ends /\ Kept'  BY <1>1, <1>4, <1>5, <1>6, EitherBecomes
<1>8. n \in 0..Len(Content(string))  BY <1>2, OwnLength
<1>9. Abstract!Insert  BY <1>2, <1>3, <1>7, <1>8 DEF Abstract!Insert
<1> QED  BY <1>7, <1>9

\* The step of InsertOne, which may leave no terminator on the heap.
LEMMA InsertOneIs ==
  ASSUME Refining, kind' = kind, InsertOne
  PROVE  Abstract!InsertOne /\ Kept' /\ (kind = "inline" => Ends)
<1>1. PICK c \in Chars, n \in Positions :
        /\ Fitting(string.sizeVal + 1)
        /\ Either(Heap!insertOne(string, n, c), Inline!insert(string, n, <<c>>))
  BY DEF InsertOne
<1>2. IInv /\ n \in Nat /\ n <= string.sizeVal /\ string.sizeVal \in Nat
  BY <1>1, OwnContent DEF Positions, Refining
<1>3. PICK t \in Seq(Cell) : t = <<c>> /\ Len(t) = 1  BY OneCell
<1>4. PICK v \in Seq(Cell) :
        /\ v = Front(Content(string), n) \o t \o Back(Content(string), n)
        /\ v = Abstract!Prefix(n) \o t \o Abstract!Suffix(n) /\ Len(v) = string.sizeVal + Len(t)
  BY <1>2, Inserted
<1>5. Len(v) < MaxSize  BY <1>1, <1>2, <1>3, <1>4, Short
<1>6. kind = "heap" => Content(Heap!insertOne(string, n, c)) = v
  BY <1>2, <1>3, <1>4, HeapInsertOneIs DEF IInv
<1>7. ASSUME kind = "inline"
      PROVE  GivesInline(Inline!insert(string, n, t), string, IF Len(v) < BufferSize THEN v ELSE Content(string))
  <2>1. InlineOk(string)  BY <1>2, <1>7 DEF IInv
  <2>2. GivesInline(Inline!insert(string, n, t), string,
           IF string.sizeVal + Len(t) < BufferSize
           THEN Front(Content(string), n) \o t \o Back(Content(string), n) ELSE Content(string))
    BY <1>2, <2>1, InlineInsertIs
  <2> QED  BY <1>4, <2>2
<1>8. Either(Heap!insertOne(string, n, c), Inline!insert(string, n, t))  BY <1>1, <1>3
<1>9. Abstract!Becomes(v) /\ Kept' /\ (kind = "inline" => Ends)
  BY <1>5, <1>6, <1>7, <1>8, EitherHolds
<1>10. n \in 0..Len(Content(string))  BY <1>2, OwnLength
<1>11. Abstract!InsertOne  BY <1>3, <1>4, <1>9, <1>10 DEF Abstract!InsertOne
<1> QED  BY <1>9, <1>11

\* What is left when the first characters have gone.
LEMMA SuffixIs ==
  ASSUME IInv, NEW k \in Nat, k <= string.sizeVal
  PROVE  /\ Back(Content(string), k) = Abstract!Suffix(k)
         /\ Len(Back(Content(string), k)) = string.sizeVal - k
         /\ k \in 0..Len(Content(string))
         /\ k = 0 => Back(Content(string), k) = Content(string)
         /\ k = string.sizeVal => Back(Content(string), k) = <<>>
<1>1. PICK w \in Seq(Cell) : w = Content(string) /\ Len(w) = string.sizeVal  BY OwnLength
<1>2. PICK l \in Nat : l = Len(w) /\ l = string.sizeVal /\ k <= l  BY <1>1
<1>3. Back(w, k) \in Seq(Cell) /\ Len(Back(w, k)) = l - k  BY <1>2, FrontBack
<1>4. k = 0 => Back(w, k) = w  BY DEF Back
<1>5. k = l => Back(w, k) = <<>>  BY <1>3
<1> QED  BY <1>1, <1>2, <1>3, <1>4, <1>5 DEF Abstract!Suffix, Back

\* A step after which the first k characters have gone.
LEMMA CutOff ==
  ASSUME Refining, kind' = kind, NEW k \in Nat, k <= string.sizeVal,
         Content(string') = Back(Content(string), k), kind = "inline" => IsTerminated(string')
  PROVE  Abstract!Erase /\ Kept'
<1>1. IInv  BY DEF Refining
<1>2. Abstract!Erase  BY <1>1, SuffixIs DEF Abstract!Erase
<1>3. Len(Content(string')) <= Len(Content(string)) /\ Len(Content(string')) \in Nat /\ Len(Content(string)) \in Nat
  BY <1>1, SuffixIs, OwnLength
<1>4. Limit \in Nat /\ Limit' = Limit  BY <1>1, Limits DEF Limit
<1>5. Len(Content(string')) < Limit  BY <1>3, <1>4 DEF Refining, Kept
<1> QED  BY <1>2, <1>4, <1>5 DEF Kept

\* The step of Erase.
LEMMA EraseStepIs ==
  ASSUME Refining, kind' = kind, Erase
  PROVE  Abstract!Erase /\ Ends /\ Kept'
<1>1. PICK n \in 0..(string.sizeVal + 1) : string.dataVal # <<>> /\ string' = erase(string, n)  BY DEF Erase
<1>2. IInv /\ n \in Nat /\ string.sizeVal \in Nat  BY <1>1, OwnContent DEF Refining
<1>3. Held(string) /\ string.sizeVal < Len(string.dataVal)
  <2>1. CASE kind = "heap"
    <3>1. HeapOk(string)  BY <1>2, <2>1 DEF IInv
    <3>2. Len(string.dataVal) # 0  BY <1>1, <3>1, HeapFields
    <3>3. Len(string.dataVal) = string.capacityVal + 1 /\ string.sizeVal <= string.capacityVal
      BY <3>1, <3>2 DEF HeapOk
    <3> QED  BY <3>1, <3>3, HeapFields, OkHeld
  <2>2. CASE kind = "inline"
    <3>1. InlineOk(string)  BY <1>2, <2>2 DEF IInv
    <3> QED  BY <3>1, InlineHeld
  <2> QED  BY <1>2, <2>1, <2>2 DEF IInv
<1>4. CASE n = 0
  <2>1. string' = string  BY <1>1, <1>4 DEF erase
  <2>2. kind = "inline" => IsTerminated(string')  BY <2>1 DEF Refining, Kept
  <2>3. Content(string') = Back(Content(string), n)  BY <1>2, <1>4, <2>1, SuffixIs
  <2>4. n <= string.sizeVal  BY <1>2, <1>4
  <2>5. Ends  BY <1>2, <2>1, <2>2 DEF Ends, IInv
  <2> QED  BY <1>2, <2>2, <2>3, <2>4, <2>5, CutOff
<1>5. CASE n # 0
  <2>1. PICK k \in Nat : k = Lesser(n, string.sizeVal)  BY <1>2 DEF Lesser
  <2>2. /\ k <= string.sizeVal /\ IsTerminated(string')
        /\ Content(string') = Back(Content(string), k)
    BY <1>1, <1>2, <1>3, <1>5, <2>1, EraseIs
  <2>3. Ends  BY <2>2 DEF Ends
  <2> QED  BY <2>2, <2>3, CutOff
<1> QED  BY <1>4, <1>5

\* A step that leaves no character.
LEMMA EmptiedIs ==
  ASSUME Refining, kind' = kind, IInv', Content(string') = <<>>, kind = "inline" => IsTerminated(string')
  PROVE  Abstract!Erase /\ Ends /\ Kept'
<1>1. IInv /\ string.sizeVal \in Nat  BY OwnContent DEF Refining
<1>2. PICK k \in Nat : k = string.sizeVal /\ k <= string.sizeVal  BY <1>1
<1>3. Content(string') = Back(Content(string), k)  BY <1>1, <1>2, SuffixIs
<1>4. Abstract!Erase /\ Kept'  BY <1>2, <1>3, CutOff
<1>5. string'.sizeVal = 0
  <2>1. Len(Content(string')) = string'.sizeVal  BY HeapContent, InlineContent DEF IInv
  <2> QED  BY <2>1
<1> QED  BY <1>1, <1>4, <1>5 DEF Ends, IInv

\* The steps of Clear and MoveOut.
LEMMA ClearIs ==
  ASSUME Refining, kind' = kind, Clear
  PROVE  Abstract!Erase /\ Ends /\ Kept'
<1>1. IInv /\ IInv'  BY ClearKeeps DEF Refining
<1>2. Content(string') = <<>> /\ (kind = "inline" => IsTerminated(string'))
  BY <1>1, HeapClearIs, InlineClearIs DEF Clear, Either, IInv
<1> QED  BY <1>1, <1>2, EmptiedIs

\* The same of an object whose content was moved away.
LEMMA MoveOutIs ==
  ASSUME Refining, kind' = kind, MoveOut
  PROVE  Abstract!Erase /\ Ends /\ Kept'
<1>1. IInv /\ IInv'  BY MoveOutKeeps DEF Refining
<1>2. CASE kind = "heap"
  <2>1. string' = [Heap!Null EXCEPT !.freed = string.freed]  BY <1>2 DEF MoveOut, Either
  <2>2. string'.dataVal = Heap!Null.dataVal /\ string'.sizeVal = Heap!Null.sizeVal  BY <2>1 DEF Heap!Null
  <2>3. Content(string') = Content(Heap!Null)  BY <2>2 DEF Content
  <2> QED  BY <1>1, <1>2, <2>3, HeapNullIs, EmptiedIs
<1>3. CASE kind = "inline"
  <2>1. PICK q : q = Inline!Replaced(string, Inline!Empty) /\ string' = q  BY <1>3 DEF MoveOut, Either
  <2>2. GivesInline(q, Inline!Empty, Content(Inline!Empty))
    BY <1>1, <1>3, <2>1, InlineEmpty, InlineReplacedIs DEF IInv
  <2>3. Content(string') = <<>> /\ IsTerminated(string')
    BY <2>1, <2>2, InlineEmptyIs DEF GivesInline
  <2> QED  BY <1>1, <2>3, EmptiedIs
<1> QED  BY <1>1, <1>2, <1>3 DEF IInv

\* What the default object and construct hold fits.
LEMMA Filling ==
  ASSUME IInv, NEW m \in Nat
  PROVE  /\ Filled(NUL, m) = Abstract!NULs(m) /\ Len(Filled(NUL, m)) = m
         /\ Filled(NUL, m) \in Seq(Cell)
         /\ m = 0 => Filled(NUL, m) = <<>>
BY FilledCells DEF Cell, Filled, Abstract!NULs

\* A step after which the object holds as many terminators as the template says.
LEMMA RenewedIs ==
  ASSUME Refining, kind' = kind, NEW m \in Nat, m < Limit, Content(string') = Filled(NUL, m),
         kind = "inline" => IsTerminated(string')
  PROVE  Abstract!Renew /\ Kept'
<1>1. Len(Content(string')) = m /\ Content(string') = Abstract!NULs(m)  BY Filling DEF Refining
<1> QED  BY <1>1 DEF Abstract!Renew, Kept, Limit

\* The object that was made anew.
LEMMA NewIs ==
  ASSUME IInv, NEW v, v = IF kind = "heap" THEN Content(Heap!New) ELSE Content(Inline!New)
  PROVE  \E m \in Nat : m < Limit /\ v = Filled(NUL, m)
<1>1. CASE kind = "heap"
  <2>1. NewerSize \in Nat /\ NewerSize < MaxSize  BY BuffersAssumption
  <2> QED  BY <1>1, <2>1, HeapNewIs DEF Limit
<1>2. CASE kind = "inline"
  <2>1. InlineSize \in Nat /\ BufferSize \in Nat /\ 0 < BufferSize  BY BuffersAssumption
  <2>2. PICK m \in Nat : m = IF InlineSize < BufferSize THEN InlineSize ELSE 0  BY <2>1
  <2>3. v = Filled(NUL, m)  BY <1>2, <2>2, InlineNewIs, Filling
  <2>4. m < BufferSize  BY <2>1, <2>2
  <2> QED  BY <1>2, <2>3, <2>4 DEF Limit
<1> QED  BY <1>1, <1>2 DEF IInv

\* The step of Renew.
LEMMA RenewIs ==
  ASSUME Refining, kind' = kind, Renew
  PROVE  Abstract!Renew /\ Ends /\ Kept'
<1>1. IInv  BY DEF Refining
<1>2. Content(string') = IF kind = "heap" THEN Content(Heap!New) ELSE Content(Inline!New)
  BY <1>1, HeapNew, HeapReplacedIs DEF Renew, Either, IInv
<1>3. PICK m \in Nat : m < Limit /\ Content(string') = Filled(NUL, m)  BY <1>1, <1>2, NewIs
<1>4. Ends
  <2>1. CASE kind = "heap"
    <3>1. PICK r : r = Heap!New /\ HeapOk(r)  BY HeapNew
    <3>2. PICK q : q = Heap!Replaced(string, r) /\ q.dataVal = r.dataVal /\ q.sizeVal = r.sizeVal
      BY <3>1, HeapReplacedIs
    <3>3. string' = q  BY <2>1, <3>1, <3>2 DEF Renew, Either
    <3>4. q.sizeVal > 0 => IsTerminated(q)  BY <3>1, <3>2, HeapNewIs DEF IsTerminated
    <3> QED  BY <2>1, <3>3, <3>4 DEF Ends
  <2>2. CASE kind = "inline"  BY <2>2, InlineNewIs DEF Ends, Renew, Either
  <2> QED  BY <1>1, <2>1, <2>2 DEF IInv
<1>5. kind = "inline" => IsTerminated(string')  BY <1>4 DEF Ends
<1> QED  BY <1>3, <1>4, <1>5, RenewedIs

\* The step of Substr: a part of the content, or a new object when none was asked for.
LEMMA SubstrIs ==
  ASSUME Refining, kind' = kind, Substr
  PROVE  (Abstract!Cut \/ Abstract!Renew) /\ Ends /\ Kept'
<1>1. PICK i \in 0..(string.sizeVal - 1), count \in 0..MaxLength :
        Assigned(Content(IF kind = "heap" THEN Heap!substr(string, i, count)
                         ELSE Inline!substr(string, i, count)))
  BY DEF Substr
<1>2. IInv /\ i \in Nat /\ i < string.sizeVal /\ count \in Nat /\ string.sizeVal \in Nat
  BY <1>1, OwnContent, TextsAssumption DEF Refining
<1>3. PICK r : r = IF kind = "heap" THEN Heap!substr(string, i, count) ELSE Inline!substr(string, i, count)
  OBVIOUS
<1>4. PICK d \in Nat : d = string.sizeVal - i  BY <1>2
<1>5. PICK n \in Nat : n = Lesser(count, string.sizeVal - i)  BY <1>2, <1>4 DEF Lesser
<1>6. PICK j \in Nat : j = i + n  BY <1>2
<1>7. /\ j <= string.sizeVal
      /\ n = 0 => r = IF kind = "heap" THEN Heap!New ELSE Inline!New
      /\ n # 0 => Content(r) = Between(Content(string), i, j)
  <2>1. CASE kind = "heap"
    <3>1. HeapOk(string)  BY <1>2, <2>1 DEF IInv
    <3> QED  BY <1>2, <1>3, <1>5, <1>6, <2>1, <3>1, HeapSubstrIs
  <2>2. CASE kind = "inline"
    <3>1. InlineOk(string)  BY <1>2, <2>2 DEF IInv
    <3> QED  BY <1>2, <1>3, <1>5, <1>6, <2>2, <3>1, InlineSubstrIs
  <2> QED  BY <1>2, <2>1, <2>2 DEF IInv
<1>8. PICK l \in Nat : l = Limit  BY <1>2, Limits
<1>9. CASE n = 0
  <2>1. PICK m \in Nat : m < l /\ Content(r) = Filled(NUL, m)
    <3>1. Content(r) = IF kind = "heap" THEN Content(Heap!New) ELSE Content(Inline!New)
      BY <1>7, <1>9
    <3> QED  BY <1>2, <1>8, <3>1, NewIs
  <2>2. PICK v \in Seq(Cell) : v = Filled(NUL, m) /\ Len(v) = m  BY <1>2, Filling
  <2>3. Assigned(v)  BY <1>1, <1>3, <2>1, <2>2
  <2>4. Content(string') = v /\ Ends /\ Kept'  BY <1>8, <2>1, <2>2, <2>3, AssignedIs
  <2>5. kind = "inline" => IsTerminated(string')  BY <2>4 DEF Ends
  <2> QED  BY <1>8, <2>1, <2>2, <2>4, <2>5, RenewedIs
<1>10. CASE n # 0
  <2>1. PICK w \in Seq(Cell) : w = Content(string) /\ Len(w) = string.sizeVal  BY <1>2, OwnLength
  <2>2. i <= j /\ j <= Len(w)  BY <1>6, <1>7, <2>1
  <2>3. PICK v \in Seq(Cell) : v = Between(w, i, j) /\ Len(v) = j - i
    <3>1. Between(w, i, j) \in Seq(Cell) /\ Len(Between(w, i, j)) = j - i  BY <1>2, <2>2, BetweenCells
    <3> QED  BY <3>1
  <2>4. Assigned(v)  BY <1>1, <1>3, <1>7, <1>10, <2>1, <2>3
  <2>5. Len(v) < Limit
    <3>1. Len(v) <= Len(w)  BY <1>6, <2>2, <2>3
    <3>2. Len(w) < l  BY <1>8, <2>1 DEF Refining, Kept
    <3> QED  BY <1>8, <2>1, <2>3, <3>1, <3>2
  <2>6. Content(string') = v /\ Ends /\ Kept'  BY <2>4, <2>5, AssignedIs
  <2>7. i \in 0..Len(w) /\ n \in 0..(Len(w) - i)  BY <1>2, <1>6, <1>7, <2>1
  <2>8. v = SubSeq(w, i + 1, i + n)  BY <1>6, <2>3 DEF Between
  <2>9. Abstract!Cut  BY <2>1, <2>6, <2>7, <2>8 DEF Abstract!Cut
  <2> QED  BY <2>6, <2>9
<1> QED  BY <1>9, <1>10

\* The step of Reserve, which nobody sees.
LEMMA ReserveIs ==
  ASSUME Refining, kind' = kind, Reserve
  PROVE  Content(string') = Content(string) /\ Ends /\ Kept'
<1>1. IInv  BY DEF Refining
<1>2. PICK n \in Capacities : Either(Heap!reserve(string, n), string)  BY DEF Reserve
<1>3. CASE kind = "heap"
  <2>1. HeapOk(string) /\ n \in Nat  BY <1>1, <1>3, TextsAssumption DEF IInv
  <2>2. string' = Heap!reserve(string, n)  BY <1>2, <1>3 DEF Either
  <2>3. Content(string') = Content(string) /\ string'.sizeVal = string.sizeVal
    BY <2>1, <2>2, HeapReserve, HeapReserveIs
  <2> QED  BY <1>3, <2>3 DEF Ends, Kept, Limit, Refining
<1>4. CASE kind = "inline"
  <2>1. string' = string  BY <1>2, <1>4 DEF Either
  <2> QED  BY <1>4, <2>1 DEF Ends, Kept, Limit, Refining
<1> QED  BY <1>1, <1>3, <1>4 DEF IInv

\* The step of Resize.
LEMMA ResizeIs ==
  ASSUME Refining, kind' = kind, Resize
  PROVE  Abstract!Resize /\ Ends /\ Kept'
<1>1. PICK n \in Sizes : Fitting(n) /\ Either(Heap!resize(string, n), Inline!resize(string, n))
  BY DEF Resize
<1>2. IInv /\ n \in Nat /\ n < MaxSize /\ string.sizeVal \in Nat
  BY <1>1, TextsAssumption, Short, OwnContent DEF Refining
<1>3. PICK w \in Seq(Cell) : w = Content(string) /\ Len(w) = string.sizeVal  BY <1>2, OwnLength
<1>4. CASE n <= string.sizeVal
  <2>1. PICK l \in Nat : l = Len(w) /\ n <= l  BY <1>3, <1>4
  <2>2. PICK v \in Seq(Cell) : v = Front(w, n) /\ Len(v) = n
    <3>1. Front(w, n) \in Seq(Cell) /\ Len(Front(w, n)) = n  BY <1>2, <2>1, FrontBack
    <3> QED  BY <3>1
  <2>3. kind = "heap" => Gives(Heap!resize(string, n), string, v)
    BY <1>2, <1>3, <1>4, <2>2, HeapShrinkIs DEF IInv
  <2>4. ASSUME kind = "inline"
        PROVE  GivesInline(Inline!resize(string, n), string, IF Len(v) < BufferSize THEN v ELSE Content(string))
    <3>1. InlineOk(string)  BY <1>2, <2>4 DEF IInv
    <3>2. Len(v) < BufferSize  BY <1>2, <1>4, <2>2, <3>1, InlineFields
    <3> QED  BY <1>2, <1>3, <1>4, <2>2, <3>1, <3>2, InlineShrinkIs
  <2>5. Abstract!Becomes(v) /\ Ends /\ Kept'  BY <1>1, <1>2, <2>2, <2>3, <2>4, EitherBecomes
  <2>6. v = Abstract!Prefix(n) /\ n <= Len(Content(string))
    BY <1>3, <2>1, <2>2 DEF Abstract!Prefix, Front
  <2> QED  BY <2>5, <2>6 DEF Abstract!Resize
<1>5. CASE n > string.sizeVal
  <2>1. PICK k \in Nat : k = n - string.sizeVal  BY <1>2, <1>5
  <2>2. PICK f \in Seq(Cell) : f = Filled(NUL, k) /\ Len(f) = k /\ f = Abstract!NULs(k)  BY <1>2, Filling
  <2>3. PICK v \in Seq(Cell) : v = w \o f /\ Len(v) = n
    <3>1. w \o f \in Seq(Cell) /\ Len(w \o f) = Len(w) + Len(f)  BY ConcatAt
    <3>2. Len(w) + Len(f) = n  BY <1>2, <1>3, <2>1, <2>2
    <3> QED  BY <3>1, <3>2
  <2>4. kind = "heap" => Gives(Heap!resize(string, n), string, v)
    BY <1>2, <1>3, <1>5, <2>1, <2>2, <2>3, HeapGrowIs DEF IInv
  <2>5. ASSUME kind = "inline"
        PROVE  GivesInline(Inline!resize(string, n), string, IF Len(v) < BufferSize THEN v ELSE Content(string))
    <3>1. InlineOk(string)  BY <1>2, <2>5 DEF IInv
    <3>2. GivesInline(Inline!resize(string, n), string,
                      IF n < BufferSize THEN Content(string) \o Filled(NUL, k) ELSE Content(string))
      BY <1>2, <1>5, <2>1, <3>1, InlineGrowIs
    <3> QED  BY <1>3, <2>2, <2>3, <3>2
  <2>6. Abstract!Becomes(v) /\ Ends /\ Kept'  BY <1>1, <1>2, <2>3, <2>4, <2>5, EitherBecomes
  <2>7. v = Content(string) \o Abstract!NULs(n - Len(Content(string))) /\ ~(n <= Len(Content(string)))
    BY <1>2, <1>3, <1>5, <2>1, <2>2, <2>3
  <2> QED  BY <2>6, <2>7 DEF Abstract!Resize
<1> QED  BY <1>2, <1>4, <1>5

\* The step of Receive: the length, the characters, and the terminator of the resize.
LEMMA ReceiveIs ==
  ASSUME Refining, kind' = kind, Receive
  PROVE  Abstract!Assign /\ Ends /\ Kept'
<1> DEFINE Given(t) == IF string.sizeVal # Len(t) THEN Heap!resize(string, Len(t)) ELSE string
<1>1. kind = "heap" /\ HeapOk(string) /\ string.sizeVal \in Nat  BY HeapFields DEF Receive, IInv, Refining
<1>2. PICK t \in Texts : Fitting(Len(t)) /\ string' = [Given(t) EXCEPT !.dataVal = Written(@, 0, t)]
  BY DEF Receive
<1>3. t \in Seq(Cell) /\ Len(t) \in Nat  BY TextsOfCells
<1>4. PICK n \in Nat : n = Len(t) /\ n < MaxSize  BY <1>2, <1>3, Short
<1>5. PICK s : s = Given(t)  OBVIOUS
<1>6. HeapOk(s) /\ s.sizeVal = n  BY <1>1, <1>4, <1>5, HeapResize
<1>7. string.sizeVal # n /\ n > 0 => IsTerminated(s)
  <2>1. SUFFICES ASSUME string.sizeVal # n, n > 0 PROVE IsTerminated(s)  OBVIOUS
  <2>2. s = Heap!resize(string, n)  BY <1>4, <1>5, <2>1
  <2>3. CASE n <= string.sizeVal
    <3>1. Gives(s, string, Front(Content(string), n))  BY <1>1, <2>2, <2>3, HeapShrinkIs
    <3> QED  BY <1>6, <2>1, <3>1 DEF Gives
  <2>4. CASE n > string.sizeVal
    <3>1. PICK k \in Nat : k = n - string.sizeVal  BY <1>1, <2>4
    <3>2. Gives(s, string, Content(string) \o Filled(NUL, k))  BY <1>1, <2>2, <2>4, <3>1, HeapGrowIs
    <3> QED  BY <1>6, <2>1, <3>2 DEF Gives
  <2> QED  BY <1>1, <2>3, <2>4
<1>8. PICK o \in Nat : o = 0  OBVIOUS
<1>9. PICK r : r = [s EXCEPT !.dataVal = Written(s.dataVal, o, t)]  OBVIOUS
<1>10. string' = r  BY <1>2, <1>5, <1>8, <1>9
<1> HIDE DEF Given
<1>11. HeapOk(r) /\ r.sizeVal = n  BY <1>3, <1>6, <1>9, HeapWritten
<1>12. s.dataVal \in Seq(Cell) /\ n <= Len(s.dataVal) /\ Len(s.dataVal) \in Nat  BY <1>6, HeapFields
<1>13. Begins(Written(s.dataVal, o, t), t)  BY <1>3, <1>4, <1>8, <1>12, WrittenFirst
<1>14. r.dataVal = Written(s.dataVal, o, t)  BY <1>6, <1>9 DEF HeapOk, HeapStrings
<1>15. Content(r) = t
  <2>1. Held(r)  BY <1>11, OkHeld
  <2>2. Len(t) = r.sizeVal /\ Begins(r.dataVal, t)  BY <1>4, <1>11, <1>13, <1>14
  <2> QED  BY <1>3, <2>1, <2>2, ContentIs
<1>16. string.sizeVal # n /\ n > 0 => IsTerminated(r)
  <2>1. SUFFICES ASSUME string.sizeVal # n, n > 0 PROVE IsTerminated(r)  OBVIOUS
  <2>2. s.dataVal[n + 1] = NUL  BY <1>6, <1>7, <2>1 DEF IsTerminated
  <2>3. PICK k \in 1..Len(s.dataVal), j \in Int : k = n + 1 /\ j = n + 1 /\ k = o + j
    <3>1. n < Len(s.dataVal)
      <4>1. s.capacityVal > 0  BY <1>6, <2>1, HeapFields
      <4> QED  BY <1>6, <4>1, OkHeld
    <3> QED  BY <1>8, <1>12, <3>1
  <2>4. j \notin 1..Len(t)  BY <1>4, <2>3
  <2>5. Written(s.dataVal, o, t)[k] = s.dataVal[k]  BY <1>3, <1>12, <2>3, <2>4, WrittenAt
  <2> QED  BY <1>11, <1>14, <2>2, <2>3, <2>5 DEF IsTerminated
<1>17. Abstract!Assign  BY <1>1, <1>2, <1>4, <1>10, <1>15 DEF Abstract!Assign, Abstract!Made, Abstract!Fits
<1>18. Ends  BY <1>1, <1>10, <1>11, <1>16 DEF Ends
<1>19. Kept'  BY <1>1, <1>4, <1>10, <1>15 DEF Kept, Limit
<1> QED  BY <1>17, <1>18, <1>19

\* The step of Prepend: the content comes behind the text, in an object of its own.
LEMMA PrependIs ==
  ASSUME Refining, kind' = kind, Prepend
  PROVE  Abstract!Prepend /\ Ends /\ Kept'
<1> DEFINE H(t) == Heap!Replaced(string, Heap!construct(Content(Heap!append(Heap!construct(t), Content(string)))))
           L(t) == Inline!Replaced(string, Inline!append(Inline!construct(t), Content(string)))
<1>1. PICK t \in Addable : Either(H(t), L(t))  BY DEF Prepend
<1>2. IInv /\ t \in Texts /\ t \in Seq(Cell) /\ Fitting(string.sizeVal + Len(t)) /\ string.sizeVal \in Nat
  BY <1>1, TextsOfCells, OwnContent DEF Addable, Refining
<1>3. PICK w \in Seq(Cell) : w = Content(string) /\ Len(w) = string.sizeVal  BY <1>2, OwnLength
<1>4. PICK v \in Seq(Cell) : v = t \o w /\ Len(v) = Len(t) + Len(w)
  <2>1. t \o w \in Seq(Cell) /\ Len(t \o w) = Len(t) + Len(w)  BY <1>2, ConcatAt
  <2> QED  BY <2>1
<1>5. CASE kind = "heap"
  <2>1. Len(v) < MaxSize /\ Len(t) < MaxSize  BY <1>2, <1>3, <1>4, Short
  <2>2. PICK c : c = Heap!construct(t) /\ HeapOk(c) /\ Content(c) = t
    BY <1>2, <2>1, HeapConstruct, HeapConstructIs
  <2>3. PICK f : f = Heap!append(c, w) /\ HeapOk(f) /\ Content(f) = v
    BY <1>4, <2>2, HeapAppend, HeapAppendIs DEF Gives
  <2>4. PICK r : r = Heap!construct(v) /\ HeapOk(r) /\ Content(r) = v /\ (r.sizeVal > 0 => IsTerminated(r))
    BY <2>1, HeapConstruct, HeapConstructIs
  <2>5. PICK q : q = Heap!Replaced(string, r) /\ q.dataVal = r.dataVal /\ q.sizeVal = r.sizeVal /\ Content(q) = v
    BY <2>4, HeapReplacedIs
  <2>6. string' = q  BY <1>1, <1>3, <1>5, <2>2, <2>3, <2>4, <2>5 DEF Either
  <2>7. Abstract!Prepend
    BY <1>2, <1>3, <1>4, <1>5, <2>1, <2>5, <2>6 DEF Abstract!Prepend, Abstract!Made, Abstract!Fits
  <2>8. Ends  BY <1>5, <2>4, <2>5, <2>6 DEF Ends, IsTerminated
  <2>9. Kept'  BY <1>5, <2>1, <2>5, <2>6 DEF Kept, Limit
  <2> QED  BY <2>7, <2>8, <2>9
<1>6. CASE kind = "inline"
  <2>1. InlineOk(string) /\ BufferSize \in Nat /\ 0 < BufferSize  BY <1>2, <1>6, BuffersAssumption DEF IInv
  <2>2. PICK m \in Seq(Cell) : m = IF Len(t) < BufferSize THEN t ELSE <<>>
    <3>1. <<>> \in Seq(Cell)  OBVIOUS
    <3> QED  BY <1>2, <3>1
  <2>3. PICK c : c = Inline!construct(t) /\ InlineOk(c) /\ Content(c) = m /\ IsTerminated(c)
    BY <1>2, <2>2, InlineConstruct, InlineConstructIs
  <2>4. c.sizeVal = Len(m)  BY <2>3, InlineContent
  <2>5. PICK f : f = Inline!append(c, w) /\ InlineOk(f)  BY <2>3, InlineAppend
  <2>6. GivesInline(f, c, IF c.sizeVal + Len(w) < BufferSize THEN Content(c) \o w ELSE Content(c))
    BY <2>3, <2>5, InlineAppendIs
  <2>7. m \o w \in Seq(Cell) /\ Len(m \o w) = Len(m) + Len(w)  BY ConcatAt
  <2>8. IsTerminated(f) /\ Content(f) = IF Len(m \o w) < BufferSize THEN m \o w ELSE m
    BY <2>3, <2>4, <2>6, <2>7 DEF GivesInline
  <2>9. PICK q : q = Inline!Replaced(string, f) /\ Content(q) = Content(f) /\ IsTerminated(q)
    BY <2>1, <2>5, <2>8, InlineReplacedIs DEF GivesInline
  <2>10. string' = q  BY <1>1, <1>3, <1>6, <2>3, <2>5, <2>9 DEF Either
  <2>11. m = Abstract!Made(t)  BY <1>6, <2>2 DEF Abstract!Made, Abstract!Fits
  <2>12. Abstract!Prepend
    BY <1>2, <1>3, <1>6, <2>8, <2>9, <2>10, <2>11 DEF Abstract!Prepend, Abstract!Fits
  <2>13. Len(m) < BufferSize
    <3>1. Len(<<>>) = 0  OBVIOUS
    <3> QED  BY <2>1, <2>2, <3>1
  <2>14. Len(Content(q)) < BufferSize  BY <2>8, <2>9, <2>13
  <2>15. Ends /\ Kept'  BY <1>6, <2>9, <2>10, <2>14 DEF Ends, Kept, Limit
  <2> QED  BY <2>12, <2>15
<1> QED  BY <1>2, <1>5, <1>6 DEF IInv

\* Every step is one of the abstract specification, or none, and ends as it should.
LEMMA NextIs ==
  ASSUME Refining, Next
  PROVE  /\ Abstract!Next \/ Content(string') = Content(string)
         /\ (kind = "inline" => Ends) /\ (Ends \/ InsertOne) /\ Kept'
<1>1. kind' = kind  BY DEF Next
<1>2. CASE Assign
  <2>1. PICK t \in Texts : Assigned(t)  BY <1>2 DEF Assign
  <2>2. Abstract!Assign /\ Ends /\ Kept'  BY <1>1, <2>1, AssignIs
  <2> QED  BY <1>1, <2>2 DEF Abstract!Next
<1>3. CASE AppendAll  BY <1>1, <1>3, AppendAllIs DEF Abstract!Next
<1>4. CASE Prepend    BY <1>1, <1>4, PrependIs DEF Abstract!Next
<1>5. CASE Push       BY <1>1, <1>5, PushIs DEF Abstract!Next
<1>6. CASE Insert     BY <1>1, <1>6, InsertIs DEF Abstract!Next
<1>7. CASE InsertOne  BY <1>1, <1>7, InsertOneIs DEF Abstract!Next
<1>8. CASE Erase      BY <1>1, <1>8, EraseStepIs DEF Abstract!Next
<1>9. CASE Substr     BY <1>1, <1>9, SubstrIs DEF Abstract!Next
<1>10. CASE Resize    BY <1>1, <1>10, ResizeIs DEF Abstract!Next
<1>11. CASE Reserve   BY <1>1, <1>11, ReserveIs
<1>12. CASE Clear     BY <1>1, <1>12, ClearIs DEF Abstract!Next
<1>13. CASE Renew     BY <1>1, <1>13, RenewIs DEF Abstract!Next
<1>14. CASE MoveOut   BY <1>1, <1>14, MoveOutIs DEF Abstract!Next
<1>15. CASE Receive   BY <1>1, <1>15, ReceiveIs DEF Abstract!Next
<1> QED
  BY <1>2, <1>3, <1>4, <1>5, <1>6, <1>7, <1>8, <1>9, <1>10, <1>11, <1>12, <1>13, <1>14, <1>15 DEF Next

\* A new object is one of the abstract specification, and terminated if inline.
LEMMA InitIs == ASSUME Init PROVE Abstract!Init /\ Kept
<1>1. IInv  BY HeapNew, InlineNew DEF Init, IInv
<1>2. Content(string) = IF kind = "heap" THEN Content(Heap!New) ELSE Content(Inline!New)
  BY DEF Init
<1>3. PICK l \in Nat : l = Limit  BY <1>1, Limits
<1>4. PICK m \in Nat : m < l /\ Content(string) = Filled(NUL, m)  BY <1>1, <1>2, <1>3, NewIs
<1>5. Content(string) = Abstract!NULs(m) /\ Len(Content(string)) = m  BY <1>1, <1>4, Filling
<1>6. kind = "inline" => IsTerminated(string)  BY InlineNewIs DEF Init
<1>7. Abstract!Init
  <2>1. l = IF kind = "heap" THEN MaxSize ELSE BufferSize  BY <1>3 DEF Limit
  <2> QED  BY <1>4, <1>5, <2>1 DEF Abstract!Init, Abstract!Fits
<1> QED  BY <1>3, <1>4, <1>5, <1>6, <1>7 DEF Kept

\* The invariant that the refinement rests on holds in every state.
LEMMA RefiningAlways == Spec => []Refining
<1>1. Init => Refining  BY HeapNew, InlineNew, InitIs DEF Init, IInv, Refining
<1>2. Refining /\ [Next]_vars => Refining'
  <2>1. SUFFICES ASSUME Refining, [Next]_vars PROVE Refining'  OBVIOUS
  <2>2. IInv'  BY <2>1, NextKeeps DEF Refining
  <2>3. CASE UNCHANGED vars  BY <2>1, <2>3 DEF vars, Refining, IInv, Kept, Limit
  <2>4. CASE Next  BY <2>1, <2>2, <2>4, NextIs DEF Refining
  <2> QED  BY <2>1, <2>3, <2>4
<1> QED  BY <1>1, <1>2, PTL DEF Spec

\* After any step but insert of one character a string whose length is another and not
\* 0 can be read as a C string, for every text, size, capacity and limit; inline always.
THEOREM TerminatorAlways == Spec => TerminatorFollows
<1>1. Refining /\ [Next]_vars =>
        [IF kind = "heap"
         THEN string.sizeVal # string'.sizeVal /\ string'.sizeVal > 0 => IsTerminated(string') \/ InsertOne
         ELSE IsTerminated(string')]_vars
  <2>1. SUFFICES ASSUME Refining, Next
                 PROVE  IF kind = "heap"
                        THEN string.sizeVal # string'.sizeVal /\ string'.sizeVal > 0
                               => IsTerminated(string') \/ InsertOne
                        ELSE IsTerminated(string')
    OBVIOUS
  <2>2. (kind = "inline" => Ends) /\ (Ends \/ InsertOne)  BY <2>1, NextIs
  <2>3. kind \in {"heap", "inline"}  BY <2>1 DEF Refining, IInv
  <2> QED  BY <2>2, <2>3 DEF Ends
<1> QED  BY <1>1, RefiningAlways, PTL DEF Spec, TerminatorFollows

\* A string of either kind does to its characters what StringSpec says its operations
\* do, whatever it allocates, moves and leaves behind.
THEOREM ImplementsStringSpec == Spec => Implements
<1>1. Init => Abstract!Init  BY InitIs
<1>2. Refining /\ [Next]_vars =>
        [Abstract!Next]_<<Content(string), IF kind = "heap" THEN MaxSize ELSE BufferSize>>
  <2>1. SUFFICES ASSUME Refining, [Next]_vars
                 PROVE  \/ Abstract!Next
                        \/ UNCHANGED <<Content(string), IF kind = "heap" THEN MaxSize ELSE BufferSize>>
    OBVIOUS
  <2>2. CASE UNCHANGED vars  BY <2>2 DEF vars
  <2>3. CASE Next  BY <2>1, <2>3, NextIs DEF Next
  <2> QED  BY <2>1, <2>2, <2>3
<1> QED  BY <1>1, <1>2, RefiningAlways, PTL DEF Spec, Implements, Abstract!Spec
================================================================================
