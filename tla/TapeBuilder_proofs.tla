--------------------------- MODULE TapeBuilder_proofs ---------------------------
(***************************************************************************)
(* The tape has room and ends where the document does, and Stage 1         *)
(* implements TapeSpec: for every document, width of a mask up to 64 bits, *)
(* blocks to a step and entries written at a time.                         *)
(***************************************************************************)
EXTENDS TapeBuilder, FiniteSetTheorems, TLAPS

-------------------------------------------------------------------------------
\* A set of naturals that is not empty has a least element.
LEMMA LeastNat == ASSUME NEW T, T \subseteq Nat, T # {} PROVE \E x \in T : \A y \in T : x <= y
<1> DEFINE Below(n) == 0..(n - 1)
           Bs == {Below(n) : n \in T}
<1>1. Bs \subseteq FiniteSubsetsOf(Nat)
  <2>1. SUFFICES ASSUME NEW n \in T PROVE Below(n) \in SUBSET Nat /\ IsFiniteSet(Below(n))
    BY DEF FiniteSubsetsOf
  <2>2. n \in Nat  OBVIOUS
  <2> QED  BY <2>2, FS_Interval
<1>2. PICK b \in Bs : \A c \in Bs : ~ (<<c, b>> \in StrictSubsetOrdering(Nat))
  <2>1. Bs # {}  OBVIOUS
  <2> HIDE DEF Bs
  <2> QED  BY <1>1, <2>1, FS_StrictSubsetOrderingWellFounded, WFMin
<1>3. PICK x \in T : b = Below(x)  OBVIOUS
<1>4. ASSUME NEW y \in T, y < x PROVE FALSE
  <2>1. Below(y) \in Bs  OBVIOUS
  <2>2. x \in Nat /\ y \in Nat /\ y \in Below(x) /\ y \notin Below(y)  BY <1>4
  <2>3. Below(y) \subseteq Below(x) /\ Below(y) # Below(x) /\ Below(x) \subseteq Nat  BY <2>2
  <2>4. <<Below(y), b>> \in StrictSubsetOrdering(Nat)  BY <2>3, <1>3 DEF StrictSubsetOrdering
  <2> QED  BY <2>1, <2>4, <1>2
<1> QED  BY <1>4

\* Induction, over the set of the numbers for which a statement holds.
LEMMA Induction ==
  ASSUME NEW T, T \subseteq Nat, 0 \in T, \A n \in T : n + 1 \in T
  PROVE  T = Nat
<1>1. SUFFICES ASSUME Nat \ T # {} PROVE FALSE  OBVIOUS
<1>2. PICK x \in Nat \ T : \A y \in Nat \ T : x <= y  BY <1>1, LeastNat
<1>3. x # 0 /\ x - 1 \in Nat  BY <1>2
<1>4. x - 1 \in T  BY <1>3, <1>2
<1> QED  BY <1>2, <1>4, <1>3

\* A set of naturals below a bound that is not empty has a greatest element.
LEMMA GreatestNat ==
  ASSUME NEW T, T \subseteq Nat, T # {}, NEW b \in Nat, \A x \in T : x <= b
  PROVE  \E x \in T : \A y \in T : y <= x
<1> DEFINE U == {n \in Nat : b - n \in T}
<1>1. PICK t \in T : TRUE  OBVIOUS
<1>2. b - t \in U
  <2>1. t \in Nat /\ t <= b /\ b - t \in Nat /\ b - (b - t) = t  BY <1>1
  <2> QED  BY <2>1
<1>3. PICK u \in U : \A v \in U : u <= v  BY <1>2, LeastNat
<1>4. ASSUME NEW y \in T PROVE y <= b - u
  <2>1. y \in Nat /\ y <= b /\ b - y \in Nat /\ b - (b - y) = y  BY <1>4
  <2>2. b - y \in U  BY <2>1
  <2> QED  BY <1>3, <2>2, <2>1
<1>5. b - u \in T  BY <1>3
<1> QED  BY <1>4, <1>5

-------------------------------------------------------------------------------
\* The lowest bit of a mask, and the mask without it.
LEMMA LowestIs ==
  ASSUME NEW m \in SUBSET Bits, m # {}
  PROVE  Lowest(m) \in m /\ \A b \in m : Lowest(m) <= b
<1>1. m \subseteq Nat  BY SizesAssumption DEF Bits
<1>2. \E x \in m : \A y \in m : x <= y  BY <1>1, LeastNat
<1> QED  BY <1>2 DEF Lowest, Min

\* Masks are finite.
LEMMA MaskIsFinite ==
  ASSUME NEW m \in SUBSET Bits
  PROVE  IsFiniteSet(m) /\ Cardinality(m) \in Nat
<1>1. IsFiniteSet(Bits)  BY SizesAssumption, FS_Interval DEF Bits
<1> QED  BY <1>1, FS_Subset, FS_CardinalityType

\* What is left of a mask as drainLane takes one bit after the other.
LeftOf(f, bits, n) == f = [k \in 0..n |-> IF k = 0 THEN bits ELSE Remaining(f[k - 1])]

\* There is such a function.
LEMMA LeftExists == \A bits : \A n \in Nat : \E f : LeftOf(f, bits, n)
<1> SUFFICES ASSUME NEW bits PROVE \A n \in Nat : \E f : LeftOf(f, bits, n)
  OBVIOUS
<1> DEFINE T == {n \in Nat : \E f : LeftOf(f, bits, n)}
<1>1. 0 \in T
  <2>1. PICK f : f = [k \in 0..0 |-> bits]  OBVIOUS
  <2>2. LeftOf(f, bits, 0)  BY <2>1 DEF LeftOf
  <2> QED  BY <2>2
<1>2. ASSUME NEW n \in T PROVE n + 1 \in T
  <2>1. PICK f : LeftOf(f, bits, n)  OBVIOUS
  <2>2. PICK g : g = [k \in 0..(n + 1) |-> IF k = n + 1 THEN Remaining(f[n]) ELSE f[k]]  OBVIOUS
  <2>3. ASSUME NEW k \in 0..(n + 1) PROVE g[k] = IF k = 0 THEN bits ELSE Remaining(g[k - 1])
    BY <2>1, <2>2 DEF LeftOf
  <2>4. LeftOf(g, bits, n + 1)  BY <2>2, <2>3 DEF LeftOf
  <2> QED  BY <2>4
<1> HIDE DEF T
<1>3. T = Nat  BY <1>1, <1>2, Induction DEF T
<1> QED  BY <1>3 DEF T

\* Bits taken one after the other: each from the mask, and each above the last.
LEMMA LeftIs ==
  ASSUME NEW bits \in SUBSET Bits, NEW c \in Nat, c = Cardinality(bits), NEW n \in Nat,
         NEW left, left[0] = bits, \A k \in 1..n : left[k] = Remaining(left[k - 1])
  PROVE  \A k \in 0..n :
           left[k] \in SUBSET bits /\ (k <= c => Cardinality(left[k]) = c - k)
<1> DEFINE Good(k) == left[k] \in SUBSET bits /\ (k <= c => Cardinality(left[k]) = c - k)
           T == {k \in Nat : k <= n => Good(k)}
<1>1. 0 \in T
  OBVIOUS
<1>2. ASSUME NEW k \in Nat, k + 1 <= n, Good(k) PROVE Good(k + 1)
  <2>1. PICK j \in 1..n : j = k + 1 /\ j - 1 = k /\ k \in 0..n  BY <1>2
  <2>2. left[j] = Remaining(left[k])  BY <2>1
  <2>3. PICK m \in SUBSET Bits : m = left[k] /\ m \in SUBSET bits /\ IsFiniteSet(m) /\ Cardinality(m) \in Nat
    BY <1>2, MaskIsFinite
  <2>4. left[j] = m \ {Lowest(m)}  BY <2>2, <2>3 DEF Remaining
  <2>5. ASSUME j <= c PROVE Cardinality(left[j]) = c - j
    <3>1. k <= c  BY <2>1, <2>5
    <3>2. Cardinality(m) = c - k  BY <1>2, <2>3, <3>1
    <3>3. m # {}  BY <2>1, <2>5, <3>2, FS_EmptySet
    <3>4. PICK x \in m : x = Lowest(m)  BY <3>3, LowestIs
    <3>5. Cardinality(m \ {x}) = Cardinality(m) - 1  BY <2>3, FS_RemoveElement
    <3> QED  BY <2>1, <2>4, <3>2, <3>4, <3>5
  <2>6. left[j] \in SUBSET bits  BY <2>3, <2>4
  <2> QED  BY <2>1, <2>5, <2>6
<1> HIDE DEF Good
<1>3. ASSUME NEW k \in T PROVE k + 1 \in T  BY <1>2
<1> HIDE DEF T
<1>4. T = Nat  BY <1>1, <1>3, Induction DEF T
<1>5. ASSUME NEW k \in 0..n PROVE Good(k)  BY <1>4, <1>5 DEF T
<1> QED  BY <1>5 DEF Good

\* Groups of entries cover the bits and less than one group more.
LEMMA GroupsCover ==
  ASSUME NEW c \in Nat
  PROVE  /\ Groups(c) * TapeStep \in Nat
         /\ c <= Groups(c) * TapeStep /\ Groups(c) * TapeStep <= c + TapeStep
<1>1. PICK t \in Nat \ {0} : t = TapeStep  BY SizesAssumption
<1>2. CASE c = 0  BY <1>1, <1>2 DEF Groups
<1>3. CASE c # 0
  <2>1. PICK a \in Nat : a = c + t - 1  BY <1>1
  <2>2. PICK q \in Nat, r \in 0..(t - 1) : a = t * q + r /\ q = a \div t
    <3>1. a = t * (a \div t) + (a % t) /\ a \div t \in Nat /\ a % t \in 0..(t - 1)  OBVIOUS
    <3> QED  BY <3>1
  <2>3. Groups(c) = q  BY <1>1, <1>3, <2>1, <2>2 DEF Groups
  <2>4. q * t = a - r /\ q * t \in Nat  BY <2>2
  <2> QED  BY <1>1, <2>1, <2>3, <2>4
<1> QED  BY <1>2, <1>3

\* A lane from an index on: the places of the bits in their order.
RisingLane(l, at, size, c, base, bits) ==
  /\ DOMAIN l = at..(at + size - 1)
  /\ \A k \in 0..(c - 1) : \E b \in bits : l[at + k] = base + b
  /\ \A k \in 1..(c - 1) : l[at + (k - 1)] < l[at + k]

\* What drainLane writes is one.
LEMMA LaneIs ==
  ASSUME NEW at \in Nat, NEW base \in Nat, NEW bits \in SUBSET Bits,
         NEW c \in Nat, c = Cardinality(bits), NEW size \in Nat, size = Groups(c) * TapeStep,
         NEW l, l = Lane(at, base, bits)
  PROVE  RisingLane(l, at, size, c, base, bits)
<1>1. c <= size  BY GroupsCover
<1>2. PICK left : left = CHOOSE f : LeftOf(f, bits, size)  OBVIOUS
<1>3. l = [i \in at..(at + size - 1) |-> base + Lowest(left[i - at])]
  BY <1>2 DEF Lane, LeftOf
<1>4. left[0] = bits /\ \A k \in 1..size : left[k] = Remaining(left[k - 1])
  <2>1. \E f : LeftOf(f, bits, size)  BY LeftExists
  <2>2. LeftOf(left, bits, size)  BY <1>2, <2>1
  <2> QED  BY <2>2 DEF LeftOf
<1>5. \A k \in 0..size : left[k] \in SUBSET bits /\ (k <= c => Cardinality(left[k]) = c - k)
  <2>1. PICK n \in Nat : n = size  OBVIOUS
  <2>2. left[0] = bits /\ \A k \in 1..n : left[k] = Remaining(left[k - 1])  BY <1>4, <2>1
  <2>3. \A k \in 0..n : left[k] \in SUBSET bits /\ (k <= c => Cardinality(left[k]) = c - k)
    BY <2>2, LeftIs
  <2> QED  BY <2>1, <2>3
<1>6. ASSUME NEW k \in 0..(c - 1) PROVE l[at + k] = base + Lowest(left[k]) /\ left[k] \in SUBSET bits /\ left[k] # {}
  <2>1. k \in 0..size /\ k <= c /\ c - k # 0  BY <1>1
  <2>2. left[k] # {}  BY <1>5, <2>1, FS_EmptySet
  <2>3. PICK i \in at..(at + size - 1) : i = at + k /\ i - at = k  BY <1>1
  <2> QED  BY <1>3, <1>5, <2>1, <2>2, <2>3
<1>7. ASSUME NEW k \in 0..(c - 1) PROVE \E b \in bits : l[at + k] = base + b
  <2>1. PICK m \in SUBSET Bits : m = left[k] /\ m \in SUBSET bits /\ m # {}  BY <1>6
  <2>2. Lowest(m) \in bits  BY <2>1, LowestIs
  <2> QED  BY <1>6, <2>1, <2>2
<1>8. ASSUME NEW k \in 1..(c - 1) PROVE l[at + (k - 1)] < l[at + k]
  <2>1. PICK j \in 0..(c - 1) : j = k - 1  OBVIOUS
  <2>2. PICK m \in SUBSET Bits : m = left[j] /\ m # {}  BY <1>6
  <2>3. PICK x \in m : x = Lowest(m) /\ \A b \in m : x <= b  BY <2>2, LowestIs
  <2>4. k \in 1..size  BY <1>1
  <2>5. left[k] = m \ {x}  BY <1>4, <2>1, <2>2, <2>3, <2>4 DEF Remaining
  <2>6. PICK n \in SUBSET Bits : n = left[k] /\ n # {}  BY <1>6
  <2>7. PICK y \in n : y = Lowest(n)  BY <2>6, LowestIs
  <2>8. x \in Nat /\ y \in Nat /\ x < y  BY <2>3, <2>5, <2>6, <2>7, SizesAssumption DEF Bits
  <2>9. l[at + k] = base + y  BY <1>6, <2>6, <2>7
  <2>10. l[at + j] = base + x  BY <1>6, <2>2, <2>3
  <2> QED  BY <2>1, <2>8, <2>9, <2>10
<1> QED  BY <1>3, <1>7, <1>8 DEF RisingLane

-------------------------------------------------------------------------------
\* The entries of a block are of its characters; one at a space comes of a scan for
\* minified input and of no space before it.
LEMMA BlockIs ==
  ASSUME NEW chars, NEW c
  PROVE  LET r == Block(chars, c)
         IN  /\ r.bits \in SUBSET Bits
             /\ minified /\ chars[Width - 1] = "ws" => r.carry.prevScalar = TRUE
             /\ \A b \in r.bits : chars[b] = "ws" =>
                  minified /\ (b > 0 => chars[b - 1] # "ws") /\ (b = 0 => c.prevScalar # TRUE)
<1>1. PICK w \in Nat \ {0} : w = Width /\ Bits = 0..(w - 1)  BY SizesAssumption DEF Bits
<1>2. PICK esc : esc = EscapedIn(Of(chars, "esc"), c.nextIsEscaped)  OBVIOUS
<1>3. PICK op, quotes : op = Of(chars, "op") /\ quotes = Of(chars, "quote") \ esc.mask  OBVIOUS
<1>4. PICK scalar : scalar = Scalar(chars, quotes)  OBVIOUS
<1>5. PICK in : in = Xor(InString(quotes, c), quotes)  OBVIOUS
<1>6. PICK follows : follows = ShiftLeft(scalar, 1) \cup Low(c.prevScalar)  OBVIOUS
<1>7. PICK r : r = Block(chars, c)  OBVIOUS
<1>8. r.bits = (op \cup quotes \cup (scalar \ follows)) \ in /\ r.carry.prevScalar = High(scalar)
  BY <1>2, <1>3, <1>4, <1>5, <1>6, <1>7 DEF Block, Structurals
<1>9. op \subseteq Bits /\ quotes \subseteq Bits /\ scalar \subseteq Bits
  BY <1>3, <1>4 DEF Of, Scalar
<1>10. \A b \in Bits : chars[b] = "ws" => b \notin op /\ b \notin quotes /\ (b \in scalar <=> minified)
  BY <1>3, <1>4 DEF Of, Scalar
<1>11. minified /\ chars[Width - 1] = "ws" => r.carry.prevScalar = TRUE
  <2>1. w - 1 \in Bits  BY <1>1
  <2> QED  BY <1>1, <1>8, <1>10, <2>1 DEF High
<1>12. ASSUME NEW b \in r.bits, chars[b] = "ws"
       PROVE  minified /\ (b > 0 => chars[b - 1] # "ws") /\ (b = 0 => c.prevScalar # TRUE)
  <2>1. b \in Bits /\ b \in scalar /\ b \notin follows /\ minified  BY <1>8, <1>9, <1>10, <1>12
  <2>2. ASSUME b > 0, chars[b - 1] = "ws" PROVE FALSE
    <3>1. b - 1 \in Bits  BY <1>1, <2>1, <2>2
    <3>2. b - 1 \in scalar /\ (b - 1) + 1 = b  BY <1>1, <1>10, <2>1, <2>2, <3>1
    <3>3. b \in ShiftLeft(scalar, 1)  BY <2>1, <3>2 DEF ShiftLeft
    <3> QED  BY <1>6, <2>1, <3>3
  <2>3. ASSUME b = 0, c.prevScalar = TRUE PROVE FALSE
    <3>1. b \in Low(c.prevScalar)  BY <2>3 DEF Low
    <3> QED  BY <1>6, <2>1, <3>1
  <2> QED  BY <2>1, <2>2, <2>3
<1> QED  BY <1>7, <1>8, <1>9, <1>11, <1>12

\* The blocks of a step, one after the other.
BlocksOf(f, n) ==
  f = [k \in 0..n |-> IF k = 0 THEN [bits |-> {}, carry |-> carry] ELSE Block(Chars(k), f[k - 1].carry)]

\* There are such blocks.
LEMMA BlocksExist == \A n \in Nat : \E f : BlocksOf(f, n)
<1> DEFINE T == {n \in Nat : \E f : BlocksOf(f, n)}
<1>1. 0 \in T
  <2>1. PICK f : f = [k \in 0..0 |-> [bits |-> {}, carry |-> carry]]  OBVIOUS
  <2>2. BlocksOf(f, 0)  BY <2>1 DEF BlocksOf
  <2> QED  BY <2>2
<1>2. ASSUME NEW n \in T PROVE n + 1 \in T
  <2>1. PICK f : BlocksOf(f, n)  OBVIOUS
  <2>2. PICK g : g = [k \in 0..(n + 1) |-> IF k = n + 1 THEN Block(Chars(k), f[n].carry) ELSE f[k]]  OBVIOUS
  <2>3. ASSUME NEW k \in 0..(n + 1)
        PROVE  g[k] = IF k = 0 THEN [bits |-> {}, carry |-> carry] ELSE Block(Chars(k), g[k - 1].carry)
    BY <2>1, <2>2 DEF BlocksOf
  <2>4. BlocksOf(g, n + 1)  BY <2>2, <2>3 DEF BlocksOf
  <2> QED  BY <2>4
<1> HIDE DEF T
<1>3. T = Nat  BY <1>1, <1>2, Induction DEF T
<1> QED  BY <1>3 DEF T

\* Each block has the carry of the one before.
LEMMA BlocksAre ==
  \A n \in 1..BlocksPerStep : Blocks[n] = Block(Chars(n), Blocks[n - 1].carry)
<1>1. PICK z \in Nat : z = BlocksPerStep  BY SizesAssumption
<1>2. Blocks = CHOOSE f : BlocksOf(f, z)  BY <1>1 DEF Blocks, BlocksOf
<1>3. BlocksOf(Blocks, z)  BY <1>2, BlocksExist
<1> QED  BY <1>1, <1>3 DEF BlocksOf

\* No entry is behind the place where the document ends.
LEMMA EntriesEnd ==
  ASSUME index \in Nat, length \in Nat, index <= length, NEW n \in 1..BlocksPerStep,
         NEW base \in Nat, base = index + (n - 1) * Width
  PROVE  Blocks[n].bits \in SUBSET Bits /\ \A b \in Blocks[n].bits : base + b <= length
<1>1. PICK w \in Nat \ {0} : w = Width /\ Bits = 0..(w - 1)  BY SizesAssumption DEF Bits
<1>2. PICK r, c : r = Block(Chars(n), c) /\ r = Blocks[n] /\ c = Blocks[n - 1].carry  BY BlocksAre
<1>3. r.bits \in SUBSET Bits
  <2>1. PICK chars : chars = Chars(n)  OBVIOUS
  <2>2. r = Block(chars, c)  BY <1>2, <2>1
  <2>3. Block(chars, c).bits \in SUBSET Bits  BY BlockIs
  <2> QED  BY <2>2, <2>3
<1>4. \A i \in Bits : base + i >= length => Chars(n)[i] = "ws"
  BY <1>1 DEF Chars
<1>5. ASSUME NEW b \in r.bits, base + b > length PROVE FALSE
  <2>1. b \in Bits /\ Chars(n)[b] = "ws"  BY <1>1, <1>3, <1>4, <1>5
  <2>2. minified /\ (b > 0 => Chars(n)[b - 1] # "ws") /\ (b = 0 => c.prevScalar # TRUE)
    BY <1>2, <2>1, BlockIs
  <2>3. CASE b > 0
    <3>1. b - 1 \in Bits /\ base + (b - 1) >= length  BY <1>1, <1>5, <2>1, <2>3
    <3> QED  BY <1>4, <2>2, <2>3, <3>1
  <2>4. CASE b = 0
    <3>1. n # 1  BY <1>1, <1>5, <2>4
    <3>2. PICK m \in 1..BlocksPerStep : m = n - 1  BY <3>1, SizesAssumption
    <3>3. index + (m - 1) * Width + (w - 1) = base - 1
      <4>1. (m - 1) * w + w = m * w  OBVIOUS
      <4> QED  BY <1>1, <3>2, <4>1
    <3>4. w - 1 \in Bits /\ ~(base - 1 < length)  BY <1>1, <1>5, <2>4
    <3>5. Chars(m)[w - 1] = "ws"  BY <3>3, <3>4 DEF Chars
    <3>6. PICK q, d : q = Block(Chars(m), d) /\ q = Blocks[m]  BY BlocksAre
    <3>7. q.carry.prevScalar = TRUE  BY <1>1, <2>2, <3>5, <3>6, BlockIs
    <3> QED  BY <1>2, <2>2, <2>4, <3>2, <3>6, <3>7
  <2> QED  BY <1>1, <2>1, <2>3, <2>4
<1> QED  BY <1>1, <1>2, <1>3, <1>5

-------------------------------------------------------------------------------
\* The entries of a tape rise, lie below a bound and not behind the document's end;
\* what was written ends at most one group behind the last of them.
Rising(t, count, bound) ==
  \A i \in 0..(count - 1) :
    /\ i \in DOMAIN t /\ t[i] \in Nat /\ t[i] < bound /\ t[i] <= length
    /\ i > 0 => t[i - 1] < t[i]

Holds(d, bound) ==
  /\ d.count \in Nat /\ d.reach \in Nat /\ d.reach <= d.count + TapeStep
  /\ Rising(d.tape, d.count, bound)

\* Entries of another block come behind those there are.
LEMMA LanedHolds ==
  ASSUME length \in Nat, NEW d, NEW base \in Nat, Holds(d, base),
         NEW bits \in SUBSET Bits, \A b \in bits : base + b <= length,
         NEW bound \in Nat, bound = base + Width
  PROVE  Holds(Laned(d, base, bits), bound)
<1>1. PICK c \in Nat : c = Cardinality(bits)  BY MaskIsFinite
<1>2. PICK at \in Nat : at = d.count  BY DEF Holds
<1>3. PICK l : l = Lane(at, base, bits)  OBVIOUS
<1>4. PICK size \in Nat : size = Groups(c) * TapeStep /\ c <= size /\ size <= c + TapeStep
  BY GroupsCover
<1>5. PICK r : r = Laned(d, base, bits)  OBVIOUS
<1>6. r.count = at + c /\ r.reach = at + size /\ r.tape = Over(d.tape, l)
  BY <1>1, <1>2, <1>3, <1>4, <1>5 DEF Laned
<1>7. /\ DOMAIN l = at..(at + size - 1)
      /\ \A k \in 0..(c - 1) : \E b \in bits : l[at + k] = base + b
      /\ \A k \in 1..(c - 1) : l[at + (k - 1)] < l[at + k]
  <2>1. RisingLane(l, at, size, c, base, bits)  BY <1>1, <1>3, <1>4, LaneIs
  <2> QED  BY <2>1 DEF RisingLane
<1>8. ASSUME NEW k \in 0..(c - 1)
      PROVE  /\ at + k \in DOMAIN r.tape /\ r.tape[at + k] = l[at + k]
             /\ l[at + k] \in Nat /\ l[at + k] >= base /\ l[at + k] < bound /\ l[at + k] <= length
  <2>1. PICK b \in bits : l[at + k] = base + b  BY <1>7
  <2>2. b \in Nat /\ b < Width /\ Width \in Nat /\ base + b <= length  BY SizesAssumption DEF Bits
  <2>3. PICK i : i = at + k /\ i \in DOMAIN l  BY <1>4, <1>7
  <2>4. i \in DOMAIN r.tape /\ r.tape[i] = l[i]  BY <1>6, <2>3 DEF Over
  <2>5. l[i] = base + b  BY <2>1, <2>3
  <2> QED  BY <2>2, <2>3, <2>4, <2>5
<1>9. \A i \in 0..(at - 1) : i \in DOMAIN r.tape /\ r.tape[i] = d.tape[i]
  <2>1. SUFFICES ASSUME NEW i \in 0..(at - 1) PROVE i \in DOMAIN r.tape /\ r.tape[i] = d.tape[i]
    OBVIOUS
  <2>2. i \in DOMAIN d.tape /\ i \notin DOMAIN l  BY <1>2, <1>4, <1>7 DEF Holds, Rising
  <2> QED  BY <1>6, <2>2 DEF Over
<1>10. ASSUME NEW i \in 0..(at + c - 1)
       PROVE  /\ i \in DOMAIN r.tape /\ r.tape[i] \in Nat /\ r.tape[i] < bound /\ r.tape[i] <= length
              /\ i > 0 => r.tape[i - 1] < r.tape[i]
  <2>1. CASE i < at
    <3>1. i \in 0..(at - 1) /\ (i > 0 => i - 1 \in 0..(at - 1))  BY <2>1
    <3>2. base < bound  BY SizesAssumption
    <3>3. /\ d.tape[i] \in Nat /\ d.tape[i] < base /\ d.tape[i] <= length
          /\ i > 0 => d.tape[i - 1] < d.tape[i]
      BY <1>2, <3>1 DEF Holds, Rising
    <3> QED  BY <1>9, <3>1, <3>2, <3>3
  <2>2. CASE i >= at
    <3>1. PICK k \in 0..(c - 1) : k = i - at /\ i = at + k  BY <2>2
    <3>2. /\ i \in DOMAIN r.tape /\ r.tape[i] = l[i] /\ l[i] \in Nat /\ l[i] >= base
          /\ l[i] < bound /\ l[i] <= length
      BY <1>8, <3>1
    <3>3. ASSUME i > 0, k = 0 PROVE r.tape[i - 1] < r.tape[i]
      <4>1. i = at  BY <3>1, <3>3
      <4>2. i - 1 \in 0..(at - 1)  BY <3>3, <4>1
      <4>3. i - 1 \in 0..(at - 1) /\ i - 1 \in 0..(d.count - 1)  BY <1>2, <4>2
      <4>4. d.tape[i - 1] \in Nat /\ d.tape[i - 1] < base  BY <4>3 DEF Holds, Rising
      <4> QED  BY <1>9, <3>2, <4>3, <4>4
    <3>4. ASSUME k > 0 PROVE r.tape[i - 1] < r.tape[i]
      <4>1. k \in 1..(c - 1) /\ k - 1 \in 0..(c - 1) /\ at + (k - 1) = i - 1  BY <3>1, <3>4
      <4>2. l[i - 1] < l[i]  BY <1>7, <3>1, <4>1
      <4>3. r.tape[i - 1] = l[i - 1]  BY <1>8, <4>1
      <4> QED  BY <3>2, <4>2, <4>3
    <3>5. i > 0 => r.tape[i - 1] < r.tape[i]  BY <3>3, <3>4
    <3> QED  BY <3>2, <3>5
  <2> QED  BY <2>1, <2>2
<1>11. Rising(r.tape, r.count, bound)  BY <1>6, <1>10 DEF Rising
<1>12. r.count \in Nat /\ r.reach \in Nat /\ r.reach <= r.count + TapeStep
  BY <1>4, <1>6, SizesAssumption
<1> QED  BY <1>5, <1>11, <1>12 DEF Holds

\* The tape after each of a step's blocks.
DrainedOf(f, n) ==
  f = [k \in 0..n |->
         IF k = 0 THEN [tape |-> tape, count |-> tapeCount, reach |-> reach]
         ELSE Laned(f[k - 1], index + (k - 1) * Width, Blocks[k].bits)]

\* There is such a tape.
LEMMA DrainedExists == \A n \in Nat : \E f : DrainedOf(f, n)
<1> DEFINE T == {n \in Nat : \E f : DrainedOf(f, n)}
<1>1. 0 \in T
  <2>1. PICK f : f = [k \in 0..0 |-> [tape |-> tape, count |-> tapeCount, reach |-> reach]]  OBVIOUS
  <2>2. DrainedOf(f, 0)  BY <2>1 DEF DrainedOf
  <2> QED  BY <2>2
<1>2. ASSUME NEW n \in T PROVE n + 1 \in T
  <2>1. PICK f : DrainedOf(f, n)  OBVIOUS
  <2>2. PICK g : g = [k \in 0..(n + 1) |->
                        IF k = n + 1 THEN Laned(f[n], index + (k - 1) * Width, Blocks[k].bits) ELSE f[k]]
    OBVIOUS
  <2>3. ASSUME NEW k \in 0..(n + 1)
        PROVE  g[k] = IF k = 0 THEN [tape |-> tape, count |-> tapeCount, reach |-> reach]
                      ELSE Laned(g[k - 1], index + (k - 1) * Width, Blocks[k].bits)
    BY <2>1, <2>2 DEF DrainedOf
  <2>4. DrainedOf(g, n + 1)  BY <2>2, <2>3 DEF DrainedOf
  <2> QED  BY <2>4
<1> HIDE DEF T
<1>3. T = Nat  BY <1>1, <1>2, Induction DEF T
<1> QED  BY <1>3 DEF T

\* Each lane is drained behind the ones before.
LEMMA DrainedIs ==
  /\ Drained[0] = [tape |-> tape, count |-> tapeCount, reach |-> reach]
  /\ \A n \in 1..BlocksPerStep :
       Drained[n] = Laned(Drained[n - 1], index + (n - 1) * Width, Blocks[n].bits)
<1>1. PICK z \in Nat : z = BlocksPerStep  BY SizesAssumption
<1>2. Drained = CHOOSE f : DrainedOf(f, z)  BY <1>1 DEF Drained, DrainedOf
<1>3. DrainedOf(Drained, z)  BY <1>2, DrainedExists
<1> QED  BY <1>1, <1>3 DEF DrainedOf

\* A step leaves a tape that rises and ends before the next step begins.
LEMMA DrainedHolds ==
  ASSUME index \in Nat, length \in Nat, index <= length, Holds(Drained[0], index)
  PROVE  Holds(Drained[BlocksPerStep], index + StepBytes)
<1>1. PICK z \in Nat : z = BlocksPerStep /\ Width \in Nat /\ StepBytes = Width * z
  BY SizesAssumption DEF StepBytes
<1> DEFINE Good(n) == Holds(Drained[n], index + n * Width)
           T == {n \in Nat : n <= z => Good(n)}
<1>2. Good(0)
  <2>1. index + 0 * Width = index  BY <1>1
  <2> QED  BY <2>1
<1>3. ASSUME NEW n \in Nat, n + 1 <= z, Good(n) PROVE Good(n + 1)
  <2>1. PICK m \in 1..BlocksPerStep : m = n + 1 /\ m - 1 = n  BY <1>1, <1>3
  <2>2. PICK base \in Nat, bound \in Nat : base = index + n * Width /\ bound = index + m * Width
                                           /\ bound = base + Width
    <3>1. n * Width \in Nat /\ (n + 1) * Width = n * Width + Width  BY <1>1
    <3> QED  BY <1>1, <2>1, <3>1
  <2>3. PICK bits : bits = Blocks[m].bits /\ bits \in SUBSET Bits /\ \A b \in bits : base + b <= length
    BY <2>1, <2>2, EntriesEnd
  <2>4. Holds(Laned(Drained[n], base, bits), bound)  BY <1>3, <2>2, <2>3, LanedHolds
  <2>5. Drained[m] = Laned(Drained[n], base, bits)  BY <2>1, <2>2, <2>3, DrainedIs
  <2> QED  BY <2>1, <2>2, <2>4, <2>5
<1> HIDE DEF Good
<1>4. 0 \in T  BY <1>2
<1>5. ASSUME NEW n \in T PROVE n + 1 \in T  BY <1>3
<1> HIDE DEF T
<1>6. T = Nat  BY <1>4, <1>5, Induction DEF T
<1>7. Good(z)  BY <1>1, <1>6 DEF T
<1>8. z * Width = Width * z  BY <1>1
<1> QED  BY <1>1, <1>7, <1>8 DEF Good

-------------------------------------------------------------------------------
\* The greatest of a set of naturals below a bound.
LEMMA MaxIs ==
  ASSUME NEW T, T \subseteq Nat, T # {}, NEW b \in Nat, \A x \in T : x <= b
  PROVE  Max(T) \in T /\ \A y \in T : y <= Max(T)
<1>1. \E x \in T : \A y \in T : x >= y
  <2>1. PICK x \in T : \A y \in T : y <= x  BY GreatestNat
  <2> QED  BY <2>1
<1>2. Max(T) \in T /\ \A y \in T : Max(T) >= y  BY <1>1 DEF Max
<1> QED  BY <1>2

\* Trimming drops one entry at most, and those that are left lie before the end.
LEMMA TrimmedIs ==
  ASSUME length \in Nat, NEW t, NEW count \in Nat, NEW bound, Rising(t, count, bound),
         NEW m, m = Trimmed(t, count)
  PROVE  m \in Nat /\ m <= count /\ count <= m + 1 /\ Rising(t, m, length)
<1> DEFINE S == {0} \cup {n \in 1..count : t[n - 1] < length}
<1>1. m = Max(S)  BY DEF Trimmed
<1>2. S \subseteq Nat /\ S # {} /\ \A n \in S : n <= count  OBVIOUS
<1>3. m \in S /\ \A n \in S : n <= m
  <2> HIDE DEF S
  <2> QED  BY <1>1, <1>2, MaxIs
<1>4. ASSUME NEW i \in 0..(count - 2) PROVE t[i] \in Nat /\ t[i] < length
  <2>1. PICK j \in 0..(count - 1) : j = i + 1 /\ j > 0 /\ j - 1 = i  OBVIOUS
  <2>2. t[j] \in Nat /\ t[j] <= length /\ t[j - 1] < t[j]  BY <2>1 DEF Rising
  <2>3. i \in 0..(count - 1)  OBVIOUS
  <2>4. t[i] \in Nat  BY <2>3 DEF Rising
  <2> QED  BY <2>1, <2>2, <2>4
<1>5. count <= m + 1
  <2>1. CASE count <= 1  BY <1>2, <1>3, <2>1
  <2>2. CASE count > 1
    <3>1. PICK n \in 1..count : n = count - 1  BY <2>2
    <3>2. PICK i \in 0..(count - 2) : i = n - 1  BY <3>1
    <3>3. n \in S  BY <1>4, <3>2
    <3> QED  BY <1>2, <1>3, <3>1, <3>3
  <2> QED  BY <2>1, <2>2
<1>6. m \in Nat /\ m <= count  BY <1>2, <1>3
<1>7. ASSUME NEW i \in 0..(m - 1) PROVE t[i] < length
  <2>1. CASE i = m - 1
    <3>1. m # 0  BY <1>6, <1>7
    <3>2. t[m - 1] < length  BY <1>3, <3>1
    <3> QED  BY <2>1, <3>2
  <2>2. CASE i # m - 1
    <3>1. i \in 0..(count - 2)  BY <1>6, <1>7, <2>2
    <3> QED  BY <1>4, <3>1
  <2> QED  BY <2>1, <2>2
<1>8. Rising(t, m, length)
  <2>1. \A i \in 0..(m - 1) : i \in 0..(count - 1)  BY <1>6
  <2> QED  BY <1>7, <2>1 DEF Rising
<1> QED  BY <1>5, <1>6, <1>8

\* With the terminating entry behind it.
LEMMA BegunIs ==
  ASSUME length \in Nat, NEW d, d = [tape |-> d.tape, count |-> d.count, reach |-> d.reach],
         d.count \in Nat, d.reach \in Nat, d.reach <= d.count + TapeStep,
         NEW m \in Nat, m <= d.count, d.count <= m + 1, Rising(d.tape, m, length),
         NEW b, b = Begun(d, m)
  PROVE  /\ b.count = m /\ b.reach \in Nat /\ b.reach <= m + TapeStep + 1
         /\ Rising(b.tape, m, length) /\ b.tape[m] = length
<1>1. /\ b.tape = Over(d.tape, [i \in {m} |-> length])
      /\ b.count = m
      /\ b.reach = Max({d.reach, m + 1})
  BY DEF Begun
<1>2. PICK z : z = Max({d.reach, m + 1}) /\ z \in {d.reach, m + 1}
  <2>1. PICK T : T = {d.reach, m + 1}  OBVIOUS
  <2>2. PICK u \in Nat : u = d.reach + m + 1  OBVIOUS
  <2>3. T \subseteq Nat /\ T # {} /\ \A x \in T : x <= u  BY <2>1, <2>2
  <2>4. Max(T) \in T  BY <2>2, <2>3, MaxIs
  <2> QED  BY <2>1, <2>4
<1>3. b.reach \in Nat /\ b.reach <= m + TapeStep + 1  BY <1>1, <1>2, SizesAssumption
<1>4. b.tape[m] = length  BY <1>1 DEF Over
<1>5. Rising(b.tape, m, length)
  <2>1. ASSUME NEW i \in 0..(m - 1) PROVE i \in DOMAIN b.tape /\ b.tape[i] = d.tape[i]
    <3>1. i \in DOMAIN d.tape /\ i \notin {m}  BY DEF Rising
    <3> QED  BY <1>1, <3>1 DEF Over
  <2>2. ASSUME NEW i \in 0..(m - 1), i > 0 PROVE b.tape[i - 1] = d.tape[i - 1]
    <3>1. i - 1 \in 0..(m - 1)  BY <2>2
    <3> QED  BY <2>1, <3>1
  <2> QED  BY <2>1, <2>2 DEF Rising
<1> QED  BY <1>1, <1>3, <1>4, <1>5

-------------------------------------------------------------------------------
Now == [tape |-> tape, count |-> tapeCount, reach |-> reach]

TypeOK ==
  /\ text \in Seq(Classes) /\ index \in Nat /\ tapeCount \in Nat /\ reach \in Nat
  /\ capacity \in Nat /\ loads \in Nat /\ scanning \in BOOLEAN

\* What every step keeps.
IInv ==
  /\ TypeOK
  /\ index <= length
  /\ scanning => loads > 0 /\ Holds(Now, index)
  /\ ~scanning /\ loads > 0 => Rising(tape, tapeCount, length) /\ tape[tapeCount] = length
  /\ reach <= tapeCount + TapeStep + 1
  /\ IF loads = 0 THEN reach = 0 ELSE capacity >= Needed(length)

\* It holds at the start.
LEMMA InitOk == Init => IInv
<1> SUFFICES ASSUME Init PROVE IInv  OBVIOUS
<1>1. text = <<>> /\ length = 0  BY DEF Init, length
<1>2. TypeOK
  <2>1. text \in Seq(Classes)  BY <1>1
  <2>2. scanning \in BOOLEAN  BY DEF Init
  <2>3. capacity = InitialTape /\ index = 0 /\ tapeCount = 0 /\ reach = 0 /\ loads = 0  BY DEF Init
  <2> QED  BY <2>1, <2>2, <2>3, SizesAssumption DEF TypeOK
<1>3. index = 0 /\ tapeCount = 0 /\ reach = 0 /\ ~scanning /\ loads = 0  BY DEF Init
<1> QED  BY <1>1, <1>2, <1>3, SizesAssumption DEF IInv

\* A document of the caller is a sequence of classes.
LEMMA ResetOk == IInv /\ Reset => IInv'
<1> SUFFICES ASSUME IInv, Reset PROVE IInv'  OBVIOUS
<1>1. text' \in Seq(Classes) /\ loads' \in Nat /\ loads' > 0 /\ scanning' = TRUE
  <2>1. loads \in Nat /\ loads < Len(Texts) /\ loads' = loads + 1 /\ text' \in Texts[loads'] /\ scanning' = TRUE
    BY DEF IInv, TypeOK, Reset, Begins
  <2>2. PICK n : n = loads' /\ n \in 1..Len(Texts)  BY <2>1, TextsAssumption
  <2>3. Texts[n] \subseteq Seq(Classes)  BY <2>2, TextsAssumption
  <2> QED  BY <2>1, <2>2, <2>3
<1>2. length' = Len(text') /\ length' \in Nat  BY <1>1 DEF length
<1>3. PICK n \in Nat : n = Len(text')  BY <1>1
<1>4. Needed(n) \in Nat
  <2>1. PICK a \in Nat : a = n * 8  OBVIOUS
  <2>2. a \div 10 \in Nat  OBVIOUS
  <2> QED  BY <2>1, <2>2, SizesAssumption DEF Needed
<1>5. capacity' \in Nat /\ capacity' >= Needed(n)
  BY <1>3, <1>4 DEF Reset, IInv, TypeOK
<1>6. TypeOK'  BY <1>1, <1>5 DEF TypeOK, Reset, Begins
<1>7. index' = 0 /\ tapeCount' = 0 /\ reach' = 0  BY DEF Reset, Begins
<1>8. Holds(Now, index)'  BY <1>7, SizesAssumption DEF Holds, Now, Rising
<1>9. Needed(length)' = Needed(n)  BY <1>2, <1>3 DEF Needed
<1> QED  BY <1>1, <1>2, <1>5, <1>6, <1>7, <1>8, <1>9, SizesAssumption DEF IInv

\* A whole step, which ends before the document does.
LEMMA ProcessFullOk == IInv /\ ProcessFull => IInv'
<1> SUFFICES ASSUME IInv, ProcessFull PROVE IInv'  OBVIOUS
<1>1. length \in Nat /\ length' = length /\ StepBytes \in Nat
  BY SizesAssumption DEF IInv, TypeOK, ProcessFull, length, StepBytes
<1>2. index \in Nat /\ index <= length /\ Holds(Now, index)  BY DEF IInv, TypeOK, ProcessFull
<1>3. Drained[0] = Now  BY DrainedIs DEF Now
<1>4. PICK d : d = Drained[BlocksPerStep]  OBVIOUS
<1>5. Holds(d, index + StepBytes)  BY <1>1, <1>2, <1>3, <1>4, DrainedHolds
<1>6. /\ tape' = d.tape /\ tapeCount' = d.count /\ reach' = d.reach
      /\ index' = index + StepBytes /\ index + StepBytes < length
  BY <1>1, <1>2, <1>4 DEF ProcessFull, Leave, HasFullBlock
<1>7. Holds(Now, index)'  BY <1>1, <1>5, <1>6 DEF Holds, Now, Rising
<1>8. tapeCount' \in Nat /\ reach' \in Nat /\ reach' <= tapeCount' + TapeStep
  BY <1>5, <1>6 DEF Holds
<1>9. TypeOK'  BY <1>1, <1>2, <1>6, <1>8 DEF IInv, TypeOK, ProcessFull
<1>10. /\ scanning' = scanning /\ loads' = loads /\ capacity' = capacity /\ scanning = TRUE
       /\ Needed(length)' = Needed(length)
  BY <1>1 DEF ProcessFull, Needed
<1>11. loads > 0 /\ loads \in Nat /\ (IF loads = 0 THEN reach = 0 ELSE capacity >= Needed(length))
  BY <1>10 DEF IInv, TypeOK
<1>12. reach' <= tapeCount' + TapeStep + 1  BY <1>8, SizesAssumption
<1>13. index' <= length'  BY <1>1, <1>2, <1>6
<1>14. IF loads' = 0 THEN reach' = 0 ELSE capacity' >= Needed(length)'
  BY <1>10, <1>11
<1> QED  BY <1>7, <1>9, <1>10, <1>11, <1>12, <1>13, <1>14 DEF IInv

\* The last step, with the trimming and the terminating entry.
LEMMA ProcessRemainderOk == IInv /\ ProcessRemainder => IInv'
<1> SUFFICES ASSUME IInv, ProcessRemainder PROVE IInv'  OBVIOUS
<1>1. length \in Nat /\ length' = length /\ StepBytes \in Nat
  BY SizesAssumption DEF IInv, TypeOK, ProcessRemainder, length, StepBytes
<1>2. index \in Nat /\ index <= length /\ Holds(Now, index)  BY DEF IInv, TypeOK, ProcessRemainder
<1>3. Drained[0] = Now  BY DrainedIs DEF Now
<1>4. /\ tapeCount' \in Nat /\ reach' \in Nat /\ reach' <= tapeCount' + TapeStep + 1
      /\ Rising(tape', tapeCount', length) /\ tape'[tapeCount'] = length
  <2>1. CASE index = length
    <3>1. PICK d, m : d = Now /\ m = tapeCount  OBVIOUS
    <3>2. /\ d = [tape |-> d.tape, count |-> d.count, reach |-> d.reach]
          /\ d.count = m /\ d.tape = tape
      BY <3>1 DEF Now
    <3>3. /\ d.count \in Nat /\ d.reach \in Nat /\ d.reach <= d.count + TapeStep
          /\ Rising(d.tape, m, length)
      BY <1>2, <2>1, <3>1, <3>2 DEF Holds
    <3>4. PICK b : b = Begun(d, m)  OBVIOUS
    <3>5. tape' = b.tape /\ tapeCount' = b.count /\ reach' = b.reach
      BY <1>3, <2>1, <3>1, <3>4 DEF ProcessRemainder, Leave
    <3>6. m \in Nat /\ m <= d.count /\ d.count <= m + 1  BY <3>2, <3>3
    <3>7. /\ b.count = m /\ b.reach \in Nat /\ b.reach <= m + TapeStep + 1
          /\ Rising(b.tape, m, length) /\ b.tape[m] = length
      BY <1>1, <3>2, <3>3, <3>4, <3>6, BegunIs
    <3> QED  BY <3>5, <3>7, <3>6
  <2>2. CASE index # length
    <3>1. PICK d : d = Drained[BlocksPerStep]  OBVIOUS
    <3>2. Holds(d, index + StepBytes)  BY <1>1, <1>2, <1>3, <3>1, DrainedHolds
    <3>3. PICK m : m = Trimmed(d.tape, d.count)  OBVIOUS
    <3>4. /\ d.count \in Nat /\ d.reach \in Nat /\ d.reach <= d.count + TapeStep
          /\ Rising(d.tape, d.count, index + StepBytes)
      BY <3>2 DEF Holds
    <3>5. m \in Nat /\ m <= d.count /\ d.count <= m + 1 /\ Rising(d.tape, m, length)
      BY <1>1, <3>3, <3>4, TrimmedIs
    <3>6. PICK n \in 1..BlocksPerStep : n = BlocksPerStep  BY SizesAssumption
    <3>7. Drained[n] = Laned(Drained[n - 1], index + (n - 1) * Width, Blocks[n].bits)  BY DrainedIs
    <3>8. d = [tape |-> d.tape, count |-> d.count, reach |-> d.reach]
      BY <3>1, <3>6, <3>7 DEF Laned
    <3>9. PICK b : b = Begun(d, m)  OBVIOUS
    <3>10. tape' = b.tape /\ tapeCount' = b.count /\ reach' = b.reach
      BY <2>2, <3>1, <3>3, <3>9 DEF ProcessRemainder, Leave
    <3>11. /\ b.count = m /\ b.reach \in Nat /\ b.reach <= m + TapeStep + 1
           /\ Rising(b.tape, m, length) /\ b.tape[m] = length
      BY <1>1, <3>4, <3>5, <3>8, <3>9, BegunIs
    <3> QED  BY <3>5, <3>10, <3>11
  <2> QED  BY <2>1, <2>2
<1>5. Rising(tape, tapeCount, length)'  BY <1>1, <1>4 DEF Rising
<1>6. /\ scanning = TRUE /\ scanning' = FALSE /\ loads' = loads /\ capacity' = capacity
      /\ index' = index /\ text' = text /\ Needed(length)' = Needed(length)
  BY <1>1 DEF ProcessRemainder, Needed
<1>7. TypeOK'
  <2>1. TypeOK  BY DEF IInv
  <2> QED  BY <1>4, <1>6, <2>1 DEF TypeOK
<1>8. loads > 0 /\ loads \in Nat /\ (IF loads = 0 THEN reach = 0 ELSE capacity >= Needed(length))
  BY <1>6 DEF IInv, TypeOK
<1>9. IF loads' = 0 THEN reach' = 0 ELSE capacity' >= Needed(length)'  BY <1>6, <1>8
<1>10. index' <= length'  BY <1>1, <1>2, <1>6
<1> QED  BY <1>1, <1>4, <1>5, <1>6, <1>7, <1>9, <1>10 DEF IInv

\* Every reachable state keeps it.
LEMMA AlwaysIInv == Spec => []IInv
<1>1. IInv /\ [Next]_vars => IInv'
  <2>1. IInv /\ Next => IInv'  BY ResetOk, ProcessFullOk, ProcessRemainderOk DEF Next
  <2>2. ASSUME IInv, vars' = vars PROVE IInv'
    <3>1. /\ text' = text /\ index' = index /\ tapeCount' = tapeCount /\ reach' = reach
          /\ capacity' = capacity /\ loads' = loads /\ scanning' = scanning /\ tape' = tape
      BY <2>2 DEF vars
    <3> QED  BY <2>2, <3>1 DEF IInv, TypeOK, Holds, Now, Rising, Needed, length
  <2> QED  BY <2>1, <2>2
<1> QED  BY InitOk, <1>1, PTL DEF Spec

\* The entries that have been written, the padding of a group and the terminating
\* one with them, are inside the allocation (add_tape_values::drainLane and begin),
\* whatever the document, as long as no more than 8 of 10 characters are entries.
THEOREM TapeFitsAlways == Spec => []TapeFits
<1>1. ASSUME IInv PROVE TapeFits
  <2>1. SUFFICES ASSUME 10 * tapeCount <= 8 * length PROVE reach <= capacity
    BY DEF TapeFits
  <2>2. PICK n \in Nat : n = length  BY <1>1 DEF IInv, TypeOK, length
  <2>3. tapeCount \in Nat /\ reach \in Nat /\ capacity \in Nat /\ reach <= tapeCount + TapeStep + 1
        /\ (IF loads = 0 THEN reach = 0 ELSE capacity >= Needed(n))
    BY <1>1, <2>2 DEF IInv, TypeOK
  <2>4. tapeCount <= (n * 8) \div 10  BY <2>1, <2>2, <2>3
  <2>5. Needed(n) >= tapeCount + Slack
    <3>1. PICK a \in Nat : a = n * 8  OBVIOUS
    <3>2. a \div 10 \in Nat  OBVIOUS
    <3> QED  BY <2>3, <2>4, <3>1, <3>2, SizesAssumption DEF Needed
  <2>6. Needed(n) \in Nat
    <3>1. PICK a \in Nat : a = n * 8  OBVIOUS
    <3>2. a \div 10 \in Nat  OBVIOUS
    <3> QED  BY <3>1, <3>2, SizesAssumption DEF Needed
  <2> QED  BY <2>3, <2>5, <2>6, SizesAssumption
<1> QED  BY AlwaysIInv, <1>1, PTL

\* A finished tape ends with the document's length, and no entry before it is as
\* great (simd_string_reader::reset, trailing entries, and begin).
THEOREM TerminatedAlways == Spec => []Terminated
<1>1. ASSUME IInv PROVE Terminated
  <2>1. SUFFICES ASSUME ~scanning, loads > 0
                 PROVE  /\ tape[tapeCount] = length
                        /\ \A i \in 1..tapeCount : Tape[i] < length
    BY DEF Terminated
  <2>2. tapeCount \in Nat /\ tape[tapeCount] = length /\ Rising(tape, tapeCount, length)
    BY <1>1, <2>1 DEF IInv, TypeOK
  <2>3. ASSUME NEW i \in 1..tapeCount PROVE Tape[i] < length
    <3>1. PICK j \in 0..(tapeCount - 1) : j = i - 1  BY <2>2
    <3>2. tape[j] < length  BY <2>2, <3>1 DEF Rising
    <3>3. Tape[i] = tape[j]  BY <3>1 DEF Tape
    <3> QED  BY <3>2, <3>3
  <2> QED  BY <2>2, <2>3
<1> QED  BY AlwaysIInv, <1>1, PTL

-------------------------------------------------------------------------------
\* A difference, with the set of the places that are borrowed from.
LEMMA MinusIs ==
  ASSUME NEW m \in SUBSET Bits, NEW n \in SUBSET Bits
  PROVE  \E b : /\ 0 \notin b
                /\ \A i \in Bits :
                     /\ i \in Minus(m, n) <=> ((i \in m <=> i \in n) <=> i \in b)
                     /\ i + 1 \in b <=> IF i \in m THEN i \in n /\ i \in b ELSE i \in n \/ i \in b
<1>1. PICK w \in Nat \ {0} : w = Width /\ Bits = 0..(w - 1)  BY SizesAssumption DEF Bits
<1> DEFINE In(i) == \E j \in n \ m : j < i /\ \A k \in m \ n : k < j \/ k >= i
<1>2. PICK b : b = {i \in Nat : In(i)}  OBVIOUS
<1>3. \A i \in Bits : i \in Minus(m, n) <=> ((i \in m <=> i \in n) <=> In(i))
  BY DEF Minus, Xor
<1>4. ~In(0)  BY <1>1
<1>5. ASSUME NEW i \in Bits
      PROVE  In(i + 1) <=> IF i \in m THEN i \in n /\ In(i) ELSE i \in n \/ In(i)
  <2>1. CASE i \in n \ m
    <3>1. In(i + 1)  BY <1>1, <2>1
    <3> QED  BY <2>1, <3>1
  <2>2. CASE i \in m \ n
    <3>1. ~In(i + 1)  BY <1>1, <2>2
    <3> QED  BY <2>2, <3>1
  <2>3. CASE i \notin n \ m /\ i \notin m \ n
    <3>1. ASSUME In(i) PROVE In(i + 1)  BY <1>1, <2>3, <3>1
    <3>2. ASSUME In(i + 1) PROVE In(i)  BY <1>1, <2>3, <3>2
    <3> QED  BY <2>3, <3>1, <3>2
  <2> QED  BY <2>1, <2>2, <2>3
<1> HIDE DEF In
<1>6. \A i \in Bits : i \in Nat /\ i + 1 \in Nat  BY <1>1
<1> QED  BY <1>2, <1>3, <1>4, <1>5, <1>6

\* Which of the first k places are escaped, from the backslashes and what comes in.
Escaping(bs, c, k, e) ==
  /\ c \in BOOLEAN /\ (0 \in e <=> c = TRUE)
  /\ \A i \in Bits : i < k => (i + 1 \in e <=> i \in bs /\ i \notin e)

EscapedTo(esc, k, e) ==
  /\ \A i \in Bits : i < k => (i \in esc.mask <=> i \in e)
  /\ k = Width => esc.next \in BOOLEAN /\ (esc.next = TRUE <=> k \in e)

\* The subtraction finds them.
LEMMA EscapedIs ==
  ASSUME NEW bs \in SUBSET Bits, NEW c, NEW k \in 0..Width, NEW esc, Escaping(bs, c, k, esc),
         NEW r, r = EscapedIn(bs, c)
  PROVE  EscapedTo(r, k, esc)
<1> SUFFICES ASSUME c \in BOOLEAN, 0 \in esc <=> c = TRUE,
                    \A i \in Bits : i < k => (i + 1 \in esc <=> i \in bs /\ i \notin esc)
             PROVE  /\ \A i \in Bits : i < k => (i \in r.mask <=> i \in esc)
                    /\ k = Width => r.next \in BOOLEAN /\ (r.next = TRUE <=> k \in esc)
  BY DEF Escaping, EscapedTo
<1>1. PICK w \in Nat \ {0} : w = Width /\ Bits = 0..(w - 1)  BY SizesAssumption DEF Bits
<1>2. CASE bs = {}
  <2>1. r.mask = Low(c) /\ r.next = FALSE  BY <1>2 DEF EscapedIn
  <2>2. \A i \in Bits : i < k => i + 1 \notin esc  BY <1>2
  <2>3. ASSUME NEW i \in Bits, i < k PROVE i \in r.mask <=> i \in esc
    <3>1. CASE i = 0  BY <2>1, <3>1 DEF Low
    <3>2. CASE i # 0
      <4>1. i - 1 \in Bits /\ i - 1 < k /\ (i - 1) + 1 = i  BY <1>1, <2>3, <3>2
      <4> QED  BY <2>1, <2>2, <3>2, <4>1 DEF Low
    <3> QED  BY <3>1, <3>2
  <2>4. ASSUME k = Width PROVE k \notin esc
    <3>1. k - 1 \in Bits /\ k - 1 < k /\ (k - 1) + 1 = k  BY <1>1, <2>4
    <3> QED  BY <2>2, <3>1
  <2> QED  BY <2>1, <2>3, <2>4
<1>3. CASE bs # {}
  <2>1. PICK p \in SUBSET Bits : p = bs \ Low(c)  OBVIOUS
  <2>2. PICK code : code = EscapeAndTerminalCode(p)  OBVIOUS
  <2>3. r.mask = Xor(code, bs \cup Low(c)) /\ r.next = High(code \cap bs)
    BY <1>3, <2>1, <2>2 DEF EscapedIn
  <2>4. PICK m \in SUBSET Bits : m = ShiftLeft(p, 1) \cup OddBits  BY DEF ShiftLeft, OddBits
  <2>5. code = Xor(Minus(m, p), OddBits)  BY <2>2, <2>4 DEF EscapeAndTerminalCode
  <2>6. PICK b : /\ 0 \notin b
                 /\ \A i \in Bits :
                      /\ i \in Minus(m, p) <=> ((i \in m <=> i \in p) <=> i \in b)
                      /\ i + 1 \in b <=> IF i \in m THEN i \in p /\ i \in b ELSE i \in p \/ i \in b
    BY MinusIs
  <2>7. \A i \in Bits : i \in code <=> ~(i \in Minus(m, p) <=> i % 2 = 1)
    BY <2>5 DEF Xor, OddBits
  <2>8. \A i \in Bits : i \in m <=> i % 2 = 1 \/ (i > 0 /\ i - 1 \in p)
    BY <1>1, <2>4 DEF ShiftLeft, OddBits
  <2>9. \A i \in Bits : i \in p <=> i \in bs /\ (i = 0 => c = FALSE)
    BY <2>1 DEF Low
  <2> DEFINE Good(i) == IF i % 2 = 1 THEN i \in b <=> i \in esc
                        ELSE IF i = 0 THEN i \notin b
                        ELSE i \in b <=> i - 1 \in bs /\ i - 1 \in esc
             T == {i \in Nat : i < k => Good(i)}
  <2>10. 0 \in T  BY <2>6
  <2>11. ASSUME NEW i \in Nat, i + 1 < k, Good(i) PROVE Good(i + 1)
    <3>1. i \in Bits /\ i < k /\ i + 1 \in Bits /\ (i + 1) - 1 = i  BY <1>1, <2>11
    <3>2. i + 1 \in b <=> IF i \in m THEN i \in p /\ i \in b ELSE i \in p \/ i \in b  BY <2>6, <3>1
    <3>3. CASE i = 0
      <4>1. i \notin m  BY <2>8, <3>1, <3>3
      <4>2. i + 1 \in esc <=> i \in bs /\ i \notin esc  BY <3>1
      <4>3. i + 1 \in b <=> i \in p  BY <2>11, <3>2, <3>3, <4>1
      <4>4. i \in p <=> i \in bs /\ c = FALSE  BY <2>9, <3>1, <3>3
      <4>5. (i + 1) % 2 = 1  BY <3>3
      <4> QED  BY <3>3, <4>2, <4>3, <4>4, <4>5
    <3>4. CASE i # 0 /\ i % 2 = 1
      <4>1. i \in m  BY <2>8, <3>1, <3>4
      <4>2. i \in p <=> i \in bs  BY <2>9, <3>1, <3>4
      <4>3. (i + 1) % 2 # 1 /\ i + 1 # 0  BY <3>4
      <4>4. i \in b <=> i \in esc  BY <2>11, <3>4
      <4> QED  BY <3>1, <3>2, <4>1, <4>2, <4>3, <4>4
    <3>5. CASE i # 0 /\ i % 2 # 1
      <4>1. PICK j \in Bits : j = i - 1 /\ j # 0 /\ j + 1 = i /\ j < k
        <5>1. i # 1  BY <3>5
        <5> QED  BY <1>1, <3>1, <3>5, <5>1
      <4>2. i \in m <=> j \in bs  BY <2>8, <2>9, <3>1, <3>5, <4>1
      <4>3. i \in b <=> j \in bs /\ j \in esc  BY <2>11, <3>5, <4>1
      <4>4. i \in p <=> i \in bs  BY <2>9, <3>1, <3>5
      <4>5. i \in esc <=> j \in bs /\ j \notin esc  BY <4>1
      <4>6. i + 1 \in esc <=> i \in bs /\ i \notin esc  BY <3>1
      <4>7. (i + 1) % 2 = 1  BY <3>5
      <4> QED  BY <3>2, <4>2, <4>3, <4>4, <4>5, <4>6, <4>7
    <3> QED  BY <3>3, <3>4, <3>5
  <2> HIDE DEF Good
  <2>12. ASSUME NEW i \in T PROVE i + 1 \in T  BY <2>11
  <2> HIDE DEF T
  <2>13. T = Nat  BY <2>10, <2>12, Induction DEF T
  <2>14. \A i \in Bits : i < k => Good(i)  BY <1>1, <2>13 DEF T
  <2>15. ASSUME NEW i \in Bits, i < k
         PROVE  i \in code <=> IF i = 0 THEN i \in bs /\ c = FALSE ELSE ~(i \in esc <=> i \in bs)
    <3>1. i \in code <=> ~(((i \in m <=> i \in p) <=> i \in b) <=> i % 2 = 1)  BY <2>6, <2>7
    <3>2. CASE i = 0
      <4>1. i \notin m /\ i \notin b /\ i % 2 # 1  BY <2>6, <2>8, <3>2
      <4> QED  BY <2>9, <3>1, <3>2, <4>1
    <3>3. CASE i # 0 /\ i % 2 = 1
      <4>1. i \in m /\ (i \in p <=> i \in bs)  BY <2>8, <2>9, <3>3
      <4>2. i \in b <=> i \in esc  BY <2>14, <2>15, <3>3 DEF Good
      <4> QED  BY <3>1, <3>3, <4>1, <4>2
    <3>4. CASE i # 0 /\ i % 2 # 1
      <4>1. PICK j \in Bits : j = i - 1 /\ j # 0 /\ j + 1 = i /\ j < k
        <5>1. i # 1  BY <3>4
        <5> QED  BY <1>1, <2>15, <3>4, <5>1
      <4>2. i \in m <=> j \in bs
        <5>1. i \in m <=> j \in p  BY <2>8, <1>1, <3>4, <4>1
        <5>2. j \in p <=> j \in bs  BY <2>9, <4>1
        <5> QED  BY <5>1, <5>2
      <4>3. i \in b <=> j \in bs /\ j \in esc  BY <2>14, <2>15, <3>4, <4>1 DEF Good
      <4>4. i \in p <=> i \in bs  BY <2>9, <3>4
      <4>5. i \in esc <=> j \in bs /\ j \notin esc  BY <4>1
      <4> QED  BY <3>1, <3>4, <4>2, <4>3, <4>4, <4>5
    <3> QED  BY <3>2, <3>3, <3>4
  <2>16. ASSUME NEW i \in Bits, i < k PROVE i \in r.mask <=> i \in esc
    <3>1. i \in r.mask <=> ~(i \in code <=> i \in bs \/ (i = 0 /\ c = TRUE))
      BY <2>3 DEF Xor, Low
    <3> QED  BY <2>15, <2>16, <3>1
  <2>17. ASSUME k = Width PROVE r.next \in BOOLEAN /\ (r.next = TRUE <=> k \in esc)
    <3>1. PICK i \in Bits : i = k - 1 /\ i < k /\ i + 1 = k /\ i = Width - 1  BY <1>1, <2>17
    <3>2. r.next = TRUE <=> i \in code /\ i \in bs  BY <2>3, <3>1 DEF High
    <3>3. r.next \in BOOLEAN
      <4>1. High(code \cap bs) \in BOOLEAN  BY DEF High
      <4> QED  BY <2>3, <4>1
    <3> QED  BY <2>15, <3>1, <3>2, <3>3
  <2> QED  BY <2>16, <2>17
<1> QED  BY <1>2, <1>3

\* Each place of a mask's first k has the parity of the last n of a set's places.
Parity(x, n, par, k) ==
  /\ x \in SUBSET Bits
  /\ \A i \in Bits : i < k => (i \in x <=> ~(i + 1 \in par <=> (i + 1) - n \in par))

\* One shift more makes it that of twice as many.
LEMMA SpreadIs ==
  ASSUME NEW par, \A j \in Int : j <= 0 => j \notin par, NEW k \in Nat,
         NEW m, NEW n \in Nat, Parity(m, n, par, k),
         NEW x, x = Spread(m, n), NEW d, d = 2 * n
  PROVE  Parity(x, d, par, k)
<1>1. PICK w \in Nat \ {0} : w = Width /\ Bits = 0..(w - 1)  BY SizesAssumption DEF Bits
<1>2. x = Xor(m, ShiftLeft(m, n)) /\ m \in SUBSET Bits  BY DEF Spread, Parity
<1>3. x \in SUBSET Bits  BY <1>2 DEF Xor, ShiftLeft
<1>4. ASSUME NEW i \in Bits, i < k
      PROVE  i \in x <=> ~(i + 1 \in par <=> (i + 1) - d \in par)
  <2>1. i \in x <=> ~(i \in m <=> i \in ShiftLeft(m, n))  BY <1>2, <1>4 DEF Xor
  <2>2. i \in m <=> ~(i + 1 \in par <=> (i + 1) - n \in par)  BY <1>4 DEF Parity
  <2>3. CASE i >= n
    <3>1. PICK j \in Bits : j = i - n /\ j < k  BY <1>1, <1>4, <2>3
    <3>2. i \in ShiftLeft(m, n) <=> j \in m  BY <1>1, <1>2, <3>1 DEF ShiftLeft
    <3>3. j \in m <=> ~(j + 1 \in par <=> (j + 1) - n \in par)  BY <3>1 DEF Parity
    <3>4. j + 1 = (i + 1) - n /\ (j + 1) - n = (i + 1) - d  BY <1>1, <3>1
    <3> QED  BY <2>1, <2>2, <3>2, <3>3, <3>4
  <2>4. CASE i < n
    <3>1. i \notin ShiftLeft(m, n)  BY <1>1, <1>2, <2>4 DEF ShiftLeft
    <3>2. (i + 1) - n \notin par /\ (i + 1) - d \notin par
      <4>1. (i + 1) - n \in Int /\ (i + 1) - n <= 0 /\ (i + 1) - d \in Int /\ (i + 1) - d <= 0
        BY <1>1, <2>4
      <4> QED  BY <4>1
    <3> QED  BY <2>1, <2>2, <3>1, <3>2
  <2> QED  BY <1>1, <2>3, <2>4
<1> QED  BY <1>3, <1>4 DEF Parity

\* Six of them make a place's parity that of all the places up to it.
LEMMA PrefixXorIs ==
  ASSUME NEW m \in SUBSET Bits, NEW k \in Nat, NEW par, \A j \in Int : j <= 0 => j \notin par,
         \A i \in Bits : i < k => (i \in m <=> ~(i + 1 \in par <=> i \in par))
  PROVE  /\ PrefixXor(m) \in SUBSET Bits
         /\ \A i \in Bits : i < k => (i \in PrefixXor(m) <=> i + 1 \in par)
<1>1. PICK w \in Nat \ {0} : w = Width /\ Bits = 0..(w - 1) /\ w <= 64  BY SizesAssumption DEF Bits
<1>2. Parity(m, 1, par, k)
  <2>1. \A i \in Bits : (i + 1) - 1 = i  BY <1>1
  <2> QED  BY <2>1 DEF Parity
<1>3. PICK x1 : x1 = Spread(m, 1)  OBVIOUS
<1>4. PICK x2 : x2 = Spread(x1, 2)  OBVIOUS
<1>5. PICK x3 : x3 = Spread(x2, 4)  OBVIOUS
<1>6. PICK x4 : x4 = Spread(x3, 8)  OBVIOUS
<1>7. PICK x5 : x5 = Spread(x4, 16)  OBVIOUS
<1>8. PICK x6 : x6 = Spread(x5, 32)  OBVIOUS
<1>9. x6 = PrefixXor(m)  BY <1>3, <1>4, <1>5, <1>6, <1>7, <1>8 DEF PrefixXor
<1>10. Parity(x1, 2, par, k)  BY <1>2, <1>3, SpreadIs
<1>11. Parity(x2, 4, par, k)  BY <1>10, <1>4, SpreadIs
<1>12. Parity(x3, 8, par, k)  BY <1>11, <1>5, SpreadIs
<1>13. Parity(x4, 16, par, k)  BY <1>12, <1>6, SpreadIs
<1>14. Parity(x5, 32, par, k)  BY <1>13, <1>7, SpreadIs
<1>15. Parity(x6, 64, par, k)  BY <1>14, <1>8, SpreadIs
<1>16. ASSUME NEW i \in Bits PROVE (i + 1) - 64 \notin par
  <2>1. (i + 1) - 64 \in Int /\ (i + 1) - 64 <= 0  BY <1>1
  <2> QED  BY <2>1
<1> QED  BY <1>9, <1>15, <1>16 DEF Parity

\* Before which of the first k places a string is open, from the quotes and what comes in.
Quoting(quotes, c, k, ins) ==
  /\ c.prevInString \in BOOLEAN /\ (0 \in ins <=> c.prevInString = TRUE)
  /\ \A i \in Bits : i < k => (i + 1 \in ins <=> ~(i \in ins <=> i \in quotes))

QuotedTo(m, k, ins) == \A i \in Bits : i < k => (i \in m <=> i + 1 \in ins)

\* The prefix xor finds them.
LEMMA InStringIs ==
  ASSUME NEW quotes \in SUBSET Bits, NEW c, NEW k \in 0..Width, NEW ins, Quoting(quotes, c, k, ins),
         NEW r, r = InString(quotes, c)
  PROVE  QuotedTo(r, k, ins)
<1> SUFFICES ASSUME c.prevInString \in BOOLEAN, 0 \in ins <=> c.prevInString = TRUE,
                    \A i \in Bits : i < k => (i + 1 \in ins <=> ~(i \in ins <=> i \in quotes))
             PROVE  \A i \in Bits : i < k => (i \in r <=> i + 1 \in ins)
  BY DEF Quoting, QuotedTo
<1>1. PICK w \in Nat \ {0} : w = Width /\ Bits = 0..(w - 1)  BY SizesAssumption DEF Bits
<1>2. PICK p : p = c.prevInString /\ p \in BOOLEAN  OBVIOUS
<1>3. PICK par : par = {i \in Nat : ~(i \in ins <=> p = TRUE)}  OBVIOUS
<1>4. \A j \in Int : j <= 0 => j \notin par  BY <1>2, <1>3
<1>5. \A i \in Bits : i < k => (i \in quotes <=> ~(i + 1 \in par <=> i \in par))
  BY <1>1, <1>3
<1>6. ASSUME NEW i \in Bits, i < k
      PROVE  i \in (IF quotes = {} THEN {} ELSE PrefixXor(quotes)) <=> i + 1 \in par
  <2>1. k \in Nat  BY <1>1
  <2>2. i \in PrefixXor(quotes) <=> i + 1 \in par  BY <1>4, <1>5, <1>6, <2>1, PrefixXorIs
  <2>3. ASSUME quotes = {} PROVE i + 1 \notin par
    <3> DEFINE T == {j \in Nat : j <= k => j \notin par}
    <3>1. 0 \in T  BY <1>4
    <3>2. ASSUME NEW j \in T PROVE j + 1 \in T
      <4>1. SUFFICES ASSUME j + 1 <= k PROVE j + 1 \notin par  OBVIOUS
      <4>2. j \in Bits /\ j < k /\ j <= k  BY <1>1, <4>1
      <4> QED  BY <1>5, <2>3, <4>2
    <3> HIDE DEF T
    <3>3. T = Nat  BY <3>1, <3>2, Induction DEF T
    <3>4. i + 1 \in Nat /\ i + 1 <= k  BY <1>1, <1>6
    <3> QED  BY <3>3, <3>4 DEF T
  <2> QED  BY <2>2, <2>3
<1>7. r = Xor(IF quotes = {} THEN {} ELSE PrefixXor(quotes), IF p THEN Bits ELSE {})
  BY <1>2 DEF InString
<1>8. ASSUME NEW i \in Bits, i < k PROVE i \in r <=> i + 1 \in ins
  <2>1. PICK q : q = IF quotes = {} THEN {} ELSE PrefixXor(quotes)  OBVIOUS
  <2>2. i \in q <=> i + 1 \in par  BY <1>6, <1>8, <2>1
  <2>3. i \in r <=> ~(i \in q <=> p = TRUE)  BY <1>2, <1>7, <1>8, <2>1 DEF Xor
  <2>4. i + 1 \in Nat  BY <1>1
  <2> QED  BY <1>2, <1>3, <2>2, <2>3, <2>4
<1> QED  BY <1>8

\* The characters of the text read one by one: e, s and r are the places before which
\* the next character is escaped, is in a string, and comes behind a scalar one.
IsQuote(x, p, e) == x = "quote" /\ p \notin e

IsScalar(x, p, e) == ~IsQuote(x, p, e) /\ x # "op" /\ (x = "ws" => minified)

Steps(x, p, e, s, r) ==
  /\ p + 1 \in e <=> x = "esc" /\ p \notin e
  /\ p + 1 \in s <=> ~(p \in s <=> IsQuote(x, p, e))
  /\ p + 1 \in r <=> IsScalar(x, p, e)

Listed(x, p, e, s, r) ==
  p \notin s /\ (x = "op" \/ IsQuote(x, p, e) \/ (IsScalar(x, p, e) /\ p \notin r))

\* A carry says what comes at place k.
CarryIs(c, k, e, s, r) ==
  /\ c.nextIsEscaped \in BOOLEAN /\ c.prevInString \in BOOLEAN /\ c.prevScalar \in BOOLEAN
  /\ c.nextIsEscaped = TRUE <=> k \in e
  /\ c.prevInString = TRUE <=> k \in s
  /\ c.prevScalar = TRUE <=> k \in r

\* A block reads its first k characters one by one, and all of them for the carry.
LEMMA BlockReads ==
  ASSUME NEW chars, NEW c, NEW k \in 0..Width, NEW e, NEW s, NEW r,
         CarryIs(c, 0, e, s, r), \A i \in Bits : i < k => Steps(chars[i], i, e, s, r),
         NEW b, b = Block(chars, c)
  PROVE  /\ \A i \in Bits : i < k => (i \in b.bits <=> Listed(chars[i], i, e, s, r))
         /\ k = Width => CarryIs(b.carry, k, e, s, r)
<1>1. PICK w \in Nat \ {0} : w = Width /\ Bits = 0..(w - 1)  BY SizesAssumption DEF Bits
<1>2. PICK bs \in SUBSET Bits : bs = Of(chars, "esc")  BY DEF Of
<1>3. PICK esc : esc = EscapedIn(bs, c.nextIsEscaped)  OBVIOUS
<1>4. PICK quotes \in SUBSET Bits : quotes = Of(chars, "quote") \ esc.mask  BY DEF Of
<1>5. PICK op : op = Of(chars, "op")  OBVIOUS
<1>6. PICK in : in = InString(quotes, c)  OBVIOUS
<1>7. PICK scalar : scalar = Scalar(chars, quotes)  OBVIOUS
<1>8. PICK follows : follows = ShiftLeft(scalar, 1) \cup Low(c.prevScalar)  OBVIOUS
<1>9. /\ b.bits = (op \cup quotes \cup (scalar \ follows)) \ Xor(in, quotes)
      /\ b.carry.nextIsEscaped = esc.next
      /\ b.carry.prevInString = IF quotes = {} THEN c.prevInString ELSE High(in)
      /\ b.carry.prevScalar = High(scalar)
  BY <1>2, <1>3, <1>4, <1>5, <1>6, <1>7, <1>8 DEF Block, Structurals
<1>10. EscapedTo(esc, k, e)
  <2>1. PICK n : n = c.nextIsEscaped /\ n \in BOOLEAN /\ (0 \in e <=> n = TRUE)  BY DEF CarryIs
  <2>2. Escaping(bs, n, k, e)  BY <1>2, <2>1 DEF Of, Steps, Escaping
  <2>3. esc = EscapedIn(bs, n)  BY <1>3, <2>1
  <2> QED  BY <2>1, <2>2, <2>3, EscapedIs
<1>11. \A i \in Bits : i < k => (i \in quotes <=> IsQuote(chars[i], i, e))
  BY <1>4, <1>10 DEF Of, IsQuote, EscapedTo
<1>12. QuotedTo(in, k, s)
  <2>1. Quoting(quotes, c, k, s)  BY <1>11 DEF Steps, CarryIs, Quoting
  <2> QED  BY <1>6, <2>1, InStringIs
<1>13. \A i \in Bits : i < k => (i \in scalar <=> IsScalar(chars[i], i, e))
  BY <1>7, <1>11 DEF Scalar, Of, IsScalar
<1>14. \A i \in Bits : i < k => (i + 1 \in r <=> i \in scalar)
  BY <1>13 DEF Steps
<1>15. ASSUME NEW i \in Bits, i < k PROVE i \in follows <=> i \in r
  <2>1. i \in follows <=> i \in ShiftLeft(scalar, 1) \/ i \in Low(c.prevScalar)  BY <1>8
  <2>2. scalar \subseteq Bits  BY <1>7 DEF Scalar
  <2>3. CASE i = 0
    <3>1. i \notin ShiftLeft(scalar, 1)  BY <1>1, <2>2, <2>3 DEF ShiftLeft
    <3>2. i \in Low(c.prevScalar) <=> i \in r  BY <2>3 DEF Low, CarryIs
    <3> QED  BY <2>1, <3>1, <3>2
  <2>4. CASE i # 0
    <3>1. PICK j \in Bits : j = i - 1 /\ j + 1 = i /\ j < k  BY <1>1, <1>15, <2>4
    <3>2. i \in ShiftLeft(scalar, 1) <=> j \in scalar  BY <1>1, <2>2, <3>1 DEF ShiftLeft
    <3>3. i \notin Low(c.prevScalar)  BY <2>4 DEF Low
    <3>4. j \in scalar <=> i \in r  BY <1>14, <3>1
    <3> QED  BY <2>1, <3>2, <3>3, <3>4
  <2> QED  BY <2>3, <2>4
<1>16. ASSUME NEW i \in Bits, i < k PROVE i \in b.bits <=> Listed(chars[i], i, e, s, r)
  <2>1. i \in b.bits <=> (i \in op \/ i \in quotes \/ (i \in scalar /\ i \notin follows)) /\ ~(~(i \in in <=> i \in quotes))
    BY <1>9 DEF Xor
  <2>2. (i \in in <=> i \in quotes) <=> i \notin s
    <3>1. i + 1 \in s <=> ~(i \in s <=> IsQuote(chars[i], i, e))  BY <1>16 DEF Steps
    <3> QED  BY <1>11, <1>12, <1>16, <3>1 DEF QuotedTo
  <2>3. i \in op <=> chars[i] = "op"  BY <1>5 DEF Of
  <2> QED  BY <1>11, <1>13, <1>15, <1>16, <2>1, <2>2, <2>3 DEF Listed
<1>17. ASSUME k = Width PROVE CarryIs(b.carry, k, e, s, r)
  <2>1. PICK i \in Bits : i = w - 1 /\ i < k /\ i + 1 = k /\ i = Width - 1  BY <1>1, <1>17
  <2>2. b.carry.nextIsEscaped \in BOOLEAN /\ (b.carry.nextIsEscaped = TRUE <=> k \in e)
    <3> QED  BY <1>9, <1>10, <1>17 DEF EscapedTo
  <2>3. b.carry.prevScalar \in BOOLEAN /\ (b.carry.prevScalar = TRUE <=> k \in r)
    <3>1. High(scalar) \in BOOLEAN  BY DEF High
    <3>2. High(scalar) = TRUE <=> i \in scalar  BY <2>1 DEF High
    <3> QED  BY <1>9, <1>14, <2>1, <3>1, <3>2
  <2>4. CASE quotes # {}
    <3>1. b.carry.prevInString \in BOOLEAN /\ (b.carry.prevInString = TRUE <=> k \in s)
      <4>1. High(in) \in BOOLEAN  BY DEF High
      <4>2. High(in) = TRUE <=> i \in in  BY <2>1 DEF High
      <4>3. i \in in <=> k \in s  BY <1>12, <2>1 DEF QuotedTo
      <4> QED  BY <1>9, <2>4, <4>1, <4>2, <4>3
    <3> QED  BY <2>2, <2>3, <3>1 DEF CarryIs
  <2>5. CASE quotes = {}
    <3> DEFINE T == {j \in Nat : j <= k => (j \in s <=> 0 \in s)}
    <3>1. 0 \in T  OBVIOUS
    <3>2. ASSUME NEW j \in T PROVE j + 1 \in T
      <4>1. SUFFICES ASSUME j + 1 <= k PROVE j + 1 \in s <=> 0 \in s  OBVIOUS
      <4>2. j \in Bits /\ j < k /\ (j \in s <=> 0 \in s)  BY <1>1, <4>1
      <4>3. j + 1 \in s <=> ~(j \in s <=> IsQuote(chars[j], j, e))  BY <4>2 DEF Steps
      <4> QED  BY <1>11, <2>5, <4>2, <4>3
    <3> HIDE DEF T
    <3>3. T = Nat  BY <3>1, <3>2, Induction DEF T
    <3>4. k \in s <=> 0 \in s  BY <1>1, <1>17, <3>3 DEF T
    <3>5. b.carry.prevInString = c.prevInString  BY <1>9, <2>5
    <3>6. b.carry.prevInString \in BOOLEAN /\ (b.carry.prevInString = TRUE <=> k \in s)
      BY <3>4, <3>5 DEF CarryIs
    <3> QED  BY <2>2, <2>3, <3>6 DEF CarryIs
  <2> QED  BY <2>4, <2>5
<1> QED  BY <1>16, <1>17

\* The whole text, read one character after the other from a fresh start.
Reading(e, s, r) ==
  /\ 0 \notin e /\ 0 \notin s /\ 0 \notin r
  /\ \A p \in 0..(length - 1) : Steps(text[p + 1], p, e, s, r)

\* The bits of the block at a place, those before the end of the text.
Found(bits, base, e, s, r) ==
  \A i \in Bits : base + i < length => (i \in bits <=> Listed(text[base + i + 1], base + i, e, s, r))

\* A block of the text finds its entries, given what comes at its first character.
LEMMA BlockFinds ==
  ASSUME index \in Nat, length \in Nat, NEW e, NEW s, NEW r, Reading(e, s, r),
         NEW n \in 1..BlocksPerStep, NEW base \in Nat, base = index + (n - 1) * Width, base <= length,
         NEW c, CarryIs(c, base, e, s, r), NEW b, b = Block(Chars(n), c)
  PROVE  /\ Found(b.bits, base, e, s, r)
         /\ base + Width <= length => CarryIs(b.carry, base + Width, e, s, r)
<1>1. PICK w \in Nat \ {0} : w = Width /\ Bits = 0..(w - 1)  BY SizesAssumption DEF Bits
<1>2. PICK k \in 0..Width : k = IF base + w <= length THEN w ELSE length - base
  <2>1. CASE base + w <= length  BY <1>1, <2>1
  <2>2. CASE ~(base + w <= length)
    <3>1. length - base \in 0..w  BY <1>1, <2>2
    <3> QED  BY <1>1, <2>2, <3>1
  <2> QED  BY <2>1, <2>2
<1>3. PICK chars : chars = Chars(n)  OBVIOUS
<1>4. PICK le, ls, lr : /\ le = {i \in 0..w : base + i \in e}
                        /\ ls = {i \in 0..w : base + i \in s}
                        /\ lr = {i \in 0..w : base + i \in r}
  OBVIOUS
<1>5. \A i \in 0..w : /\ i \in le <=> base + i \in e
                      /\ i \in ls <=> base + i \in s
                      /\ i \in lr <=> base + i \in r
  BY <1>4
<1>6. \A i \in Bits : i < k => base + i < length /\ chars[i] = text[base + i + 1]
  <2>1. SUFFICES ASSUME NEW i \in Bits, i < k PROVE base + i < length /\ chars[i] = text[base + i + 1]
    OBVIOUS
  <2>2. base + i < length  BY <1>1, <1>2, <2>1
  <2>3. chars[i] = LET p == index + (n - 1) * Width + i IN IF p < length THEN text[p + 1] ELSE "ws"
    BY <1>3 DEF Chars
  <2> QED  BY <2>2, <2>3
<1>7. ASSUME NEW i \in Bits, i < k
      PROVE  /\ Steps(chars[i], i, le, ls, lr)
             /\ Listed(chars[i], i, le, ls, lr) <=> Listed(text[base + i + 1], base + i, e, s, r)
  <2>1. PICK p \in 0..(length - 1) : p = base + i /\ chars[i] = text[p + 1]
    <3>1. base + i < length /\ chars[i] = text[base + i + 1]  BY <1>6, <1>7
    <3>2. base + i \in 0..(length - 1)  BY <1>1, <3>1
    <3> QED  BY <3>1, <3>2
  <2>2. Steps(text[p + 1], p, e, s, r)  BY <2>1 DEF Reading
  <2>3. i \in 0..w /\ i + 1 \in 0..w /\ base + (i + 1) = p + 1  BY <1>1, <2>1
  <2>4. /\ (i \in le <=> p \in e) /\ (i \in ls <=> p \in s) /\ (i \in lr <=> p \in r)
        /\ (i + 1 \in le <=> p + 1 \in e) /\ (i + 1 \in ls <=> p + 1 \in s) /\ (i + 1 \in lr <=> p + 1 \in r)
    BY <1>5, <2>1, <2>3
  <2>5. PICK x : x = chars[i] /\ x = text[p + 1]  BY <2>1
  <2>6. IsQuote(x, i, le) <=> IsQuote(x, p, e)  BY <2>4 DEF IsQuote
  <2>7. IsScalar(x, i, le) <=> IsScalar(x, p, e)  BY <2>6 DEF IsScalar
  <2>8. Steps(x, i, le, ls, lr)  BY <2>2, <2>4, <2>5, <2>6, <2>7 DEF Steps
  <2>9. Listed(x, i, le, ls, lr) <=> Listed(x, p, e, s, r)  BY <2>4, <2>6, <2>7 DEF Listed
  <2> QED  BY <2>1, <2>5, <2>8, <2>9
<1>8. CarryIs(c, 0, le, ls, lr)
  <2>1. 0 \in 0..w /\ base + 0 = base  BY <1>1
  <2>2. (0 \in le <=> base \in e) /\ (0 \in ls <=> base \in s) /\ (0 \in lr <=> base \in r)
    BY <1>5, <2>1
  <2> QED  BY <2>2 DEF CarryIs
<1>9. /\ \A i \in Bits : i < k => (i \in b.bits <=> Listed(chars[i], i, le, ls, lr))
      /\ k = Width => CarryIs(b.carry, k, le, ls, lr)
  BY <1>3, <1>7, <1>8, BlockReads
<1>10. Found(b.bits, base, e, s, r)
  <2>1. \A i \in Bits : base + i < length => i < k  BY <1>1, <1>2
  <2> QED  BY <1>7, <1>9, <2>1 DEF Found
<1>11. ASSUME base + Width <= length PROVE CarryIs(b.carry, base + Width, e, s, r)
  <2>1. k = Width /\ k \in 0..w  BY <1>1, <1>2, <1>11
  <2>2. (k \in le <=> base + k \in e) /\ (k \in ls <=> base + k \in s) /\ (k \in lr <=> base + k \in r)
    BY <1>5, <2>1
  <2>3. CarryIs(b.carry, k, le, ls, lr)  BY <1>9, <2>1
  <2> QED  BY <2>1, <2>2, <2>3 DEF CarryIs
<1> QED  BY <1>10, <1>11

\* The first block has the carry of the step before.
LEMMA BlocksStart == Blocks[0].carry = carry
<1>1. PICK z \in Nat : z = BlocksPerStep  BY SizesAssumption
<1>2. Blocks = CHOOSE f : BlocksOf(f, z)  BY <1>1 DEF Blocks, BlocksOf
<1>3. BlocksOf(Blocks, z)  BY <1>2, BlocksExist
<1> QED  BY <1>1, <1>3 DEF BlocksOf

\* So do all the blocks of a step, each with the carry of the one before.
LEMMA BlocksFind ==
  ASSUME index \in Nat, length \in Nat, index <= length, NEW e, NEW s, NEW r, Reading(e, s, r),
         CarryIs(carry, index, e, s, r)
  PROVE  /\ \A n \in 1..BlocksPerStep : Found(Blocks[n].bits, index + (n - 1) * Width, e, s, r)
         /\ \A n \in 0..BlocksPerStep :
              index + n * Width <= length => CarryIs(Blocks[n].carry, index + n * Width, e, s, r)
<1>1. PICK z \in Nat, w \in Nat : z = BlocksPerStep /\ w = Width  BY SizesAssumption
<1> DEFINE Good(n) == index + n * w <= length => CarryIs(Blocks[n].carry, index + n * w, e, s, r)
           T == {n \in Nat : n <= z => Good(n)}
<1>2. Good(0)
  <2>1. index + 0 * w = index  BY <1>1
  <2>2. Blocks[0].carry = carry  BY BlocksStart
  <2> QED  BY <2>1, <2>2
<1>3. ASSUME NEW n \in 1..z, Good(n - 1)
      PROVE  Good(n) /\ Found(Blocks[n].bits, index + (n - 1) * w, e, s, r)
  <2>1. PICK base \in Nat : base = index + (n - 1) * Width /\ base = index + (n - 1) * w
                            /\ base + w = index + n * w
    <3>1. (n - 1) * w \in Nat /\ (n - 1) * w + w = n * w  BY <1>1, <1>3
    <3> QED  BY <1>1, <3>1
  <2>2. CASE base <= length
    <3>1. n \in 1..BlocksPerStep  BY <1>1
    <3>2. PICK c, b : c = Blocks[n - 1].carry /\ b = Block(Chars(n), c) /\ b = Blocks[n]  BY <3>1, BlocksAre
    <3>3. CarryIs(c, base, e, s, r)  BY <1>3, <2>1, <2>2, <3>2
    <3>4. /\ Found(b.bits, base, e, s, r)
          /\ base + Width <= length => CarryIs(b.carry, base + Width, e, s, r)
      BY <2>1, <2>2, <3>1, <3>2, <3>3, BlockFinds
    <3> QED  BY <1>1, <2>1, <3>2, <3>4
  <2>3. CASE base > length
    <3>1. \A i \in Bits : ~(base + i < length)  BY <2>1, <2>3, SizesAssumption DEF Bits
    <3>2. Found(Blocks[n].bits, base, e, s, r)  BY <3>1 DEF Found
    <3>3. ~(base + w <= length)  BY <1>1, <2>1, <2>3
    <3> QED  BY <2>1, <3>2, <3>3
  <2> QED  BY <2>1, <2>2, <2>3
<1>4. T = Nat
  <2> HIDE DEF Good
  <2>1. 0 \in T  BY <1>2
  <2>2. ASSUME NEW n \in T PROVE n + 1 \in T
    <3>1. SUFFICES ASSUME n + 1 <= z PROVE Good(n + 1)  OBVIOUS
    <3>2. PICK m \in 1..z : m = n + 1 /\ m - 1 = n  BY <1>1, <3>1
    <3>3. Good(m - 1)  BY <3>1, <3>2
    <3> QED  BY <1>3, <3>2, <3>3
  <2> HIDE DEF T
  <2> QED  BY <2>1, <2>2, Induction DEF T
<1>5. ASSUME NEW n \in 0..z PROVE Good(n)
  <2> HIDE DEF Good
  <2> QED  BY <1>1, <1>4 DEF T
<1>6. ASSUME NEW n \in 1..z PROVE Found(Blocks[n].bits, index + (n - 1) * w, e, s, r)
  <2>1. n - 1 \in 0..z  BY <1>1
  <2>2. Good(n - 1)  BY <1>5, <2>1
  <2> HIDE DEF Good
  <2> QED  BY <1>3, <2>2
<1> QED  BY <1>1, <1>5, <1>6

\* Taken one after the other, every bit of a mask comes.
LEMMA LeftTakesAll ==
  ASSUME NEW bits \in SUBSET Bits, NEW c \in Nat, c = Cardinality(bits),
         NEW left, left[0] = bits, \A k \in 1..c : left[k] = Remaining(left[k - 1]),
         NEW b \in bits
  PROVE  \E k \in 0..(c - 1) : Lowest(left[k]) = b
<1>1. \A k \in 0..c : left[k] \in SUBSET bits /\ Cardinality(left[k]) = c - k
  <2>1. \A k \in 0..c : left[k] \in SUBSET bits /\ (k <= c => Cardinality(left[k]) = c - k)
    BY SMTT(30), LeftIs
  <2> QED  BY <2>1
<1>2. left[c] = {}
  <2>1. PICK m \in SUBSET Bits : m = left[c] /\ Cardinality(m) = 0  BY <1>1
  <2> QED  BY <2>1, MaskIsFinite, FS_EmptySet
<1> DEFINE T == {k \in Nat : k <= c /\ b \notin left[k]}
<1>3. T \subseteq Nat /\ T # {}
  <2>1. c \in T  BY <1>2
  <2> QED  BY <2>1
<1>4. PICK k \in T : \A j \in T : k <= j  BY <1>3, LeastNat
<1>5. k # 0  BY <1>4
<1>6. PICK j \in 0..(c - 1) : j = k - 1 /\ j + 1 = k  BY <1>4, <1>5
<1>7. b \in left[j]  BY <1>4, <1>6
<1>8. left[k] = left[j] \ {Lowest(left[j])}  BY <1>4, <1>5, <1>6 DEF Remaining
<1> QED  BY <1>4, <1>6, <1>7, <1>8

AllOf(l, at, c, base, bits) == \A b \in bits : \E k \in 0..(c - 1) : l[at + k] = base + b

\* What drainLane writes has them all.
LEMMA LaneHasAll ==
  ASSUME NEW at \in Nat, NEW base \in Nat, NEW bits \in SUBSET Bits,
         NEW c \in Nat, c = Cardinality(bits), NEW l, l = Lane(at, base, bits)
  PROVE  AllOf(l, at, c, base, bits)
<1> SUFFICES ASSUME NEW b \in bits PROVE \E k \in 0..(c - 1) : l[at + k] = base + b
  BY DEF AllOf
<1>1. PICK size \in Nat : size = Groups(c) * TapeStep /\ c <= size  BY GroupsCover
<1>2. PICK left : left = CHOOSE f : LeftOf(f, bits, size)  OBVIOUS
<1>3. l = [i \in at..(at + size - 1) |-> base + Lowest(left[i - at])]
  BY <1>1, <1>2 DEF Lane, LeftOf
<1>4. left[0] = bits /\ \A k \in 1..c : left[k] = Remaining(left[k - 1])
  <2>1. \E f : LeftOf(f, bits, size)  BY LeftExists
  <2>2. LeftOf(left, bits, size)  BY <1>2, <2>1
  <2> QED  BY <1>1, <2>2 DEF LeftOf
<1>5. PICK k \in 0..(c - 1) : Lowest(left[k]) = b  BY <1>4, LeftTakesAll
<1>6. PICK i \in at..(at + size - 1) : i = at + k /\ i - at = k  BY <1>1
<1> QED  BY <1>3, <1>5, <1>6

\* The entries of a tape.
Values(t, count) == {t[i] : i \in 0..(count - 1)}

\* The entries of a block.
Shifted(base, bits) == {base + b : b \in bits}

\* A lane adds those of its block.
LEMMA LanedValues ==
  ASSUME NEW base \in Nat, NEW d, d.count \in Nat, Rising(d.tape, d.count, base), NEW bits \in SUBSET Bits,
         NEW r, r = Laned(d, base, bits)
  PROVE  Values(r.tape, r.count) = Values(d.tape, d.count) \cup Shifted(base, bits)
<1>1. PICK c \in Nat : c = Cardinality(bits)  BY MaskIsFinite
<1>2. PICK at \in Nat : at = d.count  OBVIOUS
<1>3. PICK l : l = Lane(at, base, bits)  OBVIOUS
<1>4. PICK size \in Nat : size = Groups(c) * TapeStep /\ c <= size  BY GroupsCover
<1>5. r.count = at + c /\ r.tape = Over(d.tape, l)  BY <1>1, <1>2, <1>3 DEF Laned
<1>6. /\ DOMAIN l = at..(at + size - 1)
      /\ \A k \in 0..(c - 1) : \E b \in bits : l[at + k] = base + b
  <2>1. RisingLane(l, at, size, c, base, bits)  BY <1>1, <1>3, <1>4, LaneIs
  <2> QED  BY <2>1 DEF RisingLane
<1>7. \A k \in 0..(c - 1) : r.tape[at + k] = l[at + k]
  <2>1. SUFFICES ASSUME NEW k \in 0..(c - 1) PROVE r.tape[at + k] = l[at + k]  OBVIOUS
  <2>2. PICK i : i = at + k /\ i \in DOMAIN l  BY <1>4, <1>6
  <2> QED  BY <1>5, <2>2 DEF Over
<1>8. \A i \in 0..(at - 1) : r.tape[i] = d.tape[i]
  <2>1. SUFFICES ASSUME NEW i \in 0..(at - 1) PROVE r.tape[i] = d.tape[i]  OBVIOUS
  <2>2. i \in DOMAIN d.tape /\ i \notin DOMAIN l  BY <1>2, <1>4, <1>6 DEF Rising
  <2> QED  BY <1>5, <2>2 DEF Over
<1>9. ASSUME NEW x \in Values(r.tape, r.count)
      PROVE  x \in Values(d.tape, d.count) \cup Shifted(base, bits)
  <2>1. PICK i \in 0..(at + c - 1) : x = r.tape[i]  BY <1>5, <1>9 DEF Values
  <2>2. CASE i < at  BY <1>2, <1>8, <2>1, <2>2 DEF Values
  <2>3. CASE i >= at
    <3>1. PICK k \in 0..(c - 1) : i = at + k
      <4>1. i - at \in 0..(c - 1) /\ i = at + (i - at)  BY <2>3
      <4> QED  BY <4>1
    <3> QED  BY <1>6, <1>7, <2>1, <3>1 DEF Shifted
  <2> QED  BY <2>2, <2>3
<1>10. ASSUME NEW x \in Values(d.tape, d.count) PROVE x \in Values(r.tape, r.count)
  <2>1. PICK i \in 0..(at - 1) : x = d.tape[i]  BY <1>2, <1>10 DEF Values
  <2>2. i \in 0..(at + c - 1)  OBVIOUS
  <2> QED  BY <1>5, <1>8, <2>1, <2>2 DEF Values
<1>11. ASSUME NEW b \in bits PROVE base + b \in Values(r.tape, r.count)
  <2>0. AllOf(l, at, c, base, bits)  BY <1>1, <1>3, LaneHasAll
  <2>1. PICK k \in 0..(c - 1) : l[at + k] = base + b  BY <1>11, <2>0 DEF AllOf
  <2>2. at + k \in 0..(at + c - 1)  OBVIOUS
  <2> QED  BY <1>5, <1>7, <2>1, <2>2 DEF Values
<1> QED  BY <1>9, <1>10, <1>11 DEF Shifted

\* A tape has the entries of the text up to a bound, and none but those before its end.
Has(t, count, bound, e, s, r) ==
  \A p \in 0..(length - 1) : p \in Values(t, count) <=> p < bound /\ Listed(text[p + 1], p, e, s, r)

\* A step leaves the entries of its characters on the tape.
LEMMA DrainedHas ==
  ASSUME index \in Nat, length \in Nat, index <= length, Holds(Drained[0], index),
         NEW e, NEW s, NEW r, Reading(e, s, r), CarryIs(carry, index, e, s, r),
         Has(tape, tapeCount, index, e, s, r)
  PROVE  Has(Drained[BlocksPerStep].tape, Drained[BlocksPerStep].count, index + StepBytes, e, s, r)
<1>1. PICK z \in Nat, w \in Nat : z = BlocksPerStep /\ w = Width /\ StepBytes = w * z
  BY SizesAssumption DEF StepBytes
<1> DEFINE Good(n) == /\ Holds(Drained[n], index + n * w)
                      /\ Has(Drained[n].tape, Drained[n].count, index + n * w, e, s, r)
           T == {n \in Nat : n <= z => Good(n)}
<1>2. Good(0)
  <2>1. index + 0 * w = index  BY <1>1
  <2>2. Drained[0].tape = tape /\ Drained[0].count = tapeCount  BY DrainedIs
  <2> QED  BY <2>1, <2>2
<1>3. ASSUME NEW n \in Nat, n + 1 <= z, Good(n) PROVE Good(n + 1)
  <2>1. PICK m \in 1..BlocksPerStep : m = n + 1 /\ m - 1 = n  BY <1>1, <1>3
  <2>2. PICK base \in Nat, bound \in Nat : base = index + (m - 1) * Width /\ base = index + n * w
                                           /\ bound = index + m * w /\ bound = base + w
    <3>1. n * w \in Nat /\ (n + 1) * w = n * w + w  BY <1>1
    <3> QED  BY <1>1, <2>1, <3>1
  <2>3. PICK bits : bits = Blocks[m].bits /\ bits \in SUBSET Bits /\ \A b \in bits : base + b <= length
    BY <2>1, <2>2, EntriesEnd
  <2>4. PICK d, q : d = Drained[n] /\ q = Laned(d, base, bits) /\ q = Drained[m]
    BY <2>1, <2>2, <2>3, DrainedIs
  <2>5. Holds(d, base) /\ Has(d.tape, d.count, base, e, s, r)  BY <1>3, <2>2, <2>4
  <2>6. Holds(q, bound)  BY <1>1, <2>2, <2>3, <2>4, <2>5, LanedHolds
  <2>7. Found(bits, base, e, s, r)
    <3>1. Found(Blocks[m].bits, index + (m - 1) * Width, e, s, r)  BY <2>1, BlocksFind
    <3> QED  BY <2>2, <2>3, <3>1
  <2>8. Values(q.tape, q.count) = Values(d.tape, d.count) \cup Shifted(base, bits)
    <3>1. d.count \in Nat /\ Rising(d.tape, d.count, base)  BY <2>5 DEF Holds
    <3>2. bits \in SUBSET Bits /\ q = Laned(d, base, bits)  BY <2>3, <2>4
    <3> QED  BY <3>1, <3>2, LanedValues
  <2>9. ASSUME NEW p \in 0..(length - 1)
        PROVE  p \in Values(q.tape, q.count) <=> p < bound /\ Listed(text[p + 1], p, e, s, r)
    <3>1. p \in Values(d.tape, d.count) <=> p < base /\ Listed(text[p + 1], p, e, s, r)
      BY <2>5 DEF Has
    <3>2. p \in Shifted(base, bits) <=> base <= p /\ p < bound /\ Listed(text[p + 1], p, e, s, r)
      <4>1. Bits = 0..(w - 1)  BY <1>1 DEF Bits
      <4>2. ASSUME NEW b \in bits, p = base + b
            PROVE  base <= p /\ p < bound /\ Listed(text[p + 1], p, e, s, r)
        <5>1. b \in Bits /\ b \in Nat /\ b < w /\ base + b < length  BY <2>3, <4>1, <4>2
        <5>2. Listed(text[base + b + 1], base + b, e, s, r)  BY <2>7, <5>1 DEF Found
        <5>3. Listed(text[p + 1], p, e, s, r)  BY <4>2, <5>2
        <5>4. base <= p /\ p < bound  BY <2>2, <4>2, <5>1
        <5> QED  BY <5>3, <5>4
      <4>3. ASSUME base <= p, p < bound, Listed(text[p + 1], p, e, s, r)
            PROVE  p \in Shifted(base, bits)
        <5>1. PICK b \in Bits : p = base + b
          <6>1. p - base \in Bits /\ p = base + (p - base)  BY <2>2, <4>1, <4>3
          <6> QED  BY <6>1
        <5>2. base + b < length /\ Listed(text[base + b + 1], base + b, e, s, r)  BY <4>3, <5>1
        <5>3. b \in bits  BY <2>7, <5>2 DEF Found
        <5> QED  BY <5>1, <5>3 DEF Shifted
      <4> QED  BY <4>2, <4>3 DEF Shifted
    <3> QED  BY <2>2, <2>8, <3>1, <3>2
  <2>10. Has(q.tape, q.count, bound, e, s, r)  BY <2>9 DEF Has
  <2> QED  BY <2>1, <2>2, <2>4, <2>6, <2>10
<1> HIDE DEF Good
<1>4. 0 \in T  BY <1>2
<1>5. ASSUME NEW n \in T PROVE n + 1 \in T  BY <1>3
<1> HIDE DEF T
<1>6. T = Nat  BY <1>4, <1>5, Induction DEF T
<1>7. Good(z)  BY <1>1, <1>6 DEF T
<1>8. z * w = w * z  BY <1>1
<1> QED  BY <1>1, <1>7, <1>8 DEF Good

\* Trimming keeps the entries before the end.
LEMMA TrimmedValues ==
  ASSUME length \in Nat, NEW t, NEW count \in Nat, NEW bound, Rising(t, count, bound),
         NEW m, m = Trimmed(t, count), NEW p \in 0..(length - 1)
  PROVE  p \in Values(t, m) <=> p \in Values(t, count)
<1> DEFINE S == {0} \cup {n \in 1..count : t[n - 1] < length}
<1>1. m = Max(S)  BY DEF Trimmed
<1>2. S \subseteq Nat /\ S # {} /\ \A n \in S : n <= count  OBVIOUS
<1>3. m \in S /\ \A n \in S : n <= m
  <2> HIDE DEF S
  <2> QED  BY <1>1, <1>2, MaxIs
<1>4. m \in Nat /\ m <= count  BY <1>2, <1>3
<1>5. ASSUME NEW i \in 0..(count - 1), t[i] = p PROVE i \in 0..(m - 1)
  <2>1. i + 1 \in 1..count /\ (i + 1) - 1 = i  OBVIOUS
  <2>2. i + 1 \in S  BY <1>5, <2>1
  <2> HIDE DEF S
  <2>3. i + 1 <= m  BY <1>3, <2>2
  <2> QED  BY <1>4, <2>3
<1> HIDE DEF S
<1>6. \A i \in 0..(m - 1) : i \in 0..(count - 1)  BY <1>4
<1> QED  BY <1>5, <1>6 DEF Values

\* The same places by what the specification says of them.
Escapes == {p \in 0..length : Stage1!Escaped(p)}

Opens   == {p \in 0..length : Stage1!Inside(p)}

Scalars == {p \in 1..length : Stage1!Scalar(p - 1)}

\* A character is escaped if it stands behind a backslash that is not.
LEMMA EscapedNext ==
  ASSUME NEW p \in Nat
  PROVE  Stage1!Escaped(p + 1) <=> text[p + 1] = "esc" /\ ~Stage1!Escaped(p)
<1> DEFINE Run(q, n) == /\ n \in 0..q
                        /\ \A i \in (q - n)..(q - 1) : text[i + 1] = "esc"
                        /\ n < q => text[(q - n - 1) + 1] # "esc"
<1>1. \A q \in Nat : Stage1!Escaped(q) <=> \E n : Run(q, n) /\ n % 2 = 1
  BY DEF Stage1!Escaped, Stage1!At
<1>2. PICK m : Run(p, m)
  <2> DEFINE T == {n \in 0..p : \A i \in (p - n)..(p - 1) : text[i + 1] = "esc"}
  <2>1. 0 \in T  OBVIOUS
  <2>2. T \subseteq Nat /\ T # {} /\ \A n \in T : n <= p
    <3>1. T \subseteq Nat /\ \A n \in T : n <= p  OBVIOUS
    <3> HIDE DEF T
    <3> QED  BY <2>1, <3>1
  <2>3. PICK m \in T : \A n \in T : n <= m
    <3> HIDE DEF T
    <3> QED  BY <2>2, GreatestNat
  <2>4. ASSUME m < p, text[(p - m - 1) + 1] = "esc" PROVE FALSE
    <3>1. m + 1 \in 0..p  BY <2>3, <2>4
    <3>2. ASSUME NEW i \in (p - (m + 1))..(p - 1) PROVE text[i + 1] = "esc"
      <4>1. CASE i = p - m - 1  BY <2>4, <4>1
      <4>2. CASE i # p - m - 1
        <5>1. i \in (p - m)..(p - 1)  BY <2>3, <4>2
        <5> QED  BY <2>3, <5>1
      <4> QED  BY <4>1, <4>2
    <3>3. m + 1 \in T  BY <3>1, <3>2
    <3> QED  BY <2>3, <3>1, <3>3
  <2>5. Run(p, m)  BY <2>3, <2>4
  <2> QED  BY <2>5
<1>3. ASSUME NEW n, Run(p, n) PROVE n = m
  <2>1. ~(n < m)
    <3>1. SUFFICES ASSUME n < m PROVE FALSE  OBVIOUS
    <3>2. p - n - 1 \in (p - m)..(p - 1) /\ n < p  BY <1>2, <1>3, <3>1
    <3> QED  BY <1>2, <1>3, <3>2
  <2>2. ~(m < n)
    <3>1. SUFFICES ASSUME m < n PROVE FALSE  OBVIOUS
    <3>2. p - m - 1 \in (p - n)..(p - 1) /\ m < p  BY <1>2, <1>3, <3>1
    <3> QED  BY <1>2, <1>3, <3>2
  <2> QED  BY <1>2, <1>3, <2>1, <2>2
<1>4. Stage1!Escaped(p) <=> m % 2 = 1
  <2> HIDE DEF Run
  <2> QED  BY <1>1, <1>2, <1>3
<1>5. ASSUME text[p + 1] = "esc", m % 2 # 1 PROVE Stage1!Escaped(p + 1)
  <2>1. m + 1 \in 0..(p + 1) /\ (m + 1) % 2 = 1 /\ m \in Nat  BY <1>2, <1>5
  <2>2. ASSUME NEW i \in ((p + 1) - (m + 1))..((p + 1) - 1) PROVE text[i + 1] = "esc"
    <3>1. CASE i = p  BY <1>5, <3>1
    <3>2. CASE i # p
      <4>1. i \in (p - m)..(p - 1)  BY <1>2, <3>2
      <4> QED  BY <1>2, <4>1
    <3> QED  BY <3>1, <3>2
  <2>3. ASSUME m + 1 < p + 1 PROVE text[((p + 1) - (m + 1) - 1) + 1] # "esc"
    <3>1. m < p /\ (p + 1) - (m + 1) - 1 = p - m - 1  BY <1>2, <2>1, <2>3
    <3> QED  BY <1>2, <3>1
  <2>4. Run(p + 1, m + 1)  BY <2>1, <2>2, <2>3
  <2> HIDE DEF Run
  <2> QED  BY <1>1, <2>1, <2>4
<1>6. ASSUME Stage1!Escaped(p + 1) PROVE text[p + 1] = "esc" /\ m % 2 # 1
  <2>1. PICK n : Run(p + 1, n) /\ n % 2 = 1
    <3> HIDE DEF Run
    <3> QED  BY <1>1, <1>6
  <2>2. n \in 1..(p + 1) /\ p \in ((p + 1) - n)..((p + 1) - 1)  BY <2>1
  <2>3. text[p + 1] = "esc"  BY <2>1, <2>2
  <2>4. n - 1 \in 0..p  BY <2>2
  <2>5. ASSUME NEW i \in (p - (n - 1))..(p - 1) PROVE text[i + 1] = "esc"
    <3>1. i \in ((p + 1) - n)..((p + 1) - 1)  BY <2>2
    <3> QED  BY <2>1, <3>1
  <2>6. ASSUME n - 1 < p PROVE text[(p - (n - 1) - 1) + 1] # "esc"
    <3>1. n < p + 1 /\ p - (n - 1) - 1 = (p + 1) - n - 1  BY <2>2, <2>6
    <3> QED  BY <2>1, <3>1
  <2>7. Run(p, n - 1)  BY <2>4, <2>5, <2>6
  <2>8. n - 1 = m  BY <1>3, <2>7
  <2>9. m % 2 # 1  BY <2>1, <2>2, <2>8
  <2> QED  BY <2>3, <2>9
<1> QED  BY <1>4, <1>5, <1>6

\* The specification counts as this module does.
LEMMA SameCardinality == ASSUME NEW S PROVE Stage1!Cardinality(S) = Cardinality(S)
  BY DEF Stage1!Cardinality, Cardinality, Stage1!IsFiniteSet, IsFiniteSet

\* No character is escaped where the text starts, and no string open.
LEMMA StartIs == ~Stage1!Escaped(0) /\ ~Stage1!Inside(0)
<1>1. ~Stage1!Escaped(0)  BY DEF Stage1!Escaped
<1>2. {q \in 0..(0 - 1) : Stage1!Quote(q)} = {}  OBVIOUS
<1>3. ~Stage1!Inside(0)  BY <1>2, FS_EmptySet, SameCardinality DEF Stage1!Inside
<1> QED  BY <1>1, <1>3

\* A quote opens a string or closes one.
LEMMA InsideNext ==
  ASSUME NEW p \in Nat
  PROVE  Stage1!Inside(p + 1) <=> ~(Stage1!Inside(p) <=> Stage1!Quote(p))
<1> DEFINE Quotes(n) == {q \in 0..(n - 1) : Stage1!Quote(q)}
<1>1. PICK qs : qs = Quotes(p)  OBVIOUS
<1>2. IsFiniteSet(qs) /\ Cardinality(qs) \in Nat
  <2>1. qs \subseteq 0..(p - 1)  BY <1>1
  <2>2. IsFiniteSet(0..(p - 1))  BY FS_Interval
  <2> QED  BY <2>1, <2>2, FS_Subset, FS_CardinalityType
<1>3. Stage1!Inside(p) <=> Cardinality(qs) % 2 = 1  BY <1>1, SameCardinality DEF Stage1!Inside
<1>4. Stage1!Inside(p + 1) <=> Cardinality(Quotes(p + 1)) % 2 = 1
  <2>1. (p + 1) - 1 = p  OBVIOUS
  <2> QED  BY <2>1, SameCardinality DEF Stage1!Inside
<1>5. CASE Stage1!Quote(p)
  <2>1. Quotes(p + 1) = qs \cup {p} /\ p \notin qs  BY <1>1, <1>5
  <2>2. Cardinality(qs \cup {p}) = Cardinality(qs) + 1  BY <1>2, <2>1, FS_AddElement
  <2>3. PICK c \in Nat : c = Cardinality(qs)  BY <1>2
  <2>4. (c + 1) % 2 = 1 <=> c % 2 # 1  OBVIOUS
  <2> HIDE DEF Quotes
  <2> QED  BY <1>3, <1>4, <1>5, <2>1, <2>2, <2>3, <2>4
<1>6. CASE ~Stage1!Quote(p)
  <2>1. Quotes(p + 1) = qs  BY <1>1, <1>6
  <2> HIDE DEF Quotes
  <2> QED  BY <1>3, <1>4, <1>6, <2>1
<1> QED  BY <1>5, <1>6

\* Reading one by one finds the entries of the specification.
LEMMA SpecReads ==
  ASSUME length \in Nat
  PROVE  /\ Reading(Escapes, Opens, Scalars)
         /\ \A p \in 0..(length - 1) :
              Stage1!Entry(p) <=> Listed(text[p + 1], p, Escapes, Opens, Scalars)
<1>1. \A p \in 0..length : /\ p \in Escapes <=> Stage1!Escaped(p)
                           /\ p \in Opens <=> Stage1!Inside(p)
  BY DEF Escapes, Opens
<1>2. \A p \in 0..(length - 1) : p + 1 \in Scalars <=> Stage1!Scalar(p)
  <2>1. \A p \in 0..(length - 1) : p + 1 \in 1..length /\ (p + 1) - 1 = p  OBVIOUS
  <2> QED  BY <2>1 DEF Scalars
<1>3. \A p \in 0..(length - 1) : Stage1!Quote(p) <=> IsQuote(text[p + 1], p, Escapes)
  BY <1>1 DEF Stage1!Quote, Stage1!At, IsQuote
<1>4. \A p \in 0..(length - 1) : Stage1!Scalar(p) <=> IsScalar(text[p + 1], p, Escapes)
  BY <1>3 DEF Stage1!Scalar, Stage1!At, IsScalar
<1>5. 0 \notin Escapes /\ 0 \notin Opens /\ 0 \notin Scalars
  <2>1. 0 \in 0..length  OBVIOUS
  <2>2. 0 \notin Escapes /\ 0 \notin Opens  BY <1>1, <2>1, StartIs
  <2> QED  BY <2>2 DEF Scalars
<1>6. ASSUME NEW p \in 0..(length - 1)
      PROVE  /\ Steps(text[p + 1], p, Escapes, Opens, Scalars)
             /\ Stage1!Entry(p) <=> Listed(text[p + 1], p, Escapes, Opens, Scalars)
  <2>1. p \in Nat /\ p \in 0..length /\ p + 1 \in 0..length  OBVIOUS
  <2>2. p + 1 \in Escapes <=> text[p + 1] = "esc" /\ p \notin Escapes  BY <1>1, <2>1, EscapedNext
  <2>3. p + 1 \in Opens <=> ~(p \in Opens <=> IsQuote(text[p + 1], p, Escapes))
    BY <1>1, <1>3, <2>1, InsideNext
  <2>4. p + 1 \in Scalars <=> IsScalar(text[p + 1], p, Escapes)  BY <1>2, <1>4
  <2>5. Steps(text[p + 1], p, Escapes, Opens, Scalars)  BY <2>2, <2>3, <2>4 DEF Steps
  <2>6. p \in Scalars <=> p > 0 /\ Stage1!Scalar(p - 1)
    <3>1. CASE p = 0  BY <1>5, <3>1
    <3>2. CASE p # 0
      <4>1. PICK q \in 0..(length - 1) : q = p - 1 /\ q + 1 = p  BY <3>2
      <4> QED  BY <1>2, <3>2, <4>1
    <3> QED  BY <3>1, <3>2
  <2>7. Stage1!Entry(p) <=> Listed(text[p + 1], p, Escapes, Opens, Scalars)
    BY <1>1, <1>3, <1>4, <2>1, <2>6 DEF Stage1!Entry, Stage1!At, Listed
  <2> QED  BY <2>5, <2>7
<1> QED  BY <1>5, <1>6 DEF Reading

\* While a document is scanned, the carry and the tape are those of its characters
\* read one by one.
ScanInv ==
  scanning => \A e, s, r : Reading(e, s, r) => /\ CarryIs(carry, index, e, s, r)
                                               /\ Has(tape, tapeCount, index, e, s, r)

\* A reset begins afresh.
LEMMA ResetScans == IInv /\ Reset => ScanInv'
<1> SUFFICES ASSUME IInv, Reset, NEW e, NEW s, NEW r, Reading(e, s, r)'
             PROVE  CarryIs(carry, index, e, s, r)' /\ Has(tape, tapeCount, index, e, s, r)'
  BY DEF ScanInv
<1>1. carry' = NoCarry /\ index' = 0 /\ tapeCount' = 0  BY DEF Reset, Begins
<1>2. 0 \notin e /\ 0 \notin s /\ 0 \notin r  BY DEF Reading
<1>3. CarryIs(carry, index, e, s, r)'  BY <1>1, <1>2 DEF CarryIs, NoCarry
<1>4. \A x : x \notin Values(tape, tapeCount)'  BY <1>1 DEF Values
<1>5. Has(tape, tapeCount, index, e, s, r)'
  <2>1. ASSUME NEW p \in (0..(length - 1))' PROVE ~(p < index')  BY <1>1, <2>1
  <2> QED  BY <1>4, <2>1 DEF Has
<1> QED  BY <1>3, <1>5

\* The text stands still while it is scanned.
LEMMA SameReading ==
  ASSUME text' = text, minified' = minified, NEW e, NEW s, NEW r
  PROVE  Reading(e, s, r)' <=> Reading(e, s, r)
BY DEF Reading, Steps, IsQuote, IsScalar, length

\* What a whole step leaves on the tape.
LEMMA WholeStepLeaves ==
  ASSUME IInv, ScanInv, ProcessFull, NEW e, NEW s, NEW r, Reading(e, s, r),
         NEW d, d = Drained[BlocksPerStep], NEW n, n = index + StepBytes
  PROVE  /\ Has(d.tape, d.count, n, e, s, r) /\ Holds(d, n)
         /\ tape' = d.tape /\ tapeCount' = d.count /\ index' = n
         /\ n \in Nat /\ n > index /\ n < length
<1>1. index \in Nat /\ index <= length /\ length \in Nat /\ Holds(Now, index) /\ scanning
  BY DEF IInv, TypeOK, ProcessFull, length
<1>2. CarryIs(carry, index, e, s, r) /\ Has(tape, tapeCount, index, e, s, r)  BY <1>1 DEF ScanInv
<1>3. Drained[0] = Now  BY DrainedIs DEF Now
<1>4. Has(d.tape, d.count, n, e, s, r)  BY <1>1, <1>2, <1>3, DrainedHas
<1>5. Holds(d, n)  BY <1>1, <1>3, DrainedHolds
<1>6. tape' = d.tape /\ tapeCount' = d.count /\ index' = n  BY DEF ProcessFull, Leave
<1>7. StepBytes \in Nat \ {0}
  <2>1. PICK z \in Nat \ {0}, w \in Nat \ {0} : z = BlocksPerStep /\ w = Width  BY SizesAssumption
  <2>2. w * z \in Nat \ {0}  BY <2>1
  <2> QED  BY <2>1, <2>2 DEF StepBytes
<1>8. index < length - StepBytes  BY DEF ProcessFull, HasFullBlock
<1>9. n \in Nat /\ n > index /\ n < length  BY <1>1, <1>7, <1>8
<1> QED  BY <1>4, <1>5, <1>6, <1>9

\* It keeps the invariant.
LEMMA ProcessFullScans == IInv /\ ScanInv /\ ProcessFull => ScanInv'
<1> SUFFICES ASSUME IInv, ScanInv, ProcessFull, NEW e, NEW s, NEW r, Reading(e, s, r)'
             PROVE  CarryIs(carry, index, e, s, r)' /\ Has(tape, tapeCount, index, e, s, r)'
  BY DEF ScanInv
<1>1. length \in Nat /\ length' = length /\ text' = text /\ minified' = minified
  BY DEF IInv, TypeOK, ProcessFull, length
<1>2. index \in Nat /\ index <= length /\ scanning
  BY DEF IInv, TypeOK, ProcessFull
<1>3. Reading(e, s, r)  BY <1>1, SameReading
<1>4. CarryIs(carry, index, e, s, r)  BY <1>2, <1>3 DEF ScanInv
<1>5. PICK d : d = Drained[BlocksPerStep]  OBVIOUS
<1>6. PICK n : n = index + StepBytes  OBVIOUS
<1>7. Has(d.tape, d.count, n, e, s, r) /\ n \in Nat /\ n < length  BY <1>3, <1>5, <1>6, WholeStepLeaves
<1>8. tape' = d.tape /\ tapeCount' = d.count /\ index' = n  BY <1>3, <1>5, <1>6, WholeStepLeaves
<1>9. PICK z \in Nat : z = BlocksPerStep /\ z \in 0..BlocksPerStep /\ z * Width = StepBytes
  <2>1. PICK z \in Nat, w \in Nat : z = BlocksPerStep /\ w = Width  BY SizesAssumption
  <2>2. z * w = w * z  BY <2>1
  <2> QED  BY <2>1, <2>2 DEF StepBytes
<1>10. CarryIs(Blocks[z].carry, n, e, s, r)
  <2>1. index + z * Width = n  BY <1>6, <1>9
  <2>2. n <= length  BY <1>1, <1>7
  <2> QED  BY <1>1, <1>2, <1>3, <1>4, <1>9, <2>1, <2>2, BlocksFind
<1>11. carry' = Blocks[z].carry  BY <1>9 DEF ProcessFull
<1>12. CarryIs(carry, index, e, s, r)'  BY <1>8, <1>10, <1>11 DEF CarryIs
<1>13. Has(tape, tapeCount, index, e, s, r)'
  BY <1>1, <1>7, <1>8 DEF Has, Listed, IsQuote, IsScalar, Values
<1> QED  BY <1>12, <1>13

\* What rises from one entry to the next rises all along.
LEMMA RisingFar ==
  ASSUME NEW t, NEW count \in Nat, NEW bound, Rising(t, count, bound)
  PROVE  \A i, j \in 0..(count - 1) : i < j => t[i] < t[j]
<1> SUFFICES ASSUME NEW i \in 0..(count - 1) PROVE \A j \in 0..(count - 1) : i < j => t[i] < t[j]
  OBVIOUS
<1> DEFINE T == {j \in Nat : j < count /\ i < j => t[i] < t[j]}
<1>1. 0 \in T  OBVIOUS
<1>2. ASSUME NEW j \in T PROVE j + 1 \in T
  <2>1. SUFFICES ASSUME j + 1 < count, i < j + 1 PROVE t[i] < t[j + 1]  OBVIOUS
  <2>2. j \in 0..(count - 1) /\ j + 1 \in 0..(count - 1) /\ (j + 1) - 1 = j /\ j + 1 > 0  BY <2>1
  <2>3. t[j] < t[j + 1] /\ t[j] \in Nat /\ t[j + 1] \in Nat /\ t[i] \in Nat  BY <2>2 DEF Rising
  <2>4. CASE i = j  BY <2>3, <2>4
  <2>5. CASE i < j  BY <1>2, <2>1, <2>3, <2>5
  <2> QED  BY <2>1, <2>4, <2>5
<1> HIDE DEF T
<1>3. T = Nat  BY <1>1, <1>2, Induction DEF T
<1> QED  BY <1>3 DEF T

\* A rising tape with the entries of the text lists what the specification does.
LEMMA ListsIs ==
  ASSUME length \in Nat, NEW t, NEW count \in Nat, Rising(t, count, length), NEW n \in Nat, n <= length,
         Has(t, count, n, Escapes, Opens, Scalars),
         NEW l, l = [i \in 1..count |-> t[i - 1]]
  PROVE  Stage1!Lists(l, {p \in 0..(n - 1) : Stage1!Entry(p)})
<1>1. PICK S : S = {p \in 0..(n - 1) : Stage1!Entry(p)}  OBVIOUS
<1>2. \A p : p \in S <=> p \in 0..(length - 1) /\ p < n /\ Stage1!Entry(p)  BY <1>1
<1>3. \A p : p \in S <=> p \in Values(t, count)
  <2>1. \A p \in Values(t, count) : p \in 0..(length - 1)  BY DEF Values, Rising
  <2>2. \A p \in 0..(length - 1) : p \in Values(t, count) <=> p < n /\ Stage1!Entry(p)
    BY SpecReads DEF Has
  <2> QED  BY <1>2, <2>1, <2>2
<1>4. \A i \in 1..count : l[i] = t[i - 1] /\ i - 1 \in 0..(count - 1)  OBVIOUS
<1>5. \A i \in 1..count : l[i] \in S  BY <1>3, <1>4 DEF Values
<1>6. l \in Seq(S) /\ Len(l) = count /\ DOMAIN l = 1..count
  <2>1. l \in [1..count -> S]  BY <1>5
  <2> QED  BY <2>1
<1>7. \A x \in S : \E i \in 1..count : l[i] = x
  <2>1. SUFFICES ASSUME NEW x \in S PROVE \E i \in 1..count : l[i] = x  OBVIOUS
  <2>2. PICK j \in 0..(count - 1) : t[j] = x  BY <1>3 DEF Values
  <2>3. j + 1 \in 1..count /\ (j + 1) - 1 = j  OBVIOUS
  <2> QED  BY <2>2, <2>3
<1>8. Stage1!Range(l) = S  BY <1>5, <1>6, <1>7 DEF Stage1!Range
<1>9. \A i, j \in 1..Len(l) : i < j => l[i] < l[j]
  <2>1. SUFFICES ASSUME NEW i \in 1..count, NEW j \in 1..count, i < j PROVE l[i] < l[j]  BY <1>6
  <2>2. i - 1 \in 0..(count - 1) /\ j - 1 \in 0..(count - 1) /\ i - 1 < j - 1  BY <2>1
  <2> QED  BY <1>4, <2>2, RisingFar
<1> QED  BY <1>1, <1>6, <1>8, <1>9 DEF Stage1!Lists

\* The initial states are the specification's.
LEMMA InitIsScan == Init => Stage1!Init
<1> SUFFICES ASSUME Init PROVE Stage1!Init  OBVIOUS
<1>1. text = <<>> /\ length = 0 /\ minified \in BOOLEAN /\ tapeCount = 0  BY DEF Init, length
<1>2. Tape = <<>>  BY <1>1 DEF Tape
<1>3. (IF scanning THEN index ELSE length) = 0  BY <1>1 DEF Init
<1> QED  BY <1>1, <1>2, <1>3 DEF Stage1!Init

\* A reset loads a document.
LEMMA ResetIsLoad == IInv /\ IInv' /\ Reset => Stage1!Load
<1> SUFFICES ASSUME IInv, IInv', Reset PROVE Stage1!Load  OBVIOUS
<1>1. ~scanning /\ scanning' = TRUE /\ index' = 0 /\ tapeCount' = 0 /\ minified' \in BOOLEAN
  BY DEF Reset, Begins
<1>2. (IF scanning THEN index ELSE length) = Len(text)  BY <1>1 DEF length
<1>3. (IF scanning THEN index ELSE length)' = 0  BY <1>1
<1>4. Tape' = <<>>  BY <1>1 DEF Tape
<1>5. text' \in Seq(Stage1!Classes)  BY DEF IInv, TypeOK, Classes, Stage1!Classes
<1> QED  BY <1>1, <1>2, <1>3, <1>4, <1>5 DEF Stage1!Load

\* A whole step scans its characters.
LEMMA ProcessFullIsScan == IInv /\ IInv' /\ ScanInv /\ ProcessFull => Stage1!Scan
<1> SUFFICES ASSUME IInv, IInv', ScanInv, ProcessFull PROVE Stage1!Scan  OBVIOUS
<1>1. length \in Nat /\ length' = length /\ text' = text /\ minified' = minified /\ length = Len(text)
  BY DEF IInv, TypeOK, ProcessFull, length
<1>2. index \in Nat /\ index <= length /\ scanning /\ scanning'
  BY DEF IInv, TypeOK, ProcessFull
<1>3. PICK e, s, r : e = Escapes /\ s = Opens /\ r = Scalars /\ Reading(e, s, r)  BY <1>1, SpecReads
<1>4. PICK d : d = Drained[BlocksPerStep]  OBVIOUS
<1>5. PICK n : n = index + StepBytes  OBVIOUS
<1>6. Has(d.tape, d.count, n, e, s, r) /\ Holds(d, n) /\ n \in Nat /\ n > index /\ n < length
  BY <1>3, <1>4, <1>5, WholeStepLeaves
<1>7. tape' = d.tape /\ tapeCount' = d.count /\ index' = n  BY <1>3, <1>4, <1>5, WholeStepLeaves
<1>16. PICK t : t = d.tape  OBVIOUS
<1>17. PICK count \in Nat : count = d.count  BY <1>6 DEF Holds
<1>8. Has(t, count, n, Escapes, Opens, Scalars) /\ Rising(t, count, n)
  BY <1>3, <1>6, <1>16, <1>17 DEF Holds
<1>9. Rising(t, count, length)
  <2>1. \A x \in Nat : x < n => x < length  BY <1>1, <1>6
  <2> QED  BY <1>8, <2>1 DEF Rising
<1>10. PICK l : l = [i \in 1..count |-> t[i - 1]] /\ l = Tape'  BY <1>7, <1>16, <1>17 DEF Tape
<1>11. n <= length  BY <1>1, <1>6
<1>12. Stage1!Lists(l, {p \in 0..(n - 1) : Stage1!Entry(p)})
  BY <1>1, <1>6, <1>8, <1>9, <1>10, <1>11, ListsIs
<1>13. (IF scanning THEN index ELSE length) = index /\ (IF scanning THEN index ELSE length)' = n
  BY <1>2, <1>7
<1>14. n \in (index + 1)..Len(text)  BY <1>1, <1>2, <1>6
<1>15. Stage1!Lists(Tape', {p \in 0..(n - 1) : Stage1!Entry(p)})  BY <1>10, <1>12
<1> QED  BY <1>1, <1>13, <1>14, <1>15 DEF Stage1!Scan

\* The last step scans what is left, or changes nothing the specification sees.
LEMMA ProcessRemainderIsScan ==
  IInv /\ IInv' /\ ScanInv /\ ProcessRemainder => Stage1!Scan \/ UNCHANGED Stage1!vars
<1> SUFFICES ASSUME IInv, IInv', ScanInv, ProcessRemainder PROVE Stage1!Scan \/ UNCHANGED Stage1!vars
  OBVIOUS
<1>1. length \in Nat /\ length' = length /\ text' = text /\ minified' = minified /\ length = Len(text)
  BY DEF IInv, TypeOK, ProcessRemainder, length
<1>2. /\ index \in Nat /\ index <= length /\ scanning /\ ~scanning' /\ loads' > 0
      /\ tapeCount \in Nat /\ tapeCount' \in Nat /\ Holds(Now, index)
  BY DEF IInv, TypeOK, ProcessRemainder
<1>3. (IF scanning THEN index ELSE length) = index /\ (IF scanning THEN index ELSE length)' = length
  BY <1>1, <1>2
<1>4. PICK count \in Nat : count = tapeCount'  BY <1>2
<1>5. PICK t : t = tape'  OBVIOUS
<1>6. PICK l : l = [i \in 1..count |-> t[i - 1]] /\ l = Tape'  BY <1>4, <1>5 DEF Tape
<1>7. Rising(t, count, length)  BY <1>1, <1>2, <1>4, <1>5 DEF IInv, Rising
<1>8. Drained[0] = Now  BY DrainedIs DEF Now
<1>9. CASE index = length
  <2>1. PICK d : d = Now  OBVIOUS
  <2>5. d.tape = tape /\ d.count = tapeCount  BY <2>1 DEF Now
  <2>2. t = Over(tape, [i \in {tapeCount} |-> length]) /\ count = tapeCount
    BY <1>4, <1>5, <1>8, <1>9, <2>1, <2>5 DEF ProcessRemainder, Leave, Begun
  <2>3. \A i \in 0..(count - 1) : t[i] = tape[i]
    <3>1. SUFFICES ASSUME NEW i \in 0..(count - 1) PROVE t[i] = tape[i]  OBVIOUS
    <3>2. i \in DOMAIN tape /\ i \notin {tapeCount}  BY <1>2, <2>2 DEF Holds, Now, Rising
    <3> QED  BY <2>2, <3>2 DEF Over
  <2>4. l = Tape
    <3>1. \A i \in 1..count : i - 1 \in 0..(count - 1)  OBVIOUS
    <3>2. \A i \in 1..count : t[i - 1] = tape[i - 1]  BY <2>3, <3>1
    <3> QED  BY <1>6, <2>2, <3>2 DEF Tape
  <2> QED  BY <1>1, <1>3, <1>6, <1>9, <2>4 DEF Stage1!vars
<1>10. CASE index # length
  <2>1. PICK d : d = Drained[BlocksPerStep]  OBVIOUS
  <2>2. PICK m : m = Trimmed(d.tape, d.count)  OBVIOUS
  <2>3. t = Over(d.tape, [i \in {m} |-> length]) /\ count = m
    BY <1>4, <1>5, <1>10, <2>1, <2>2 DEF ProcessRemainder, Leave, Begun
  <2>4. PICK e, s, r : e = Escapes /\ s = Opens /\ r = Scalars /\ Reading(e, s, r)  BY <1>1, SpecReads
  <2>5. CarryIs(carry, index, e, s, r) /\ Has(tape, tapeCount, index, e, s, r)
    BY <1>2, <2>4 DEF ScanInv
  <2>6. Has(d.tape, d.count, index + StepBytes, e, s, r)
    BY <1>1, <1>2, <1>8, <2>1, <2>4, <2>5, DrainedHas
  <2>7. StepBytes \in Nat /\ length <= index + StepBytes
    <3>1. StepBytes \in Nat
      <4>1. PICK z \in Nat, w \in Nat : z = BlocksPerStep /\ w = Width  BY SizesAssumption
      <4>2. w * z \in Nat  BY <4>1
      <4> QED  BY <4>1, <4>2 DEF StepBytes
    <3>2. ~(index < length - StepBytes)  BY DEF ProcessRemainder, HasFullBlock
    <3> QED  BY <1>1, <1>2, <3>1, <3>2
  <2>8. d.count \in Nat /\ Rising(d.tape, d.count, index + StepBytes)
    <3>1. Holds(d, index + StepBytes)  BY <1>1, <1>2, <1>8, <2>1, DrainedHolds
    <3> QED  BY <3>1 DEF Holds
  <2>9. m \in Nat /\ m <= d.count  BY <1>1, <2>2, <2>8, TrimmedIs
  <2>10. Values(t, count) = Values(d.tape, m)
    <3>1. ASSUME NEW i \in 0..(m - 1) PROVE t[i] = d.tape[i]
      <4>1. i \in 0..(d.count - 1) /\ i \notin {m}  BY <2>8, <2>9
      <4>2. i \in DOMAIN d.tape  BY <2>8, <4>1 DEF Rising
      <4> QED  BY <2>3, <4>1, <4>2 DEF Over
    <3> QED  BY <2>3, <3>1 DEF Values
  <2>11. ASSUME NEW p \in 0..(length - 1)
         PROVE  p \in Values(t, count) <=> p < length /\ Listed(text[p + 1], p, e, s, r)
    <3>1. p \in Values(d.tape, m) <=> p \in Values(d.tape, d.count)
      BY <1>1, <2>2, <2>8, TrimmedValues
    <3>2. p < length /\ p < index + StepBytes  BY <1>1, <1>2, <2>7
    <3> QED  BY <2>6, <2>10, <3>1, <3>2 DEF Has
  <2>12. Has(t, count, length, e, s, r)  BY <2>11 DEF Has
  <2>13. Stage1!Lists(l, {p \in 0..(length - 1) : Stage1!Entry(p)})
    <3>1. Has(t, count, length, Escapes, Opens, Scalars) /\ length <= length  BY <1>1, <2>4, <2>12
    <3> QED  BY <1>1, <1>6, <1>7, <3>1, ListsIs
  <2>14. length \in (index + 1)..Len(text)  BY <1>1, <1>2, <1>10
  <2>15. Stage1!Lists(Tape', {p \in 0..(length - 1) : Stage1!Entry(p)})  BY <1>6, <2>13
  <2> QED  BY <1>1, <1>3, <2>14, <2>15 DEF Stage1!Scan
<1> QED  BY <1>9, <1>10

\* The blocks, masks, carries and lanes of Stage 1 implement the scan that asks of
\* each character how many backslashes and quotes stand before it (simd.hpp:183-292):
\* for every document, one after the other, every width of a mask up to 64 bits,
\* every number of blocks to a step and of entries written at a time.
THEOREM IsScanAlways == Spec => IsScan
<1>1. Init => IInv /\ ScanInv /\ Stage1!Init  BY InitOk, InitIsScan DEF Init, ScanInv
<1>2. IInv /\ ScanInv /\ [Next]_vars => ScanInv'
  <2>1. SUFFICES ASSUME IInv, ScanInv, [Next]_vars PROVE ScanInv'  OBVIOUS
  <2>2. CASE Reset  BY <2>1, <2>2, ResetScans
  <2>3. CASE ProcessFull  BY <2>1, <2>3, ProcessFullScans
  <2>4. CASE ProcessRemainder  BY <2>4 DEF ProcessRemainder, ScanInv
  <2>5. CASE UNCHANGED vars
    <3>1. /\ text' = text /\ minified' = minified /\ index' = index /\ carry' = carry
          /\ tape' = tape /\ tapeCount' = tapeCount /\ scanning' = scanning /\ length' = length
      BY <2>5 DEF vars, length
    <3>2. SUFFICES ASSUME NEW e, NEW s, NEW r, Reading(e, s, r)', scanning
                   PROVE  CarryIs(carry, index, e, s, r)' /\ Has(tape, tapeCount, index, e, s, r)'
      BY <3>1 DEF ScanInv
    <3>3. Reading(e, s, r)  BY <3>1, <3>2, SameReading
    <3>4. CarryIs(carry, index, e, s, r) /\ Has(tape, tapeCount, index, e, s, r)
      BY <2>1, <3>2, <3>3 DEF ScanInv
    <3>5. CarryIs(carry, index, e, s, r)'  BY <3>1, <3>4 DEF CarryIs
    <3>6. Has(tape, tapeCount, index, e, s, r)'
      BY <3>1, <3>4 DEF Has, Listed, IsQuote, IsScalar, Values
    <3> QED  BY <3>5, <3>6
  <2> QED  BY <2>1, <2>2, <2>3, <2>4, <2>5 DEF Next
<1>3. IInv /\ IInv' /\ ScanInv /\ [Next]_vars => [Stage1!Next]_Stage1!vars
  <2>1. SUFFICES ASSUME IInv, IInv', ScanInv, [Next]_vars PROVE [Stage1!Next]_Stage1!vars  OBVIOUS
  <2>2. CASE Reset  BY <2>1, <2>2, ResetIsLoad DEF Stage1!Next
  <2>3. CASE ProcessFull  BY <2>1, <2>3, ProcessFullIsScan DEF Stage1!Next
  <2>4. CASE ProcessRemainder  BY <2>1, <2>4, ProcessRemainderIsScan DEF Stage1!Next
  <2>5. CASE UNCHANGED vars
    <3>1. /\ text' = text /\ minified' = minified /\ index' = index
          /\ tape' = tape /\ tapeCount' = tapeCount /\ scanning' = scanning
      BY <2>5 DEF vars
    <3> QED  BY <3>1 DEF Stage1!vars, Tape, length
  <2> QED  BY <2>1, <2>2, <2>3, <2>4, <2>5 DEF Next
<1>4. Spec => []IInv  BY AlwaysIInv
<1> QED  BY <1>1, <1>2, <1>3, <1>4, PTL DEF Spec, IsScan, Stage1!Spec
================================================================================
