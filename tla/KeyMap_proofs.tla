------------------------------ MODULE KeyMap_proofs ------------------------------
(***************************************************************************)
(* A key of a type is found in the table the type has, for every list of   *)
(* keys: whichever way the table is built, the column, byte or length it   *)
(* goes by tells the keys apart, and the search comes to it.               *)
(***************************************************************************)
EXTENDS KeyMap, FiniteSetTheorems, SequenceTheorems, WellFoundedInduction, TLAPS

\* A set of natural numbers has a least one.
LEMMA LeastNat == ASSUME NEW T, T \subseteq Nat, T # {} PROVE \E x \in T : \A y \in T : x <= y
<1> DEFINE Under(n) == 0..(n - 1)
           Bs == {Under(n) : n \in T}
<1>1. Bs \subseteq FiniteSubsetsOf(Nat)
  <2>1. SUFFICES ASSUME NEW n \in T PROVE Under(n) \in SUBSET Nat /\ IsFiniteSet(Under(n))
    BY DEF FiniteSubsetsOf
  <2>2. n \in Nat  OBVIOUS
  <2> QED  BY <2>2, FS_Interval
<1>2. PICK b \in Bs : \A c \in Bs : ~ (<<c, b>> \in StrictSubsetOrdering(Nat))
  <2>1. Bs # {}  OBVIOUS
  <2> HIDE DEF Bs
  <2> QED  BY <1>1, <2>1, FS_StrictSubsetOrderingWellFounded, WFMin
<1>3. PICK x \in T : b = Under(x)  OBVIOUS
<1>4. ASSUME NEW y \in T, y < x PROVE FALSE
  <2>1. Under(y) \in Bs  OBVIOUS
  <2>2. x \in Nat /\ y \in Nat /\ y \in Under(x) /\ y \notin Under(y)  BY <1>4
  <2>3. Under(y) \subseteq Under(x) /\ Under(y) # Under(x) /\ Under(x) \subseteq Nat  BY <2>2
  <2>4. <<Under(y), b>> \in StrictSubsetOrdering(Nat)  BY <2>3, <1>3 DEF StrictSubsetOrdering
  <2> QED  BY <2>1, <2>4, <1>2
<1> QED  BY <1>4

\* It is its minimum.
LEMMA MinOf == ASSUME NEW T, T \subseteq Nat, T # {} PROVE Min(T) \in T /\ \A y \in T : Min(T) <= y
<1>1. \E x \in T : \A y \in T : x <= y  BY LeastNat
<1> QED  BY <1>1 DEF Min

\* A bounded one has a greatest.
LEMMA MaxOf ==
  ASSUME NEW T, T \subseteq Nat, T # {}, NEW b \in Nat, \A y \in T : y <= b
  PROVE  Max(T) \in T /\ \A y \in T : Max(T) >= y
<1>1. PICK U : U = {k \in Nat : \A y \in T : y <= k}  OBVIOUS
<1>2. PICK u \in U : \A k \in U : u <= k
  <2>1. b \in U /\ U \subseteq Nat  BY <1>1
  <2> QED  BY <2>1, LeastNat
<1>3. u \in T
  <2> SUFFICES ASSUME u \notin T PROVE FALSE  OBVIOUS
  <2>1. PICK t \in T : t \in Nat /\ t <= u /\ t # u  BY <1>1
  <2>2. u \in Nat /\ u - 1 \in Nat  BY <1>1, <2>1
  <2>3. ASSUME NEW y \in T PROVE y <= u - 1
    <3>1. y \in Nat /\ y <= u /\ y # u  BY <1>1
    <3> QED  BY <2>2, <3>1
  <2>4. u - 1 \in U  BY <1>1, <2>2, <2>3
  <2> QED  BY <1>2, <2>2, <2>4
<1>4. u \in Nat /\ \A y \in T : u >= y  BY <1>1
<1>5. \E x \in T : \A y \in T : x >= y  BY <1>3, <1>4
<1> QED  BY <1>5 DEF Max

\* Of one number it is the number.
LEMMA MaxOne == ASSUME NEW p \in Nat PROVE Max({p}) = p
<1>1. \E x \in {p} : \A y \in {p} : x >= y  OBVIOUS
<1> QED  BY <1>1 DEF Max

-------------------------------------------------------------------------------
\* A list of n references with keys that have a length.
Listed(refs, n) ==
  /\ n \in Nat /\ DOMAIN refs = 1..n
  /\ refs \in Seq([key : Seq(KeyBytes), oldIndex : Nat]) /\ Len(refs) = n

\* Every reference has a rank.
Ranked(rank, n) == \A i \in 1..n : rank[i] \in Nat

\* The references in front of one, in the order of their ranks, are fewer than
\* those in front of a later one.
LEMMA BeforeLess ==
  ASSUME NEW n \in Nat, NEW refs, Listed(refs, n), NEW rank, Ranked(rank, n),
         NEW i \in 1..n, NEW j \in 1..n, j \in Before(refs, rank, i)
  PROVE  Cardinality(Before(refs, rank, j)) < Cardinality(Before(refs, rank, i))
<1>1. PICK I, J : I = Before(refs, rank, i) /\ J = Before(refs, rank, j)  OBVIOUS
<1>2. I = {k \in 1..n : rank[k] > rank[i] \/ (rank[k] = rank[i] /\ k < i)}  BY <1>1 DEF Before, Listed
<1>3. J = {k \in 1..n : rank[k] > rank[j] \/ (rank[k] = rank[j] /\ k < j)}  BY <1>1 DEF Before, Listed
<1>4. rank[j] > rank[i] \/ (rank[j] = rank[i] /\ j < i)  BY <1>1, <1>2
<1>5. PICK ri \in Nat, rj \in Nat : ri = rank[i] /\ rj = rank[j]  BY DEF Ranked
<1>6. J \subseteq I
  <2> SUFFICES ASSUME NEW k \in J PROVE k \in I  OBVIOUS
  <2>1. PICK rk \in Nat : rk = rank[k]  BY <1>3 DEF Ranked
  <2>2. k \in 1..n /\ (rk > rj \/ (rk = rj /\ k < j))  BY <1>3, <1>5, <2>1
  <2>3. rk > ri \/ (rk = ri /\ k < i)  BY <1>4, <1>5, <2>2
  <2> QED  BY <1>2, <1>5, <2>1, <2>2, <2>3
<1>7. j \in I /\ j \notin J
  <2>1. ~(rj > rj) /\ ~(j < j)  OBVIOUS
  <2> QED  BY <1>1, <1>3, <1>5, <2>1
<1>8. IsFiniteSet(I)
  <2>1. IsFiniteSet(1..n)  BY FS_Interval
  <2>2. I \subseteq 1..n  BY <1>2
  <2> QED  BY <2>1, <2>2, FS_Subset
<1>9. IsFiniteSet(J) /\ Cardinality(J) <= Cardinality(I) /\ (Cardinality(I) = Cardinality(J) => I = J)
  BY <1>6, <1>8, FS_Subset
<1>10. Cardinality(I) \in Nat /\ Cardinality(J) \in Nat  BY <1>8, <1>9, FS_CardinalityType
<1> QED  BY <1>1, <1>7, <1>9, <1>10

\* How many they are.
LEMMA BeforeCount ==
  ASSUME NEW n \in Nat, NEW refs, Listed(refs, n), NEW rank, NEW i \in 1..n, Ranked(rank, n)
  PROVE  Cardinality(Before(refs, rank, i)) \in 0..(n - 1)
<1>1. PICK I : I = Before(refs, rank, i)  OBVIOUS
<1>2. I \subseteq (1..n) \ {i}
  <2>1. PICK ri \in Nat : ri = rank[i]  BY DEF Ranked
  <2>2. ~(ri > ri) /\ ~(i < i)  OBVIOUS
  <2> QED  BY <1>1, <2>1, <2>2 DEF Before, Listed
<1>3. IsFiniteSet(1..n) /\ Cardinality(1..n) = n
  <2>1. IsFiniteSet(1..n) /\ Cardinality(1..n) = IF 1 > n THEN 0 ELSE n - 1 + 1  BY FS_Interval
  <2> QED  BY <2>1
<1>4. PICK T : T = (1..n) \ {i}  OBVIOUS
<1>5. IsFiniteSet(T) /\ Cardinality(T) = n - 1  BY <1>3, <1>4, FS_RemoveElement
<1>6. I \in SUBSET T  BY <1>2, <1>4
<1>7. IsFiniteSet(I) /\ Cardinality(I) <= Cardinality(T)  BY <1>5, <1>6, FS_Subset
<1>8. IsFiniteSet(I) /\ Cardinality(I) <= n - 1  BY <1>5, <1>7
<1>9. Cardinality(I) \in Nat  BY <1>8, FS_CardinalityType
<1> QED  BY <1>1, <1>8, <1>9

\* Where a reference comes to when they are sorted, and what comes to a place.
PlaceOf(refs, rank, i) == Cardinality(Before(refs, rank, i)) + 1
Comes(refs, rank, p) == CHOOSE i \in DOMAIN refs : Cardinality(Before(refs, rank, i)) = p - 1

\* Of two references one is in front of the other.
LEMMA BeforeTotal ==
  ASSUME NEW n \in Nat, NEW refs, Listed(refs, n), NEW rank, Ranked(rank, n),
         NEW i \in 1..n, NEW j \in 1..n, i # j
  PROVE  i \in Before(refs, rank, j) \/ j \in Before(refs, rank, i)
<1>1. PICK ri \in Nat, rj \in Nat : ri = rank[i] /\ rj = rank[j]  BY DEF Ranked
<1>2. rj > ri \/ ri > rj \/ (ri = rj /\ j < i) \/ (ri = rj /\ i < j)  OBVIOUS
<1> QED  BY <1>1, <1>2 DEF Before, Listed

\* Two references have two places.
LEMMA PlacesDiffer ==
  ASSUME NEW n \in Nat, NEW refs, Listed(refs, n), NEW rank, Ranked(rank, n),
         NEW i \in 1..n, NEW j \in 1..n, PlaceOf(refs, rank, i) = PlaceOf(refs, rank, j)
  PROVE  i = j
<1>1. PICK a \in 0..(n - 1) : a = Cardinality(Before(refs, rank, i))  BY BeforeCount
<1>2. PICK b \in 0..(n - 1) : b = Cardinality(Before(refs, rank, j))  BY BeforeCount
<1>3. a = b  BY <1>1, <1>2 DEF PlaceOf
<1>4. CASE i \in Before(refs, rank, j)
  <2>1. Cardinality(Before(refs, rank, i)) < Cardinality(Before(refs, rank, j))  BY <1>4, BeforeLess
  <2> QED  BY <1>1, <1>2, <1>3, <2>1
<1>5. CASE j \in Before(refs, rank, i)
  <2>1. Cardinality(Before(refs, rank, j)) < Cardinality(Before(refs, rank, i))  BY <1>5, BeforeLess
  <2> QED  BY <1>1, <1>2, <1>3, <2>1
<1> QED  BY <1>4, <1>5, BeforeTotal

\* Every place is taken, so that sorting loses no reference and doubles none.
LEMMA ComesIs ==
  ASSUME NEW n \in Nat, NEW refs, Listed(refs, n), NEW rank, Ranked(rank, n), NEW p \in 1..n
  PROVE  Comes(refs, rank, p) \in 1..n /\ PlaceOf(refs, rank, Comes(refs, rank, p)) = p
<1>1. PICK f : f = [i \in 1..n |-> PlaceOf(refs, rank, i)]  OBVIOUS
<1>2. ASSUME NEW i \in 1..n PROVE PlaceOf(refs, rank, i) \in 1..n
  <2>1. PICK a \in 0..(n - 1) : a = Cardinality(Before(refs, rank, i))  BY BeforeCount
  <2> QED  BY <2>1 DEF PlaceOf
<1>3. f \in [1..n -> 1..n] /\ DOMAIN f = 1..n  BY <1>1, <1>2
<1>4. ASSUME NEW i \in 1..n, NEW j \in 1..n, f[i] = f[j] PROVE i = j
  BY <1>1, <1>4, PlacesDiffer
<1>5. f \in Injection(1..n, 1..n)  BY <1>3, <1>4 DEF Injection, IsInjective
<1>6. IsFiniteSet(1..n)  BY FS_Interval
<1>7. f \in Surjection(1..n, 1..n)  BY <1>5, <1>6, FS_Injection
<1>8. PICK i \in 1..n : f[i] = p  BY <1>7 DEF Surjection
<1>9. PICK a \in 0..(n - 1) : a = Cardinality(Before(refs, rank, i))  BY BeforeCount
<1>10. a = p - 1  BY <1>1, <1>8, <1>9 DEF PlaceOf
<1>11. PICK q : q = p - 1  OBVIOUS
<1>12. PICK k : k = Comes(refs, rank, p)  OBVIOUS
<1>13. k \in 1..n /\ Cardinality(Before(refs, rank, k)) = q
  <2>1. k = CHOOSE l \in 1..n : Cardinality(Before(refs, rank, l)) = q  BY <1>11, <1>12 DEF Comes, Listed
  <2>2. \E l \in 1..n : Cardinality(Before(refs, rank, l)) = q  BY <1>9, <1>10, <1>11
  <2> QED  BY <2>1, <2>2
<1>14. q + 1 = p  BY <1>11
<1> QED  BY <1>12, <1>13, <1>14 DEF PlaceOf

\* Comes is the place of no other.
LEMMA ComesBack ==
  ASSUME NEW n \in Nat, NEW refs, Listed(refs, n), NEW rank, Ranked(rank, n), NEW i \in 1..n
  PROVE  PlaceOf(refs, rank, i) \in 1..n /\ Comes(refs, rank, PlaceOf(refs, rank, i)) = i
<1>1. PICK p : p = PlaceOf(refs, rank, i)  OBVIOUS
<1>2. p \in 1..n
  <2>1. PICK a \in 0..(n - 1) : a = Cardinality(Before(refs, rank, i))  BY BeforeCount
  <2> QED  BY <1>1, <2>1 DEF PlaceOf
<1>3. PICK k : k = Comes(refs, rank, p)  OBVIOUS
<1>4. k \in 1..n /\ PlaceOf(refs, rank, k) = p  BY <1>2, <1>3, ComesIs
<1>5. k = i  BY <1>1, <1>4, PlacesDiffer
<1> QED  BY <1>1, <1>2, <1>3, <1>5

\* What is sorted is the same references, each once.
LEMMA SortedIs ==
  ASSUME NEW n \in Nat, NEW refs, Listed(refs, n), NEW rank, Ranked(rank, n),
         NEW sorted, sorted = SortTupleRefs(refs, rank)
  PROVE  /\ Listed(sorted, n)
         /\ \A p \in 1..n : sorted[p] = refs[Comes(refs, rank, p)]
<1>1. DOMAIN refs = 1..n  BY DEF Listed
<1>2. DOMAIN sorted = 1..n /\ \A p \in 1..n : sorted[p] = refs[Comes(refs, rank, p)]
  BY <1>1 DEF SortTupleRefs, Comes
<1>3. PICK R : R = [key : Seq(KeyBytes), oldIndex : Nat]  OBVIOUS
<1>4. refs \in Seq(R)  BY <1>3 DEF Listed
<1>5. ASSUME NEW p \in 1..n PROVE sorted[p] \in R
  <2>1. PICK k : k = Comes(refs, rank, p)  OBVIOUS
  <2>2. k \in 1..n  BY <2>1, ComesIs
  <2>3. Len(refs) = n  BY DEF Listed
  <2> QED  BY <1>2, <1>4, <2>1, <2>2, <2>3
<1>6. sorted \in [1..n -> R]  
  <2>1. sorted = [p \in 1..n |-> sorted[p]]  BY <1>1 DEF SortTupleRefs
  <2> QED  BY <1>5, <2>1
<1>7. sorted \in Seq(R) /\ Len(sorted) = n  BY <1>6
<1> QED  BY <1>2, <1>3, <1>7 DEF Listed

\* Sorted, the ranks go down.
LEMMA SortedDown ==
  ASSUME NEW n \in Nat, NEW refs, Listed(refs, n), NEW rank, Ranked(rank, n),
         NEW p \in 1..n, NEW q \in 1..n, p < q
  PROVE  rank[Comes(refs, rank, p)] >= rank[Comes(refs, rank, q)]
<1>1. PICK i, j : i = Comes(refs, rank, p) /\ j = Comes(refs, rank, q)  OBVIOUS
<1>2. i \in 1..n /\ PlaceOf(refs, rank, i) = p  BY <1>1, ComesIs
<1>3. j \in 1..n /\ PlaceOf(refs, rank, j) = q  BY <1>1, ComesIs
<1>4. PICK ri \in Nat, rj \in Nat : ri = rank[i] /\ rj = rank[j]  BY <1>2, <1>3 DEF Ranked
<1>5. PICK a \in 0..(n - 1) : a = Cardinality(Before(refs, rank, i))  BY <1>2, BeforeCount
<1>6. PICK b \in 0..(n - 1) : b = Cardinality(Before(refs, rank, j))  BY <1>3, BeforeCount
<1>7. a < b  BY <1>2, <1>3, <1>5, <1>6 DEF PlaceOf
<1>8. j \notin Before(refs, rank, i)
  <2> SUFFICES ASSUME j \in Before(refs, rank, i) PROVE FALSE  OBVIOUS
  <2>1. b < a  BY <1>2, <1>3, <1>5, <1>6, BeforeLess
  <2> QED  BY <1>7, <2>1
<1>9. ~(rj > ri)  BY <1>3, <1>4, <1>8 DEF Before, Listed
<1> QED  BY <1>1, <1>4, <1>9

-------------------------------------------------------------------------------
\* The references of a class stand together.
Together(class, n) ==
  \A i, j, k \in 1..n : i < j /\ j < k /\ class[i] = class[k] => class[j] = class[i]

\* A group is what stands from one place on, and that is the class.
Group(refs, n, class, c, group, first, count) ==
  /\ Listed(group, count) /\ count > 0 /\ first + count - 1 <= n
  /\ \A q \in 1..count : group[q] = refs[first + q - 1]
  /\ \A j \in 1..n : class[j] = c <=> first <= j /\ j < first + count

\* What collectLengths and collectFirstBytes give for a class are the references of it.
LEMMA CollectIs ==
  ASSUME NEW n \in Nat, NEW refs, Listed(refs, n), NEW class, Together(class, n),
         NEW i \in 1..n, NEW c, c = class[i], NEW group, group = Collect(refs, class)[c]
  PROVE  \E first \in 1..n, count \in Nat : Group(refs, n, class, c, group, first, count)
<1>1. PICK M : M = Members(refs, class, c)  OBVIOUS
<1>2. M = {j \in 1..n : class[j] = c}  BY <1>1 DEF Members, Listed
<1>3. i \in M /\ M \subseteq 1..n /\ M \subseteq Nat  BY <1>2
<1>4. PICK first : first = Min(M)  OBVIOUS
<1>5. first \in M /\ \A y \in M : first <= y  BY <1>3, <1>4, MinOf
<1>6. PICK last : last = Max(M)  OBVIOUS
<1>7. last \in M /\ \A y \in M : last >= y
  <2>1. \A y \in M : y <= n  BY <1>3
  <2> QED  BY <1>3, <1>6, <2>1, MaxOf
<1>8. first \in 1..n /\ last \in 1..n /\ first <= last  BY <1>3, <1>5, <1>7
<1>9. M = first..last
  <2>1. ASSUME NEW j \in first..last PROVE j \in M
    <3>1. j \in 1..n  BY <1>8
    <3>2. class[first] = c /\ class[last] = c  BY <1>2, <1>5, <1>7
    <3>3. j = first \/ j = last \/ (first < j /\ j < last)  BY <1>8
    <3> QED  BY <1>2, <1>8, <3>1, <3>2, <3>3 DEF Together
  <2>2. ASSUME NEW j \in M PROVE j \in first..last  BY <1>3, <1>5, <1>7, <1>8
  <2> QED  BY <2>1, <2>2
<1>10. PICK count \in Nat : count = last - first + 1 /\ count > 0  BY <1>8
<1>11. Cardinality(M) = count
  <2>1. first \in Int /\ last \in Int /\ ~(first > last)  BY <1>8
  <2>2. Cardinality(first..last) = last - first + 1  BY <2>1, FS_Interval
  <2> QED  BY <1>9, <1>10, <2>2
<1>12. first + count - 1 = last  BY <1>8, <1>10
<1>13. group = SubSeq(refs, first, last)
  <2>1. c \in {class[k] : k \in DOMAIN refs}  BY DEF Listed
  <2>2. group = SubSeq(refs, Min(M), Min(M) + Cardinality(M) - 1)  BY <1>1, <2>1 DEF Collect
  <2>3. group = SubSeq(refs, first, first + count - 1)  BY <1>4, <1>11, <2>2
  <2> QED  BY <1>12, <2>3
<1>14. PICK R : R = [key : Seq(KeyBytes), oldIndex : Nat]  OBVIOUS
<1>15. refs \in Seq(R) /\ Len(refs) = n  BY <1>14 DEF Listed
<1>16. group \in Seq(R) /\ Len(group) = count /\ \A q \in 1..count : group[q] = refs[first + q - 1]
  BY <1>8, <1>10, <1>13, <1>15, SMTT(30)
<1>17. DOMAIN group = 1..count  BY <1>16
<1>18. Listed(group, count)  BY <1>14, <1>16, <1>17 DEF Listed
<1>19. \A j \in 1..n : class[j] = c <=> first <= j /\ j < first + count
  <2> SUFFICES ASSUME NEW j \in 1..n PROVE class[j] = c <=> first <= j /\ j < first + count  OBVIOUS
  <2>1. class[j] = c <=> j \in first..last  BY <1>2, <1>9
  <2>2. j \in first..last <=> first <= j /\ j < first + count  BY <1>8, <1>10
  <2> QED  BY <2>1, <2>2
<1>20. first + count - 1 <= n  BY <1>8, <1>12
<1>21. Group(refs, n, class, c, group, first, count)  BY <1>10, <1>16, <1>18, <1>19, <1>20 DEF Group
<1> QED  BY <1>8, <1>10, <1>21

-------------------------------------------------------------------------------
\* The keys differ in a column that all of them have.
Apart(refs, n, c) ==
  /\ c \in Nat
  /\ \A i \in 1..n : c < Len(refs[i].key)
  /\ \A i, j \in 1..n : refs[i].key[c + 1] = refs[j].key[c + 1] => i = j

\* The keys of a list are no shorter than the shortest.
LEMMA MinLengthIs ==
  ASSUME NEW n \in Nat, NEW refs, Listed(refs, n), n > 0
  PROVE  MinLength(refs) \in Nat /\ \A i \in 1..n : Len(refs[i].key) \in Nat /\ MinLength(refs) <= Len(refs[i].key)
<1>1. ASSUME NEW i \in 1..n PROVE Len(refs[i].key) \in Nat
  <2>1. PICK R : R = [key : Seq(KeyBytes), oldIndex : Nat]  OBVIOUS
  <2>2. refs \in Seq(R) /\ Len(refs) = n  BY <2>1 DEF Listed
  <2>3. refs[i] \in R  BY <2>2
  <2>4. refs[i].key \in Seq(KeyBytes)  BY <2>1, <2>3
  <2> QED  BY <2>4, LenProperties
<1>2. PICK T : T = Sizes(refs)  OBVIOUS
<1>3. T = {Len(refs[i].key) : i \in 1..n}  BY <1>2 DEF Sizes, Listed
<1>4. T \subseteq Nat  BY <1>1, <1>3
<1>5. T # {}
  <2>1. 1 \in 1..n  OBVIOUS
  <2> QED  BY <1>3, <2>1
<1>6. Min(T) \in T /\ \A y \in T : Min(T) <= y  BY <1>4, <1>5, MinOf
<1> QED  BY <1>1, <1>2, <1>3, <1>4, <1>6 DEF MinLength

\* The column that is found, if one is.
LEMMA UniqueIndexIs ==
  ASSUME NEW n \in Nat, NEW refs, Listed(refs, n), n > 0, NEW c, c = UniqueIndex(refs), c # NoColumn
  PROVE  Apart(refs, n, c) /\ c < MinLength(refs)
<1>1. PICK m : m = MinLength(refs)  OBVIOUS
<1>2. m \in Nat /\ \A i \in 1..n : Len(refs[i].key) \in Nat /\ m <= Len(refs[i].key)  BY <1>1, MinLengthIs
<1>3. PICK U : U = {d \in 0..(m - 1) : IsInjective([i \in DOMAIN refs |-> At(refs[i].key, d)])}  OBVIOUS
<1>4. c = IF U = {} THEN NoColumn ELSE Min(U)  BY <1>1, <1>3 DEF UniqueIndex, FindUniqueColumnIndex
<1>5. U \subseteq Nat /\ U # {} /\ c = Min(U)  BY <1>3, <1>4
<1>6. c \in U  BY <1>5, MinOf
<1>7. c \in 0..(m - 1) /\ IsInjective([i \in DOMAIN refs |-> At(refs[i].key, c)])  BY <1>3, <1>6
<1>8. c \in Nat /\ c < m  BY <1>2, <1>7
<1>9. \A i, j \in 1..n : refs[i].key[c + 1] = refs[j].key[c + 1] => i = j
  <2>1. DOMAIN refs = 1..n  BY DEF Listed
  <2> QED  BY <1>7, <2>1 DEF IsInjective, At
<1>10. \A i \in 1..n : c < Len(refs[i].key)  BY <1>2, <1>8
<1> QED  BY <1>1, <1>8, <1>9, <1>10 DEF Apart

\* A column that tells a reference from the others of its class.
Tells(refs, n, class, i, col) ==
  /\ col \in Nat /\ col < Len(refs[i].key)
  /\ \A j \in 1..n : class[j] = class[i] /\ refs[j].key[col + 1] = refs[i].key[col + 1] => j = i

\* The one that is found for the class does.
LEMMA CollectApart ==
  ASSUME NEW n \in Nat, NEW refs, Listed(refs, n), NEW class, Together(class, n),
         NEW i \in 1..n, NEW c, c = class[i],
         NEW col, col = UniqueIndex(Collect(refs, class)[c]), col # NoColumn
  PROVE  Tells(refs, n, class, i, col)
<1>1. PICK group : group = Collect(refs, class)[c]  OBVIOUS
<1>2. PICK first \in 1..n, count \in Nat : Group(refs, n, class, c, group, first, count)
  BY <1>1, CollectIs
<1>3. /\ Listed(group, count) /\ count > 0 /\ first + count - 1 <= n
      /\ \A q \in 1..count : group[q] = refs[first + q - 1]
      /\ \A j \in 1..n : class[j] = c <=> first <= j /\ j < first + count
  BY <1>2 DEF Group
<1>4. Apart(group, count, col)  BY <1>1, <1>3, UniqueIndexIs
<1>5. ASSUME NEW j \in 1..n, class[j] = c
      PROVE  j - first + 1 \in 1..count /\ group[j - first + 1] = refs[j]
  <2>1. first <= j /\ j < first + count  BY <1>3, <1>5
  <2>2. PICK q \in 1..count : q = j - first + 1 /\ first + q - 1 = j  BY <2>1
  <2> QED  BY <1>3, <2>2
<1>6. PICK q \in 1..count : q = i - first + 1 /\ group[q] = refs[i]  BY <1>5
<1>7. col \in Nat /\ col < Len(refs[i].key)  BY <1>4, <1>6 DEF Apart
<1>8. ASSUME NEW j \in 1..n, class[j] = c, refs[j].key[col + 1] = refs[i].key[col + 1] PROVE j = i
  <2>1. PICK p \in 1..count : p = j - first + 1 /\ group[p] = refs[j]  BY <1>5, <1>8
  <2>2. p = q  BY <1>4, <1>6, <1>8, <2>1 DEF Apart
  <2> QED  BY <1>6, <2>1, <2>2
<1> QED  BY <1>7, <1>8 DEF Tells

-------------------------------------------------------------------------------
\* A type's keys and what the compiler keeps of them; a document is bytes.
Has(refs, n) == keys \in KeyLists /\ n = Len(keys) /\ refs = TupleReferences /\ text \in Seq(Nat)

\* The references are the keys with the indices of their members.
LEMMA RefsAre ==
  ASSUME NEW refs, NEW n, Has(refs, n)
  PROVE  /\ n \in Nat /\ Listed(refs, n) /\ DOMAIN keys = 1..n /\ IsInjective(keys)
         /\ \A i \in 1..n : /\ refs[i].key = keys[i] /\ refs[i].oldIndex = i - 1
                            /\ keys[i] \in Seq(KeyBytes) /\ Len(keys[i]) \in Nat /\ Len(keys[i]) < 255
<1>1. PICK K : K = Seq(KeyBytes)  OBVIOUS
<1>2. keys \in Seq(K) /\ IsInjective(keys) /\ (\A i \in DOMAIN keys : Len(keys[i]) < 255)
  BY <1>1, KeysAssumption DEF Has
<1>3. n \in Nat /\ DOMAIN keys = 1..n  BY <1>2 DEF Has
<1>4. \A i \in 1..n : keys[i] \in K  BY <1>2, <1>3
<1>5. refs = [i \in 1..n |-> [key |-> keys[i], oldIndex |-> i - 1]]  BY <1>3 DEF Has, TupleReferences
<1>6. PICK T : T = [key : K, oldIndex : Nat]  OBVIOUS
<1>7. \A i \in 1..n : [key |-> keys[i], oldIndex |-> i - 1] \in T  BY <1>4, <1>6
<1>8. refs \in [1..n -> T]  BY <1>5, <1>7
<1>9. refs \in Seq(T) /\ Len(refs) = n  BY <1>3, <1>8
<1>10. Listed(refs, n)  BY <1>1, <1>3, <1>5, <1>6, <1>9 DEF Listed
<1>11. \A i \in 1..n : keys[i] \in Seq(KeyBytes) /\ Len(keys[i]) \in Nat /\ Len(keys[i]) < 255
  BY <1>1, <1>2, <1>3, <1>4, LenProperties
<1> QED  BY <1>2, <1>3, <1>5, <1>10, <1>11

\* A key that stands in the document, and its quote.
LEMMA SpelledIs ==
  ASSUME text \in Seq(Nat), NEW key, key \in Seq(KeyBytes), NEW l \in Nat, l = Len(key), Spelled(key)
  PROVE  /\ l + 1 < Len(text)
         /\ \A c \in Nat : c < l => At(text, c) = At(key, c) /\ At(text, c) # Quote
         /\ At(text, l) = Quote
<1>1. PICK x : x = Append(key, Quote)  OBVIOUS
<1>2. \A k \in 1..l : x[k] = key[k] /\ key[k] \in KeyBytes  BY <1>1
<1>3. x[l + 1] = Quote
  <2>1. key \in Seq(KeyBytes \cup {Quote})  OBVIOUS
  <2> QED  BY <1>1, <2>1
<1>4. l + 1 < Len(text) /\ SubSeq(text, 1, l + 1) = x  BY <1>1 DEF Spelled
<1>5. \A k \in 1..(l + 1) : text[k] = x[k]
  <2>1. PICK m \in Nat : m = Len(text)  BY LenProperties
  <2>2. \A k \in 1..(l + 1) : SubSeq(text, 1, l + 1)[k] = text[k]  BY <1>4, <2>1
  <2> QED  BY <1>4, <2>2
<1>6. ASSUME NEW c \in Nat, c < l PROVE At(text, c) = At(key, c) /\ At(text, c) # Quote
  <2>1. c + 1 \in 1..l /\ c + 1 \in 1..(l + 1)  BY <1>6
  <2>2. text[c + 1] = key[c + 1] /\ key[c + 1] \in KeyBytes  BY <1>2, <1>5, <2>1
  <2> QED  BY <2>2 DEF At, KeyBytes
<1>7. At(text, l) = Quote
  <2>1. l + 1 \in 1..(l + 1)  OBVIOUS
  <2> QED  BY <1>3, <1>5, <2>1 DEF At
<1> QED  BY <1>4, <1>6, <1>7

\* No other key can stand there.
LEMMA SpelledOnce ==
  ASSUME NEW refs, NEW n, Has(refs, n), NEW i \in 1..n, NEW j \in 1..n, Spelled(keys[i]), Spelled(keys[j])
  PROVE  i = j
<1>1. PICK a, b : a = keys[i] /\ b = keys[j]  OBVIOUS
<1>2. a \in Seq(KeyBytes) /\ b \in Seq(KeyBytes)  BY <1>1, RefsAre
<1>3. PICK k \in Nat, l \in Nat : k = Len(a) /\ l = Len(b)  BY <1>2, LenProperties
<1>4. text \in Seq(Nat)  BY DEF Has
<1>5. /\ \A c \in Nat : c < k => At(text, c) = At(a, c) /\ At(text, c) # Quote
      /\ At(text, k) = Quote
  BY <1>1, <1>2, <1>3, <1>4, SpelledIs
<1>6. /\ \A c \in Nat : c < l => At(text, c) = At(b, c) /\ At(text, c) # Quote
      /\ At(text, l) = Quote
  BY <1>1, <1>2, <1>3, <1>4, SpelledIs
<1>7. ~(k < l) /\ ~(l < k)  BY <1>5, <1>6
<1>8. k = l  BY <1>7
<1>9. \A m \in 1..k : a[m] = b[m]
  <2> SUFFICES ASSUME NEW m \in 1..k PROVE a[m] = b[m]  OBVIOUS
  <2>1. PICK c \in Nat : c + 1 = m /\ c < k
    <3>1. m - 1 \in Nat /\ m - 1 + 1 = m /\ m - 1 < k  OBVIOUS
    <3> QED  BY <3>1
  <2>2. At(a, c) = At(b, c)  BY <1>5, <1>6, <1>8, <2>1
  <2> QED  BY <2>1, <2>2 DEF At
<1>10. a = b
  <2>1. PICK S : S = KeyBytes  OBVIOUS
  <2>2. a \in Seq(S) /\ b \in Seq(S)  BY <1>2, <2>1
  <2>3. Len(a) = Len(b) /\ \A m \in 1..Len(a) : a[m] = b[m]  BY <1>3, <1>8, <1>9
  <2> QED  BY <2>2, <2>3, SeqEqual
<1>11. IsInjective(keys) /\ DOMAIN keys = 1..n  BY RefsAre
<1> QED  BY <1>1, <1>10, <1>11 DEF IsInjective

-------------------------------------------------------------------------------
\* memchar comes to the first quote, unless it is the last byte it may look at.
LEMMA MemcharIs ==
  ASSUME NEW from \in Nat, NEW m \in Nat, NEW l \in Nat, from <= l, l + 2 <= from + m,
         At(text, l) = Quote, \A c \in Nat : c < l => At(text, c) # Quote
  PROVE  Memchar(from, m) = l
<1>1. PICK Q : Q = {i \in from..(from + m - 1) : At(text, i) = Quote}  OBVIOUS
<1>2. l \in Q /\ Q \subseteq Nat  BY <1>1
<1>3. Min(Q) \in Q /\ Min(Q) <= l  BY <1>2, MinOf
<1>4. Min(Q) = l
  <2>1. PICK k \in Nat : k = Min(Q) /\ At(text, k) = Quote /\ k <= l  BY <1>1, <1>2, <1>3
  <2>2. ~(k < l)  BY <2>1
  <2> QED  BY <2>1, <2>2
<1>5. l # from + m - 1  OBVIOUS
<1>6. Memchar(from, m) = IF Q = {} THEN NoColumn
                         ELSE IF m % 2 = 1 /\ Min(Q) = from + m - 1 THEN from + m ELSE Min(Q)
  BY <1>1 DEF Memchar
<1> QED  BY <1>2, <1>4, <1>5, <1>6

\* The lesser of two numbers.
LEMMA MinTwo ==
  ASSUME NEW a \in Nat, NEW b \in Nat, NEW k \in Nat, k <= a, k <= b
  PROVE  Min({a, b}) \in Nat /\ k <= Min({a, b})
<1>1. {a, b} \subseteq Nat /\ {a, b} # {}  OBVIOUS
<1>2. Min({a, b}) \in {a, b}  BY <1>1, MinOf
<1> QED  BY <1>2

\* No key is longer than the longest.
LEMMA MaxLengthIs ==
  ASSUME NEW refs, NEW n, Has(refs, n), NEW i \in 1..n
  PROVE  /\ MinLength(refs) \in Nat /\ MaxLength(refs) \in Nat
         /\ MinLength(refs) <= Len(keys[i]) /\ Len(keys[i]) <= MaxLength(refs)
<1>1. PICK T : T = Sizes(refs)  OBVIOUS
<1>2. Listed(refs, n) /\ n \in Nat  BY RefsAre
<1>3. T = {Len(refs[j].key) : j \in 1..n}  BY <1>1, <1>2 DEF Sizes, Listed
<1>4. \A j \in 1..n : refs[j].key = keys[j] /\ Len(keys[j]) \in Nat /\ Len(keys[j]) < 255  BY RefsAre
<1>5. Len(keys[i]) \in T  BY <1>3, <1>4
<1>6. T \subseteq Nat /\ \A y \in T : y <= 255  BY <1>3, <1>4
<1>7. Max(T) \in T /\ \A y \in T : Max(T) >= y
  <2>1. PICK b \in Nat : b = 255  OBVIOUS
  <2>2. T # {} /\ \A y \in T : y <= b  BY <1>5, <1>6, <2>1
  <2> QED  BY <1>6, <2>2, MaxOf
<1>8. MinLength(refs) \in Nat /\ MinLength(refs) <= Len(refs[i].key)  BY <1>2, MinLengthIs
<1>9. Max(T) >= Len(keys[i]) /\ Max(T) \in Nat /\ Len(keys[i]) \in Nat  BY <1>4, <1>5, <1>6, <1>7
<1> QED  BY <1>1, <1>4, <1>8, <1>9 DEF MaxLength

\* The quote behind a key of the type is found where the scan looks for it.
LEMMA ScanIs ==
  ASSUME NEW refs, NEW n, Has(refs, n), NEW i \in 1..n, Spelled(keys[i])
  PROVE  BoundedQuoteScan(refs) = Len(keys[i])
<1>1. PICK key : key = keys[i] /\ key \in Seq(KeyBytes)  BY RefsAre
<1>2. PICK l \in Nat : l = Len(key)  BY <1>1, LenProperties
<1>3. text \in Seq(Nat)  BY DEF Has
<1>4. PICK z \in Nat : z = Len(text)  BY <1>3, LenProperties
<1>5. /\ l + 1 < z /\ At(text, l) = Quote
      /\ \A c \in Nat : c < l => At(text, c) # Quote
  BY <1>1, <1>2, <1>3, <1>4, SpelledIs
<1>6. PICK lo \in Nat, hi \in Nat : lo = MinLength(refs) /\ hi = MaxLength(refs) /\ lo <= l /\ l <= hi
  BY <1>1, <1>2, MaxLengthIs
<1>7. PICK spread \in Nat : spread = hi - lo
  <2>1. hi - lo \in Nat  BY <1>6
  <2> QED  BY <2>1
<1>8. PICK skipped \in Nat, window \in Nat :
        /\ skipped = IF spread >= SimdBytes THEN lo ELSE 0
        /\ window = (IF spread >= SimdBytes THEN spread ELSE hi) + 2
  <2>1. CASE spread >= SimdBytes  BY <2>1
  <2>2. CASE ~(spread >= SimdBytes)  BY <2>2
  <2> QED  BY <2>1, <2>2
<1>9. skipped <= l /\ l + 2 <= skipped + window
  <2>1. CASE spread >= SimdBytes
    <3>1. skipped = lo /\ window = spread + 2  BY <1>8, <2>1
    <3> QED  BY <1>6, <1>7, <3>1
  <2>2. CASE ~(spread >= SimdBytes)
    <3>1. skipped = 0 /\ window = hi + 2  BY <1>8, <2>2
    <3> QED  BY <1>6, <3>1
  <2> QED  BY <2>1, <2>2
<1>10. PICK remaining \in Nat : remaining = z - skipped /\ remaining > 0 /\ l + 2 <= skipped + remaining
  <2>1. z - skipped \in Nat /\ z - skipped > 0 /\ l + 2 <= skipped + (z - skipped)  BY <1>5, <1>9
  <2> QED  BY <2>1
<1>11. PICK k \in Nat : k = l + 2 - skipped  BY <1>9
<1>12. k <= remaining /\ k <= window  BY <1>9, <1>10, <1>11
<1>13. PICK m \in Nat : m = Min({remaining, window}) /\ k <= m  BY <1>12, MinTwo
<1>14. l + 2 <= skipped + m  BY <1>9, <1>11, <1>13
<1>15. Memchar(skipped, m) = l  BY <1>5, <1>9, <1>14, MemcharIs
<1>16. BoundedQuoteScan(refs) = IF remaining <= 0 THEN NoColumn ELSE Memchar(skipped, m)
  BY <1>4, <1>6, <1>7, <1>8, <1>10, <1>13 DEF BoundedQuoteScan
<1>17. ~(remaining <= 0)  BY <1>10
<1> QED  BY <1>1, <1>2, <1>15, <1>16, <1>17

-------------------------------------------------------------------------------
\* The tables, and what tells the keys apart in each.
ByColumn(t, refs, n) == t.type = "single_byte" /\ Apart(refs, n, t.uniqueIndex)

ByParity(t, refs, n) ==
  /\ t.type = "double_element" /\ n = 2 /\ t.uniqueIndex \in Nat
  /\ \A i \in 1..n : t.uniqueIndex < Len(refs[i].key) /\ refs[i].key[t.uniqueIndex + 1] % 2 = i - 1

ColumnsOf(refs, class) ==
  [c \in DOMAIN Collect(refs, class) |-> UniqueIndex(Collect(refs, class)[c])]

SomeColumn(columns) == \A c \in DOMAIN columns : columns[c] # NoColumn

ByFirst(t, refs, n) ==
  /\ t.type = "first_byte_and_unique_index"
  /\ \A i \in 1..n : Len(refs[i].key) > 0
  /\ LET sorted == SortTupleRefs(refs, FirstBytes(refs))
     IN  t.columns = ColumnsOf(sorted, FirstBytes(sorted))
  /\ SomeColumn(t.columns)

ByBoth(t, refs, n) ==
  /\ t.type = "unique_byte_and_length" /\ t.uniqueIndex \in Nat
  /\ \A i \in 1..n : t.uniqueIndex < Len(refs[i].key)
  /\ \A i, j \in 1..n :
       ByteAndLength(At(refs[i].key, t.uniqueIndex), Length(refs[i]))
       = ByteAndLength(At(refs[j].key, t.uniqueIndex), Length(refs[j])) => i = j

ByLength(t, refs, n) ==
  /\ t.type = "unique_per_length"
  /\ t.columns = ColumnsOf(refs, Lengths(refs))
  /\ SomeColumn(t.columns)

ByHash(t) == t.type \in {"simd_full_length", "unset"}

\* The last way there is.
LEMMA HashIs == ASSUME NEW refs, NEW t, t = CollectSimdFullLength(refs) PROVE ByHash(t)
BY DEF CollectSimdFullLength, ByHash

\* The one before it.
LEMMA LengthIs ==
  ASSUME NEW n, NEW refs, NEW t, t = CollectUniquePerLength(refs)
  PROVE  ByHash(t) \/ ByLength(t, refs, n)
<1>1. PICK columns : columns = ColumnsOf(refs, Lengths(refs))  OBVIOUS
<1>2. DOMAIN columns = DOMAIN Collect(refs, Lengths(refs))  BY <1>1 DEF ColumnsOf
<1>3. t = IF \E c \in DOMAIN Collect(refs, Lengths(refs)) : columns[c] = NoColumn
          THEN CollectSimdFullLength(refs)
          ELSE [type |-> "unique_per_length", columns |-> columns]
  BY <1>1 DEF CollectUniquePerLength, ColumnsOf
<1>4. CASE \E c \in DOMAIN columns : columns[c] = NoColumn
  <2>1. t = CollectSimdFullLength(refs)  BY <1>2, <1>3, <1>4
  <2> QED  BY <2>1, HashIs
<1>5. CASE SomeColumn(columns)
  <2>1. t = [type |-> "unique_per_length", columns |-> columns]
    BY <1>2, <1>3, <1>5 DEF SomeColumn
  <2> QED  BY <1>1, <1>5, <2>1 DEF ByLength
<1> QED  BY <1>4, <1>5 DEF SomeColumn

\* A byte of the key with its length.
LEMMA BothIs ==
  ASSUME NEW n \in Nat, NEW refs, Listed(refs, n), n > 0, NEW t, t = CollectUniqueByteAndLength(refs)
  PROVE  ByHash(t) \/ ByLength(t, refs, n) \/ ByBoth(t, refs, n)
<1>1. PICK m : m = MinLength(refs)  OBVIOUS
<1>2. m \in Nat /\ \A i \in 1..n : Len(refs[i].key) \in Nat /\ m <= Len(refs[i].key)  BY <1>1, MinLengthIs
<1>3. PICK U : U = {d \in 0..(m - 1) : IsInjective([i \in DOMAIN refs |->
                                         ByteAndLength(At(refs[i].key, d), Length(refs[i]))])}
  OBVIOUS
<1>4. t = IF U = {} THEN CollectUniquePerLength(refs)
          ELSE [type |-> "unique_byte_and_length", uniqueIndex |-> Min(U)]
  BY <1>1, <1>3 DEF CollectUniqueByteAndLength
<1>5. CASE U = {}
  <2>1. t = CollectUniquePerLength(refs)  BY <1>4, <1>5
  <2> QED  BY <2>1, LengthIs
<1>6. CASE U # {}
  <2>1. PICK c : c = Min(U)  OBVIOUS
  <2>2. U \subseteq Nat  BY <1>3
  <2>3. c \in U  BY <1>6, <2>1, <2>2, MinOf
  <2>4. c \in 0..(m - 1) /\ IsInjective([i \in DOMAIN refs |-> ByteAndLength(At(refs[i].key, c), Length(refs[i]))])
    BY <1>3, <2>3
  <2>5. c \in Nat /\ \A i \in 1..n : c < Len(refs[i].key)  BY <1>2, <2>4
  <2>6. t.type = "unique_byte_and_length" /\ t.uniqueIndex = c  BY <1>4, <1>6, <2>1
  <2>7. DOMAIN refs = 1..n  BY DEF Listed
  <2>8. \A i, j \in 1..n : ByteAndLength(At(refs[i].key, c), Length(refs[i]))
                           = ByteAndLength(At(refs[j].key, c), Length(refs[j])) => i = j
    BY <2>4, <2>7 DEF IsInjective
  <2> QED  BY <2>5, <2>6, <2>8 DEF ByBoth
<1> QED  BY <1>5, <1>6

\* The first byte, and a column for each.
LEMMA FirstIs ==
  ASSUME NEW n \in Nat, NEW refs, Listed(refs, n), n > 0, NEW t, t = CollectFirstByteAndUniqueIndex(refs)
  PROVE  ByHash(t) \/ ByLength(t, refs, n) \/ ByBoth(t, refs, n) \/ ByFirst(t, refs, n)
<1>1. PICK m : m = MinLength(refs)  OBVIOUS
<1>2. m \in Nat /\ \A i \in 1..n : Len(refs[i].key) \in Nat /\ m <= Len(refs[i].key)  BY <1>1, MinLengthIs
<1>3. PICK sorted : sorted = SortTupleRefs(refs, FirstBytes(refs))  OBVIOUS
<1>4. PICK columns : columns = ColumnsOf(sorted, FirstBytes(sorted))  OBVIOUS
<1>5. DOMAIN columns = DOMAIN Collect(sorted, FirstBytes(sorted))  BY <1>4 DEF ColumnsOf
<1>6. t = IF m = 0 THEN CollectUniqueByteAndLength(refs)
          ELSE IF \E c \in DOMAIN Collect(sorted, FirstBytes(sorted)) : columns[c] = NoColumn
          THEN CollectUniqueByteAndLength(refs)
          ELSE [type |-> "first_byte_and_unique_index", columns |-> columns]
  BY <1>1, <1>3, <1>4 DEF CollectFirstByteAndUniqueIndex, ColumnsOf
<1>7. CASE t = CollectUniqueByteAndLength(refs)  BY <1>7, BothIs
<1>8. CASE m # 0 /\ SomeColumn(columns) /\ t = [type |-> "first_byte_and_unique_index", columns |-> columns]
  <2>1. \A i \in 1..n : Len(refs[i].key) > 0  BY <1>2, <1>8
  <2>2. t.type = "first_byte_and_unique_index" /\ t.columns = columns  BY <1>8
  <2> QED  BY <1>3, <1>4, <1>8, <2>1, <2>2 DEF ByFirst
<1> QED  BY <1>5, <1>6, <1>7, <1>8 DEF SomeColumn

\* Two keys, by the lowest bit of a column, or any number of them by a column.
LEMMA DoubleIs ==
  ASSUME NEW n \in Nat, NEW refs, Listed(refs, n), n = 2, UniqueIndex(refs) # NoColumn,
         NEW t, t = CollectDoubleElement(refs)
  PROVE  ByColumn(t, refs, n) \/ ByParity(t, refs, n)
<1>1. PICK m : m = MinLength(refs)  OBVIOUS
<1>2. m \in Nat /\ \A i \in 1..n : Len(refs[i].key) \in Nat /\ m <= Len(refs[i].key)  BY <1>1, MinLengthIs
<1>3. PICK U : U = {c \in 0..(m - 1) :
                      /\ At(refs[1].key, c) # At(refs[2].key, c)
                      /\ At(refs[1].key, c) % 2 = 0 /\ At(refs[2].key, c) % 2 = 1}
  OBVIOUS
<1>4. t = IF U = {} THEN CollectSingleByte(refs)
          ELSE [type |-> "double_element", uniqueIndex |-> Min(U)]
  BY <1>1, <1>3 DEF CollectDoubleElement
<1>5. CASE U = {}
  <2>1. t = CollectSingleByte(refs)  BY <1>4, <1>5
  <2>2. t.type = "single_byte" /\ t.uniqueIndex = UniqueIndex(refs)  BY <2>1 DEF CollectSingleByte
  <2> QED  BY <2>2, UniqueIndexIs DEF ByColumn
<1>6. CASE U # {}
  <2>1. PICK c : c = Min(U)  OBVIOUS
  <2>2. U \subseteq Nat  BY <1>3
  <2>3. c \in U  BY <1>6, <2>1, <2>2, MinOf
  <2>4. c \in 0..(m - 1) /\ refs[1].key[c + 1] % 2 = 0 /\ refs[2].key[c + 1] % 2 = 1
    BY <1>3, <2>3 DEF At
  <2>5. c \in Nat /\ \A i \in 1..n : c < Len(refs[i].key)  BY <1>2, <2>4
  <2>6. t.type = "double_element" /\ t.uniqueIndex = c  BY <1>4, <1>6, <2>1
  <2>7. \A i \in 1..n : refs[i].key[c + 1] % 2 = i - 1
    <3> SUFFICES ASSUME NEW i \in 1..n PROVE refs[i].key[c + 1] % 2 = i - 1  OBVIOUS
    <3>1. CASE i = 1  BY <2>4, <3>1
    <3>2. CASE i = 2  BY <2>4, <3>2
    <3> QED  BY <3>1, <3>2
  <2> QED  BY <2>5, <2>6, <2>7 DEF ByParity
<1> QED  BY <1>5, <1>6

\* Whatever the keys are, the table is one of these.
LEMMA TableIs ==
  ASSUME NEW n \in Nat, NEW refs, Listed(refs, n), n > 1, NEW t, t = CollectMapConstructionData(refs)
  PROVE  \/ ByColumn(t, refs, n) \/ ByParity(t, refs, n) \/ ByFirst(t, refs, n)
         \/ ByBoth(t, refs, n) \/ ByLength(t, refs, n) \/ ByHash(t)
<1>1. Len(refs) = n /\ n # 0 /\ n # 1  BY DEF Listed
<1>2. \/ t = CollectFirstByteAndUniqueIndex(refs)
      \/ UniqueIndex(refs) # NoColumn /\ n = 2 /\ t = CollectDoubleElement(refs)
      \/ UniqueIndex(refs) # NoColumn /\ t = CollectSingleByte(refs)
  <2>1. CASE UniqueIndex(refs) = NoColumn  BY <1>1, <2>1 DEF CollectMapConstructionData
  <2>2. CASE UniqueIndex(refs) # NoColumn /\ n = 2  BY <1>1, <2>2 DEF CollectMapConstructionData
  <2>3. CASE UniqueIndex(refs) # NoColumn /\ n = 3
    BY <1>1, <2>3 DEF CollectMapConstructionData, CollectTripleElement
  <2>4. CASE UniqueIndex(refs) # NoColumn /\ n > 3  BY <1>1, <2>4 DEF CollectMapConstructionData
  <2> QED  BY <2>1, <2>2, <2>3, <2>4
<1>3. CASE t = CollectFirstByteAndUniqueIndex(refs)  BY <1>3, FirstIs
<1>4. CASE UniqueIndex(refs) # NoColumn /\ n = 2 /\ t = CollectDoubleElement(refs)  BY <1>4, DoubleIs
<1>5. CASE UniqueIndex(refs) # NoColumn /\ t = CollectSingleByte(refs)
  <2>1. t.type = "single_byte" /\ t.uniqueIndex = UniqueIndex(refs)  BY <1>5 DEF CollectSingleByte
  <2> QED  BY <1>5, <2>1, UniqueIndexIs DEF ByColumn
<1> QED  BY <1>2, <1>3, <1>4, <1>5

-------------------------------------------------------------------------------
\* Of the references for a cell the last one stays: the only one, if it is one.
LEMMA LastOfOne ==
  ASSUME NEW refs, NEW p \in Nat, NEW S, S = {p} PROVE LastOf(refs, S) = refs[p].oldIndex
<1>1. S # {} /\ Max(S) = p  BY MaxOne
<1> QED  BY <1>1 DEF LastOf

\* What is found is a member's index or the size of the table.
LEMMA LastOfNat ==
  ASSUME NEW n, NEW refs, Listed(refs, n), NEW S, S \subseteq 1..n PROVE LastOf(refs, S) \in Nat
<1>1. n \in Nat /\ S \subseteq Nat /\ \A y \in S : y <= n  BY DEF Listed
<1>2. CASE S = {}  BY <1>2, SizesAssumption DEF LastOf, NotFound
<1>3. CASE S # {}
  <2>1. PICK p : p = Max(S)  OBVIOUS
  <2>2. p \in 1..n  BY <1>1, <1>3, <2>1, MaxOf
  <2>3. PICK R : R = [key : Seq(KeyBytes), oldIndex : Nat]  OBVIOUS
  <2>4. refs \in Seq(R) /\ Len(refs) = n  BY <2>3 DEF Listed
  <2>5. refs[p] \in R  BY <2>2, <2>4
  <2>6. refs[p].oldIndex \in Nat  BY <2>3, <2>5
  <2> QED  BY <1>3, <2>1, <2>6 DEF LastOf
<1> QED  BY <1>2, <1>3

\* The document has the bytes of a key that stands in it.
LEMMA StandsThere ==
  ASSUME NEW refs, NEW n, Has(refs, n), NEW i \in 1..n, Spelled(keys[i]), NEW c \in Nat, c < Len(refs[i].key)
  PROVE  Inside(c) /\ At(text, c) = refs[i].key[c + 1]
<1>1. PICK key : key = keys[i] /\ key = refs[i].key /\ key \in Seq(KeyBytes)  BY RefsAre
<1>2. PICK l \in Nat : l = Len(key)  BY <1>1, LenProperties
<1>3. text \in Seq(Nat)  BY DEF Has
<1>4. PICK z \in Nat : z = Len(text)  BY <1>3, LenProperties
<1>5. l + 1 < z /\ At(text, c) = At(key, c)  BY <1>1, <1>2, <1>3, <1>4, SpelledIs
<1>6. c < z  BY <1>1, <1>2, <1>5
<1> QED  BY <1>1, <1>4, <1>5, <1>6 DEF Inside, At

\* It is found by a column in which all keys differ.
LEMMA FoundByColumn ==
  ASSUME NEW refs, NEW n, Has(refs, n), NEW i \in 1..n, Spelled(keys[i]), ByColumn(table, refs, n)
  PROVE  FindIndex(refs) = i - 1
<1>1. PICK c : c = table.uniqueIndex  OBVIOUS
<1>2. Apart(refs, n, c) /\ table.type = "single_byte"  BY <1>1 DEF ByColumn
<1>3. c \in Nat /\ c < Len(refs[i].key)  BY <1>2 DEF Apart
<1>4. Inside(c) /\ At(text, c) = refs[i].key[c + 1]  BY <1>3, StandsThere
<1>5. n \in Nat /\ DOMAIN refs = 1..n /\ refs[i].oldIndex = i - 1  BY RefsAre DEF Listed
<1>6. PICK S : S = {j \in DOMAIN refs : At(refs[j].key, c) = At(text, c)}  OBVIOUS
<1>7. \A j \in 1..n : At(refs[j].key, c) = At(text, c) <=> j = i
  BY <1>2, <1>4 DEF Apart, At
<1>8. S = {i}  BY <1>5, <1>6, <1>7
<1>9. FindIndex(refs) = LastOf(refs, S)  BY <1>1, <1>2, <1>4, <1>6 DEF FindIndex, FindByColumn
<1> QED  BY <1>5, <1>8, <1>9, LastOfOne

\* It is found by the lowest bit of a byte.
LEMMA FoundByParity ==
  ASSUME NEW refs, NEW n, Has(refs, n), NEW i \in 1..n, Spelled(keys[i]), ByParity(table, refs, n)
  PROVE  FindIndex(refs) = i - 1
<1>1. PICK c : c = table.uniqueIndex  OBVIOUS
<1>2. /\ c \in Nat /\ c < Len(refs[i].key) /\ refs[i].key[c + 1] % 2 = i - 1
      /\ table.type = "double_element"
  BY <1>1 DEF ByParity
<1>3. Inside(c) /\ At(text, c) = refs[i].key[c + 1]  BY <1>2, StandsThere
<1> QED  BY <1>1, <1>2, <1>3 DEF FindIndex

\* It is found by a byte with the key's length.
LEMMA FoundByBoth ==
  ASSUME NEW refs, NEW n, Has(refs, n), NEW i \in 1..n, Spelled(keys[i]), ByBoth(table, refs, n)
  PROVE  FindIndex(refs) = i - 1
<1>1. PICK c : c = table.uniqueIndex  OBVIOUS
<1>2. /\ c \in Nat /\ c < Len(refs[i].key) /\ table.type = "unique_byte_and_length"
      /\ \A k, j \in 1..n : ByteAndLength(At(refs[k].key, c), Length(refs[k]))
                             = ByteAndLength(At(refs[j].key, c), Length(refs[j])) => k = j
  BY <1>1 DEF ByBoth
<1>3. Inside(c) /\ At(text, c) = At(refs[i].key, c)  BY <1>2, StandsThere DEF At
<1>4. n \in Nat /\ DOMAIN refs = 1..n /\ refs[i].oldIndex = i - 1 /\ keys[i] = refs[i].key
  BY RefsAre DEF Listed
<1>5. PICK l \in Nat : l = Length(refs[i]) /\ l = BoundedQuoteScan(refs)
  <2>1. Len(keys[i]) \in Nat  BY RefsAre
  <2> QED  BY <1>4, <2>1, ScanIs DEF Length
<1>6. PICK hash : hash = ByteAndLength(At(text, c), l)  OBVIOUS
<1>7. PICK S : S = {j \in DOMAIN refs : ByteAndLength(At(refs[j].key, c), Length(refs[j])) = hash}  OBVIOUS
<1>8. hash = ByteAndLength(At(refs[i].key, c), Length(refs[i]))  BY <1>3, <1>5, <1>6
<1>9. S = {i}  BY <1>2, <1>4, <1>7, <1>8
<1>10. l # NoColumn  BY <1>5 DEF NoColumn
<1>11. FindIndex(refs) = LastOf(refs, S)
  BY <1>1, <1>2, <1>3, <1>5, <1>6, <1>7, <1>10 DEF FindIndex, FindByByteAndLength
<1> QED  BY <1>4, <1>9, <1>11, LastOfOne

-------------------------------------------------------------------------------
\* Sorted by their classes the references of one stand together.
LEMMA SortedTogether ==
  ASSUME NEW n \in Nat, NEW refs, Listed(refs, n), NEW rank, Ranked(rank, n),
         NEW class, \A p \in 1..n : class[p] = rank[Comes(refs, rank, p)]
  PROVE  Together(class, n)
<1>1. SUFFICES ASSUME NEW p \in 1..n, NEW q \in 1..n, NEW r \in 1..n, p < q, q < r, class[p] = class[r]
               PROVE  class[q] = class[p]
  BY DEF Together
<1>2. Comes(refs, rank, p) \in 1..n /\ Comes(refs, rank, q) \in 1..n  BY ComesIs
<1>3. PICK a \in Nat, b \in Nat : a = class[p] /\ b = class[q]  BY <1>2 DEF Ranked
<1>4. a >= b  BY <1>1, <1>3, SortedDown
<1>5. b >= a  BY <1>1, <1>3, SortedDown
<1> QED  BY <1>3, <1>4, <1>5

\* The first bytes of keys that have one.
LEMMA FirstBytesRank ==
  ASSUME NEW refs, NEW n, Has(refs, n), \A i \in 1..n : Len(refs[i].key) > 0
  PROVE  Ranked(FirstBytes(refs), n)
<1>1. SUFFICES ASSUME NEW i \in 1..n PROVE FirstBytes(refs)[i] \in Nat  BY DEF Ranked
<1>2. PICK key : key = refs[i].key /\ key \in Seq(KeyBytes) /\ Len(key) > 0  BY RefsAre
<1>3. key[1] \in KeyBytes  BY <1>2
<1>4. DOMAIN refs = 1..n  BY RefsAre DEF Listed
<1>5. FirstBytes(refs)[i] = key[1]  BY <1>2, <1>4 DEF FirstBytes, FirstByte
<1>6. KeyBytes \subseteq Nat
  <2>1. SUFFICES ASSUME NEW b \in KeyBytes PROVE b \in Nat  OBVIOUS
  <2>2. b \in 32..127  BY DEF KeyBytes
  <2> QED  BY <2>2
<1>7. key[1] \in Nat  BY <1>3, <1>6
<1> QED  BY <1>5, <1>7

\* It is found by its first byte and a column for that.
LEMMA FoundByFirst ==
  ASSUME NEW refs, NEW n, Has(refs, n), NEW i \in 1..n, Spelled(keys[i]), ByFirst(table, refs, n)
  PROVE  FindIndex(refs) = i - 1
<1>1. n \in Nat /\ Listed(refs, n) /\ DOMAIN refs = 1..n /\ refs[i].oldIndex = i - 1
  <2>1. n \in Nat /\ Listed(refs, n) /\ refs[i].oldIndex = i - 1  BY RefsAre
  <2> QED  BY <2>1 DEF Listed
<1>2. PICK rank : rank = FirstBytes(refs)  OBVIOUS
<1>3. PICK sorted : sorted = SortTupleRefs(refs, rank)  OBVIOUS
<1>4. PICK class : class = FirstBytes(sorted)  OBVIOUS
<1>5. /\ table.type = "first_byte_and_unique_index" /\ table.columns = ColumnsOf(sorted, class)
      /\ SomeColumn(table.columns) /\ \A j \in 1..n : Len(refs[j].key) > 0
  BY <1>2, <1>3, <1>4 DEF ByFirst
<1>6. Ranked(rank, n)  BY <1>2, <1>5, FirstBytesRank
<1>7. Listed(sorted, n) /\ \A p \in 1..n : sorted[p] = refs[Comes(refs, rank, p)]
  BY <1>1, <1>3, <1>6, SortedIs
<1>8. \A j \in 1..n : rank[j] = FirstByte(refs[j])  BY <1>1, <1>2 DEF FirstBytes
<1>9. \A p \in 1..n : class[p] = FirstByte(sorted[p])  BY <1>4, <1>7 DEF FirstBytes, Listed
<1>10. \A p \in 1..n : Comes(refs, rank, p) \in 1..n  BY <1>1, <1>6, ComesIs
<1>11. \A p \in 1..n : class[p] = rank[Comes(refs, rank, p)]  BY <1>7, <1>8, <1>9, <1>10
<1>12. Together(class, n)  BY <1>1, <1>6, <1>11, SortedTogether
<1>13. ASSUME NEW j \in 1..n
       PROVE  /\ PlaceOf(refs, rank, j) \in 1..n /\ sorted[PlaceOf(refs, rank, j)] = refs[j]
              /\ class[PlaceOf(refs, rank, j)] = FirstByte(refs[j])
  <2>1. PlaceOf(refs, rank, j) \in 1..n /\ Comes(refs, rank, PlaceOf(refs, rank, j)) = j
    BY <1>1, <1>6, ComesBack
  <2> QED  BY <1>7, <1>9, <2>1
<1>14. PICK p \in 1..n : p = PlaceOf(refs, rank, i) /\ sorted[p] = refs[i] /\ class[p] = FirstByte(refs[i])
  BY <1>13
<1>15. PICK byte : byte = At(text, 0)  OBVIOUS
<1>16. Inside(0) /\ byte = FirstByte(refs[i])
  <2>1. 0 \in Nat /\ 0 < Len(refs[i].key)  BY <1>5, MinLengthIs, <1>1
  <2>2. Inside(0) /\ At(text, 0) = refs[i].key[0 + 1]  BY <2>1, StandsThere
  <2> QED  BY <1>15, <2>2 DEF FirstByte
<1>17. PICK col : col = UniqueIndex(Collect(sorted, class)[byte])  OBVIOUS
<1>18. byte \in DOMAIN Collect(sorted, class)
  <2>1. p \in DOMAIN sorted /\ class[p] = byte  BY <1>7, <1>14, <1>16 DEF Listed
  <2> QED  BY <2>1 DEF Collect
<1>19. byte \in DOMAIN table.columns /\ table.columns[byte] = col /\ col # NoColumn
  BY <1>5, <1>17, <1>18 DEF ColumnsOf, SomeColumn
<1>20. /\ col \in Nat /\ col < Len(refs[i].key)
       /\ \A q \in 1..n : class[q] = byte /\ sorted[q].key[col + 1] = refs[i].key[col + 1] => q = p
  <2>1. class[p] = byte /\ sorted[p] = refs[i]  BY <1>14, <1>16
  <2>2. Listed(sorted, n) /\ Together(class, n)  BY <1>7, <1>12
  <2>3. Tells(sorted, n, class, p, col)  BY <1>1, <1>17, <1>19, <2>1, <2>2, CollectApart
  <2> QED  BY <2>1, <2>3 DEF Tells
<1>21. Inside(col) /\ At(text, col) = refs[i].key[col + 1]  BY <1>20, StandsThere
<1>22. ASSUME NEW j \in 1..n, FirstByte(refs[j]) = byte, At(refs[j].key, col) = At(text, col) PROVE j = i
  <2>1. PICK q \in 1..n : q = PlaceOf(refs, rank, j) /\ sorted[q] = refs[j] /\ class[q] = byte
    BY <1>13, <1>22
  <2>2. q = p  BY <1>20, <1>21, <1>22, <2>1 DEF At
  <2> QED  BY <1>1, <1>6, <1>14, <2>1, <2>2, PlacesDiffer
<1>23. PICK S : S = {j \in DOMAIN refs : FirstByte(refs[j]) = byte /\ At(refs[j].key, col) = At(text, col)}
  OBVIOUS
<1>24. i \in S  BY <1>1, <1>16, <1>21, <1>23 DEF At
<1>25. S = {i}  BY <1>1, <1>22, <1>23, <1>24
<1>26. FindIndex(refs) = LastOf(refs, S)
  BY <1>5, <1>15, <1>16, <1>19, <1>21, <1>23 DEF FindIndex, FindByFirstByte
<1> QED  BY <1>1, <1>25, <1>26, LastOfOne

\* It is found by its length and a column for that, where members whose keys
\* are equally long are declared one after the other.
LEMMA FoundByLength ==
  ASSUME NEW refs, NEW n, Has(refs, n), NEW i \in 1..n, Spelled(keys[i]), ByLength(table, refs, n),
         LengthsTogether
  PROVE  FindIndex(refs) = i - 1
<1>1. n \in Nat /\ Listed(refs, n) /\ DOMAIN refs = 1..n /\ refs[i].oldIndex = i - 1 /\ DOMAIN keys = 1..n
  <2>1. n \in Nat /\ Listed(refs, n) /\ refs[i].oldIndex = i - 1 /\ DOMAIN keys = 1..n  BY RefsAre
  <2> QED  BY <2>1 DEF Listed
<1>2. \A j \in 1..n : refs[j].key = keys[j] /\ Len(keys[j]) \in Nat  BY RefsAre
<1>3. PICK rank : rank = Lengths(refs)  OBVIOUS
<1>4. \A j \in 1..n : rank[j] = Length(refs[j]) /\ rank[j] = Len(keys[j])
  BY <1>1, <1>2, <1>3 DEF Lengths, Length
<1>5. Together(rank, n)
  <2>1. SUFFICES ASSUME NEW a \in 1..n, NEW b \in 1..n, NEW c \in 1..n, a < b, b < c, rank[a] = rank[c]
                 PROVE  rank[b] = rank[a]
    BY DEF Together
  <2>2. Len(keys[a]) = Len(keys[c])  BY <1>4, <2>1
  <2>3. Len(keys[b]) = Len(keys[a])  BY <1>1, <2>1, <2>2 DEF LengthsTogether
  <2> QED  BY <1>4, <2>3
<1>6. Ranked(rank, n)  BY <1>2, <1>4 DEF Ranked
<1>7. Ranked(rank, n) /\ Together(rank, n)  BY <1>5, <1>6
<1>8. PICK sorted : sorted = SortTupleRefs(refs, rank)  OBVIOUS
<1>9. Listed(sorted, n) /\ \A p \in 1..n : sorted[p] = refs[Comes(refs, rank, p)]
  BY <1>1, <1>6, <1>8, SortedIs
<1>10. /\ table.type = "unique_per_length" /\ table.columns = ColumnsOf(refs, rank)
      /\ SomeColumn(table.columns)
  BY <1>3 DEF ByLength
<1>11. PICK l \in Nat : l = rank[i] /\ l = BoundedQuoteScan(refs) /\ l = Len(refs[i].key)
  BY <1>2, <1>4, ScanIs
<1>12. PICK col : col = UniqueIndex(Collect(refs, rank)[l])  OBVIOUS
<1>13. l \in DOMAIN Collect(refs, rank)  BY <1>1, <1>11 DEF Collect
<1>14. l \in DOMAIN table.columns /\ table.columns[l] = col /\ col # NoColumn
  BY <1>10, <1>12, <1>13 DEF ColumnsOf, SomeColumn
<1>15. /\ col \in Nat /\ col < l
       /\ \A j \in 1..n : rank[j] = l /\ refs[j].key[col + 1] = refs[i].key[col + 1] => j = i
  <2>1. Tells(refs, n, rank, i, col)  BY <1>1, <1>5, <1>11, <1>12, <1>14, CollectApart
  <2> QED  BY <1>11, <2>1 DEF Tells
<1>16. Inside(col) /\ At(text, col) = refs[i].key[col + 1]  BY <1>11, <1>15, StandsThere
<1>17. PICK p \in 1..n : p = PlaceOf(refs, rank, i) /\ Comes(refs, rank, p) = i
  BY <1>1, <1>6, ComesBack
<1>18. sorted[p] = refs[i]  BY <1>9, <1>17
<1>19. PICK S : S = {q \in DOMAIN sorted : /\ Length(sorted[q]) = l /\ col < l
                                          /\ At(sorted[q].key, col) = At(text, col)}
  OBVIOUS
<1>20. p \in S  BY <1>9, <1>11, <1>15, <1>16, <1>18, <1>19 DEF Listed, Length, At
<1>21. ASSUME NEW q \in S PROVE q = p
  <2>1. q \in 1..n  BY <1>9, <1>19 DEF Listed
  <2>2. PICK j \in 1..n : j = Comes(refs, rank, q) /\ PlaceOf(refs, rank, j) = q
    BY <1>1, <1>7, <2>1, ComesIs
  <2>3. sorted[q] = refs[j]  BY <1>9, <2>1, <2>2
  <2>4. Length(refs[j]) = l /\ refs[j].key[col + 1] = refs[i].key[col + 1]
    BY <1>16, <1>19, <1>21, <2>3 DEF At
  <2>5. j = i  BY <1>4, <1>15, <2>4
  <2> QED  BY <1>17, <2>2, <2>5
<1>22. S = {p}  BY <1>20, <1>21
<1>23. FindIndex(refs) = LastOf(sorted, S)
  <2>1. l # NoColumn /\ col # NoColumn  BY <1>11, <1>15 DEF NoColumn
  <2> QED  BY <1>3, <1>8, <1>10, <1>11, <1>14, <1>16, <1>19, <2>1 DEF FindIndex, FindByLength
<1>24. p \in Nat  BY <1>17
<1> QED  BY <1>1, <1>18, <1>22, <1>23, <1>24, LastOfOne

-------------------------------------------------------------------------------
\* The lengths of the keys.
LEMMA LengthsRank == ASSUME NEW refs, NEW n, Has(refs, n) PROVE Ranked(Lengths(refs), n)
<1>1. SUFFICES ASSUME NEW i \in 1..n PROVE Lengths(refs)[i] \in Nat  BY DEF Ranked
<1>2. DOMAIN refs = 1..n /\ refs[i].key = keys[i] /\ Len(keys[i]) \in Nat  BY RefsAre DEF Listed
<1> QED  BY <1>2 DEF Lengths, Length

\* The tables a document is read with; the one by length only of a type whose
\* members with equally long keys are declared one after the other.
TableOf(refs) == table = CollectMapConstructionData(refs) /\ table.type # "unset"
SoundTable == table.type # "simd_full_length" /\ (table.type = "unique_per_length" => LengthsTogether)

\* Whatever tells the keys apart, the search comes to the key that stands there.
LEMMA Found ==
  ASSUME NEW refs, NEW n, Has(refs, n), n > 1, TableOf(refs), SoundTable, NEW i \in 1..n, Spelled(keys[i])
  PROVE  FindIndex(refs) = i - 1
<1>1. n \in Nat /\ Listed(refs, n)  BY RefsAre
<1>2. \/ ByColumn(table, refs, n) \/ ByParity(table, refs, n) \/ ByFirst(table, refs, n)
      \/ ByBoth(table, refs, n) \/ ByLength(table, refs, n) \/ ByHash(table)
  BY <1>1, TableIs DEF TableOf
<1>3. CASE ByColumn(table, refs, n)  BY <1>3, FoundByColumn
<1>4. CASE ByParity(table, refs, n)  BY <1>4, FoundByParity
<1>5. CASE ByFirst(table, refs, n)  BY <1>5, FoundByFirst
<1>6. CASE ByBoth(table, refs, n)  BY <1>6, FoundByBoth
<1>7. CASE ByLength(table, refs, n)
  <2>1. LengthsTogether  BY <1>7 DEF ByLength, SoundTable
  <2> QED  BY <1>7, <2>1, FoundByLength
<1>8. CASE ByHash(table)  BY <1>8 DEF ByHash, SoundTable, TableOf
<1> QED  BY <1>2, <1>3, <1>4, <1>5, <1>6, <1>7, <1>8

\* Whatever the document is, the search gives a number.
LEMMA IndexNat ==
  ASSUME NEW refs, NEW n, Has(refs, n), n > 1, TableOf(refs)
  PROVE  FindIndex(refs) \in Nat
<1>1. n \in Nat /\ Listed(refs, n) /\ DOMAIN refs = 1..n  BY RefsAre DEF Listed
<1>2. \/ ByColumn(table, refs, n) \/ ByParity(table, refs, n) \/ ByFirst(table, refs, n)
      \/ ByBoth(table, refs, n) \/ ByLength(table, refs, n) \/ ByHash(table)
  BY <1>1, TableIs DEF TableOf
<1>3. NotFound \in Nat  BY SizesAssumption DEF NotFound
<1>4. CASE ByColumn(table, refs, n)
  <2>1. PICK S : S = {i \in DOMAIN refs : At(refs[i].key, table.uniqueIndex) = At(text, table.uniqueIndex)}
    OBVIOUS
  <2>2. FindIndex(refs) \in {NotFound, LastOf(refs, S)}
    BY <1>4, <2>1 DEF ByColumn, FindIndex, FindByColumn
  <2>3. S \subseteq 1..n  BY <1>1, <2>1
  <2> QED  BY <1>1, <1>3, <2>2, <2>3, LastOfNat
<1>5. CASE ByParity(table, refs, n)
  <2>1. PICK c \in Nat : c = table.uniqueIndex /\ table.type = "double_element"  BY <1>5 DEF ByParity
  <2>2. PICK z \in Nat : z = Len(text) /\ \A k \in 1..z : text[k] \in Nat  BY LenProperties DEF Has
  <2>3. FindIndex(refs) = IF Inside(c) THEN At(text, c) % 2 ELSE NotFound  BY <2>1 DEF FindIndex
  <2>4. CASE Inside(c)
    <3>1. PICK b \in Nat : b = At(text, c)
      <4>1. c + 1 \in 1..z  BY <2>2, <2>4 DEF Inside
      <4> QED  BY <2>2, <4>1 DEF At
    <3>2. b % 2 \in Nat  OBVIOUS
    <3> QED  BY <2>3, <2>4, <3>1, <3>2
  <2>5. CASE ~Inside(c)  BY <1>3, <2>3, <2>5
  <2> QED  BY <2>4, <2>5
<1>6. CASE ByFirst(table, refs, n)
  <2>1. PICK byte : byte = At(text, 0)  OBVIOUS
  <2>2. PICK col : col = IF byte \in DOMAIN table.columns THEN table.columns[byte] ELSE NoColumn  OBVIOUS
  <2>3. PICK S : S = {i \in DOMAIN refs : FirstByte(refs[i]) = byte /\ At(refs[i].key, col) = At(text, col)}
    OBVIOUS
  <2>4. FindIndex(refs) \in {NotFound, LastOf(refs, S)}
    BY <1>6, <2>1, <2>2, <2>3 DEF ByFirst, FindIndex, FindByFirstByte
  <2>5. S \subseteq 1..n  BY <1>1, <2>3
  <2> QED  BY <1>1, <1>3, <2>4, <2>5, LastOfNat
<1>7. CASE ByBoth(table, refs, n)
  <2>1. PICK hash : hash = ByteAndLength(At(text, table.uniqueIndex), BoundedQuoteScan(refs))  OBVIOUS
  <2>2. PICK S : S = {i \in DOMAIN refs :
                       ByteAndLength(At(refs[i].key, table.uniqueIndex), Length(refs[i])) = hash}
    OBVIOUS
  <2>3. FindIndex(refs) \in {NotFound, LastOf(refs, S)}
    BY <1>7, <2>1, <2>2 DEF ByBoth, FindIndex, FindByByteAndLength
  <2>4. S \subseteq 1..n  BY <1>1, <2>2
  <2> QED  BY <1>1, <1>3, <2>3, <2>4, LastOfNat
<1>8. CASE ByLength(table, refs, n)
  <2>1. PICK l : l = BoundedQuoteScan(refs)  OBVIOUS
  <2>2. PICK col : col = IF l \in DOMAIN table.columns THEN table.columns[l] ELSE NoColumn  OBVIOUS
  <2>3. PICK sorted : sorted = SortTupleRefs(refs, Lengths(refs))  OBVIOUS
  <2>4. Listed(sorted, n)  BY <1>1, <2>3, LengthsRank, SortedIs
  <2>5. PICK S : S = {i \in DOMAIN sorted : /\ Length(sorted[i]) = l /\ col < l
                                           /\ At(sorted[i].key, col) = At(text, col)}
    OBVIOUS
  <2>6. FindIndex(refs) \in {NotFound, LastOf(sorted, S)}
    BY <1>8, <2>1, <2>2, <2>3, <2>5 DEF ByLength, FindIndex, FindByLength
  <2>7. S \subseteq 1..n  BY <2>4, <2>5 DEF Listed
  <2> QED  BY <1>3, <2>4, <2>6, <2>7, LastOfNat
<1>9. CASE ByHash(table)
  <2>1. PICK slot : slot = Slot(HashKeyRt(table.seed, text,
                                 Min({BoundedQuoteScan(refs), table.uniqueIndex, Len(text)})))
    OBVIOUS
  <2>2. PICK S : S = {i \in DOMAIN refs : table.slots[i] = slot}  OBVIOUS
  <2>3. table.type = "simd_full_length"  BY <1>9 DEF ByHash, TableOf
  <2>4. FindIndex(refs) = NotFound \/ (S # {} /\ FindIndex(refs) = refs[Min(S)].oldIndex)
    BY <2>1, <2>2, <2>3 DEF FindIndex, FindByHash
  <2>5. S \subseteq 1..n  BY <1>1, <2>2
  <2>6. ASSUME S # {} PROVE refs[Min(S)].oldIndex \in Nat
    <3>1. PICK p : p = Min(S)  OBVIOUS
    <3>2. S \subseteq Nat  BY <2>5
    <3>3. p \in 1..n  BY <2>5, <2>6, <3>1, <3>2, MinOf
    <3>4. refs[p].oldIndex = p - 1  BY <3>3, RefsAre
    <3> QED  BY <3>1, <3>3, <3>4
  <2> QED  BY <1>3, <2>4, <2>6
<1> QED  BY <1>2, <1>4, <1>5, <1>6, <1>7, <1>8, <1>9

-------------------------------------------------------------------------------
\* What holds in every state besides what is chosen.
Typed ==
  /\ keys \in KeyLists
  /\ table = NoTable \/ table = CollectMapConstructionData(TupleReferences)
  /\ text \in Seq(Nat)
  /\ text # NoText => table.type \notin {"none", "unset"}
  /\ expected \in Nat /\ (expected = 0 \/ expected < Len(keys))
  /\ Decided => text # NoText

\* The parser stands at a key: the keys, their references and their table.
LEMMA AtKey ==
  ASSUME Typed, text # NoText, NEW refs, refs = TupleReferences, NEW n, n = Len(keys)
  PROVE  Has(refs, n) /\ TableOf(refs)
<1>1. Has(refs, n)  BY DEF Typed, Has
<1>2. table # NoTable /\ table.type # "unset"  BY DEF Typed, NoTable
<1> QED  BY <1>1, <1>2 DEF Typed, TableOf

\* A key of the type that stands there is chosen.
LEMMA RightChoice ==
  ASSUME Typed, text # NoText, SoundTable, NEW i \in DOMAIN keys, Spelled(keys[i])
  PROVE  ProcessIndex = i - 1
<1>1. PICK refs : refs = TupleReferences  OBVIOUS
<1>2. PICK n : n = Len(keys)  OBVIOUS
<1>3. Has(refs, n) /\ TableOf(refs)  BY <1>1, <1>2, AtKey
<1>4. n \in Nat /\ DOMAIN keys = 1..n  BY <1>3, RefsAre
<1>5. i \in 1..n /\ n > 0  BY <1>4
<1>6. PICK e \in Nat : e = expected /\ e < n  BY <1>2, <1>4, <1>5 DEF Typed
<1>7. e + 1 \in 1..n  BY <1>4, <1>6
<1>8. PICK found : found = FindIndex(refs)  OBVIOUS
<1>9. ProcessIndex = IF n > 0 /\ Spelled(keys[e + 1]) THEN e
                     ELSE IF n > 1 /\ found < n /\ Spelled(keys[found + 1]) THEN found ELSE Skipped
  BY <1>1, <1>2, <1>6, <1>8 DEF ProcessIndex
<1>10. CASE Spelled(keys[e + 1])
  <2>1. e + 1 = i  BY <1>3, <1>5, <1>7, <1>10, SpelledOnce
  <2> QED  BY <1>5, <1>6, <1>9, <1>10, <2>1
<1>11. CASE ~Spelled(keys[e + 1])
  <2>1. n > 1
    <3> SUFFICES ASSUME n = 1 PROVE FALSE  BY <1>4, <1>5
    <3>1. e + 1 = i  BY <1>5, <1>7
    <3> QED  BY <1>11, <3>1
  <2>2. found = i - 1  BY <1>3, <1>5, <1>8, <2>1, Found
  <2>3. found < n /\ found + 1 = i  BY <1>4, <1>5, <2>2
  <2> QED  BY <1>9, <1>11, <2>1, <2>2, <2>3
<1> QED  BY <1>10, <1>11

\* What is chosen is skipped or a member whose key stands there.
LEMMA ChoiceStandsThere ==
  ASSUME Typed, text # NoText, ProcessIndex # Skipped
  PROVE  \E i \in DOMAIN keys : i - 1 = ProcessIndex /\ Spelled(keys[i])
<1>1. PICK refs : refs = TupleReferences  OBVIOUS
<1>2. PICK n : n = Len(keys)  OBVIOUS
<1>3. Has(refs, n) /\ TableOf(refs)  BY <1>1, <1>2, AtKey
<1>4. n \in Nat /\ DOMAIN keys = 1..n  BY <1>3, RefsAre
<1>5. PICK e \in Nat : e = expected /\ (e = 0 \/ e < n)  BY <1>2 DEF Typed
<1>6. PICK found : found = FindIndex(refs)  OBVIOUS
<1>7. \/ n > 0 /\ Spelled(keys[e + 1]) /\ ProcessIndex = e
      \/ n > 1 /\ found < n /\ Spelled(keys[found + 1]) /\ ProcessIndex = found
  BY <1>1, <1>2, <1>5, <1>6 DEF ProcessIndex
<1>8. CASE n > 0 /\ Spelled(keys[e + 1]) /\ ProcessIndex = e
  <2>1. e + 1 \in 1..n /\ (e + 1) - 1 = e  BY <1>4, <1>5, <1>8
  <2> QED  BY <1>4, <1>8, <2>1
<1>9. CASE n > 1 /\ found < n /\ Spelled(keys[found + 1]) /\ ProcessIndex = found
  <2>1. found \in Nat  BY <1>3, <1>6, <1>9, IndexNat
  <2>2. found + 1 \in 1..n /\ (found + 1) - 1 = found  BY <1>4, <1>9, <2>1
  <2> QED  BY <1>4, <1>9, <2>2
<1> QED  BY <1>7, <1>8, <1>9

-------------------------------------------------------------------------------
KeyMapInv == Typed /\ SoundTableFindsTheKey /\ OtherKeysAreSkipped

\* A type before its table is made.
LEMMA KeyMapInit == Init => KeyMapInv
<1>1. SUFFICES ASSUME Init PROVE KeyMapInv  OBVIOUS
<1>2. ~Decided /\ text = <<>>  BY <1>1 DEF Init, Decided, NoText
<1>3. <<>> \in Seq(Nat)  OBVIOUS
<1>4. Typed  BY <1>1, <1>2, <1>3 DEF Init, Typed, NoText
<1> QED  BY <1>2, <1>4 DEF KeyMapInv, SoundTableFindsTheKey, FindsTheKey, OtherKeysAreSkipped

\* Its table is made, a key is met and its member is chosen.
LEMMA KeyMapStep == KeyMapInv /\ [Next]_vars => KeyMapInv'
<1>1. SUFFICES ASSUME KeyMapInv, [Next]_vars PROVE KeyMapInv'  OBVIOUS
<1>2. Typed /\ SoundTableFindsTheKey /\ OtherKeysAreSkipped  BY <1>1 DEF KeyMapInv
<1>3. ASSUME ~Decided', Typed' PROVE KeyMapInv'
  BY <1>3 DEF KeyMapInv, SoundTableFindsTheKey, FindsTheKey, OtherKeysAreSkipped
<1>4. CASE Compile
  <2>1. table = NoTable /\ table' = CollectMapConstructionData(TupleReferences)
        /\ UNCHANGED <<keys, text, expected, member>>
    BY <1>4 DEF Compile
  <2>2. text = NoText /\ ~Decided  BY <1>2, <2>1 DEF Typed, NoTable
  <2>3. ~Decided' /\ text' = NoText  BY <2>1, <2>2 DEF Decided
  <2>4. TupleReferences' = TupleReferences  BY <2>1 DEF TupleReferences
  <2>5. Typed'  BY <1>2, <2>1, <2>3, <2>4 DEF Typed
  <2> QED  BY <1>3, <2>3, <2>5
<1>5. CASE MeetKey
  <2>1. /\ table.type \notin {"none", "unset"} /\ text = NoText /\ expected' \in {0} \cup 0..(Len(keys) - 1)
        /\ UNCHANGED <<keys, table, member>>
    BY <1>5 DEF MeetKey
  <2>2. PICK s \in Spellings, f \in Following : text' = s \o <<Quote>> \o f  BY <1>5 DEF MeetKey
  <2>3. text' \in Seq(Nat)
    <3>1. PICK B : B = 0..255  OBVIOUS
    <3>2. B \subseteq Nat  BY <3>1
    <3>3. s \in Seq(B) /\ f \in Seq(B)  BY <3>1, TextsAssumption
    <3>4. s \in Seq(Nat) /\ f \in Seq(Nat)  BY <3>3, <3>2, SeqMonotonic
    <3>5. <<Quote>> \in Seq(Nat)  BY DEF Quote
    <3>6. s \o <<Quote>> \in Seq(Nat)  BY <3>4, <3>5
    <3> QED  BY <2>2, <3>4, <3>6
  <2>4. ~Decided' /\ ~Decided  BY <1>2, <2>1 DEF Typed, Decided
  <2>5. TupleReferences' = TupleReferences  BY <2>1 DEF TupleReferences
  <2>6. expected' \in Nat /\ (expected' = 0 \/ expected' < Len(keys'))
    <3>1. Len(keys) \in Nat
      <4>1. keys \in Seq(Seq(KeyBytes))  BY <1>2, KeysAssumption DEF Typed
      <4> QED  BY <4>1, LenProperties
    <3> QED  BY <2>1, <3>1
  <2>7. Typed'  BY <1>2, <2>1, <2>3, <2>4, <2>5, <2>6 DEF Typed
  <2> QED  BY <1>3, <2>4, <2>7
<1>6. CASE ChooseMember
  <2>1. text # NoText /\ member' = ProcessIndex /\ UNCHANGED <<keys, table, text, expected>>
    BY <1>6 DEF ChooseMember
  <2>2. TupleReferences' = TupleReferences  BY <2>1 DEF TupleReferences
  <2>3. Typed'  BY <1>2, <2>1, <2>2 DEF Typed
  <2>4. SoundTableFindsTheKey'
    <3>1. \A i \in DOMAIN keys : SoundTable /\ Spelled(keys[i]) => ProcessIndex = i - 1
      BY <1>2, <2>1, RightChoice
    <3>2. \A i \in DOMAIN keys : Spelled(keys[i])' <=> Spelled(keys[i])  BY <2>1 DEF Spelled
    <3>3. LengthsTogether' <=> LengthsTogether  BY <2>1 DEF LengthsTogether
    <3> QED  BY <2>1, <3>1, <3>2, <3>3 DEF SoundTableFindsTheKey, FindsTheKey, SoundTable
  <2>5. OtherKeysAreSkipped'
    <3>1. SUFFICES ASSUME ProcessIndex # Skipped
                   PROVE  \E i \in DOMAIN keys : /\ i - 1 = ProcessIndex
                                               /\ SubSeq(text, 1, Len(keys[i]) + 1) = keys[i] \o <<Quote>>
      BY <2>1 DEF OtherKeysAreSkipped
    <3>2. PICK i \in DOMAIN keys : i - 1 = ProcessIndex /\ Spelled(keys[i])
      BY <1>2, <2>1, <3>1, ChoiceStandsThere
    <3>3. Append(keys[i], Quote) = keys[i] \o <<Quote>>
      <4>1. PICK S : S = Seq(KeyBytes)  OBVIOUS
      <4>2. keys \in Seq(S)  BY <1>2, <4>1, KeysAssumption DEF Typed
      <4>3. keys[i] \in S  BY <4>2
      <4>4. keys[i] \in Seq(KeyBytes \cup {Quote})  BY <4>1, <4>3
      <4> QED  BY <4>4, AppendIsConcat
    <3> QED  BY <3>2, <3>3 DEF Spelled
  <2> QED  BY <2>3, <2>4, <2>5 DEF KeyMapInv
<1>7. CASE UNCHANGED vars
  <2>1. UNCHANGED <<keys, table, text, expected, member>>  BY <1>7 DEF vars
  <2>2. TupleReferences' = TupleReferences  BY <2>1 DEF TupleReferences
  <2>3. Typed'  BY <1>2, <2>1, <2>2 DEF Typed, Decided
  <2>4. SoundTableFindsTheKey'
    BY <1>2, <2>1 DEF SoundTableFindsTheKey, FindsTheKey, Decided, Spelled, LengthsTogether
  <2>5. OtherKeysAreSkipped'  BY <1>2, <2>1 DEF OtherKeysAreSkipped, Decided
  <2> QED  BY <2>3, <2>4, <2>5 DEF KeyMapInv
<1> QED  BY <1>1, <1>4, <1>5, <1>6, <1>7 DEF Next

\* SoundTableFindsTheKey holds for all keys and documents: a key of the type is
\* found in its table wherever the parser meets it.
THEOREM SoundTableFindsTheKeyAlways == Spec => []SoundTableFindsTheKey
<1>1. KeyMapInv => SoundTableFindsTheKey  BY DEF KeyMapInv
<1> QED  BY <1>1, KeyMapInit, KeyMapStep, PTL DEF Spec

\* OtherKeysAreSkipped holds for all keys and documents, with every table: a
\* member is only chosen for its own key.
THEOREM OtherKeysAreSkippedAlways == Spec => []OtherKeysAreSkipped
<1>1. KeyMapInv => OtherKeysAreSkipped  BY DEF KeyMapInv
<1> QED  BY <1>1, KeyMapInit, KeyMapStep, PTL DEF Spec
==================================================================================
