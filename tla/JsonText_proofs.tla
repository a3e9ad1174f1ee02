---------------------------- MODULE JsonText_proofs ------------------------------
(***************************************************************************)
(* What holds for every text and all register widths.                      *)
(*                                                                         *)
(* string_parser keeps within its buffer and goes on (BufferFits,          *)
(* EveryTurnAdvances): what has been consumed lies in the document, and no *)
(* escape gives more bytes than it takes.                                  *)
(*                                                                         *)
(* For all bytes and all sizes of a step validateUtf8 accepts exactly      *)
(* well-formed UTF-8 (ExactlyUtf8): the tables by halves of bytes say what *)
(* Table 3-7 says, what it asks for next follows from the last three       *)
(* bytes, and an 'A' behind the end closes nothing.                        *)
(*                                                                         *)
(* A text that string_parser accepts has a closing quote and no escapes    *)
(* but those of RFC 8259, is decoded to what its characters mean, and has  *)
(* no control characters but those near before a quote or a backslash      *)
(* (Decodes), unless it cannot be read on because of a stray escape; what  *)
(* is refused is no string (RefusesOnlyBad), and only UTF-8 is accepted    *)
(* where that was asked for (ValidatesUtf8): what the text means is what   *)
(* was written so far and what the rest means, the validator is where a    *)
(* reader of Table 3-7 would be, and what was consumed has no control      *)
(* characters but those of Decodes (Sound).  That the text has a stray     *)
(* escape is said of the text alone, so either holds for good (ParseInv).  *)
(*                                                                         *)
(* string_parser reads back what string_serializer writes                  *)
(* (StringsReadBack): byte by byte, what is written for a value (Encodes)  *)
(* means the value.                                                        *)
(***************************************************************************)
EXTENDS JsonText, FiniteSetTheorems, SequenceTheorems, WellFoundedInduction, TLAPS

\* A set of natural numbers has a least one.
LEMMA LeastNat == ASSUME NEW T, T \subseteq Nat, T # {} PROVE \E x \in T : \A y \in T : x <= y
<1> DEFINE Under(n) == 0..(n - 1)
           Bs == {Under(n) : n \in T}
<1>1. Bs \subseteq FiniteSubsetsOf(Nat)
  <2>1. SUFFICES ASSUME NEW n \in T PROVE Under(n) \in SUBSET Nat /\ IsFiniteSet(Under(n))
    BY DEF FiniteSubsetsOf
  <2>2. n \in Nat  OBVIOUS
  <2> QED  BY <2>2, FS_Interval
<1>2. PICK b \in Bs : \A c \in Bs : ~ (<<c, b>> \in StrictSubsetOrdering(Nat))
  <2>1. Bs # {}  OBVIOUS
  <2> HIDE DEF Bs
  <2> QED  BY <1>1, <2>1, FS_StrictSubsetOrderingWellFounded, WFMin
<1>3. PICK x \in T : b = Under(x)  OBVIOUS
<1>4. ASSUME NEW y \in T, y < x PROVE FALSE
  <2>1. Under(y) \in Bs  OBVIOUS
  <2>2. x \in Nat /\ y \in Nat /\ y \in Under(x) /\ y \notin Under(y)  BY <1>4
  <2>3. Under(y) \subseteq Under(x) /\ Under(y) # Under(x) /\ Under(x) \subseteq Nat  BY <2>2
  <2>4. <<Under(y), b>> \in StrictSubsetOrdering(Nat)  BY <2>3, <1>3 DEF StrictSubsetOrdering
  <2> QED  BY <2>1, <2>4, <1>2
<1> QED  BY <1>4

\* It is its minimum.
LEMMA MinOf == ASSUME NEW T, T \subseteq Nat, T # {} PROVE Min(T) \in T /\ \A y \in T : Min(T) <= y
<1>1. \E x \in T : \A y \in T : x <= y  BY LeastNat
<1> QED  BY <1>1 DEF Min

---------------------------------------------------------------------------------
\* A document has a zero behind it.
LEMMA AtIs ==
  ASSUME text \in Seq(Nat), NEW k \in Nat
  PROVE  SourceEnd \in Nat /\ At(k) \in Nat /\ (At(k) # 0 => k < SourceEnd)
<1>1. PICK z \in Nat : z = Len(text)  BY LenProperties
<1>2. CASE k < z
  <2>1. k + 1 \in 1..z  BY <1>2
  <2>2. text[k + 1] \in Nat  BY <1>1, <2>1
  <2> QED  BY <1>1, <1>2, <2>2 DEF At, SourceEnd
<1>3. CASE ~(k < z)  BY <1>1, <1>3 DEF At, SourceEnd
<1> QED  BY <1>2, <1>3

\* What a register holds.
LEMMA LoadIs ==
  ASSUME text \in Seq(Nat), src \in Nat, NEW n \in Nat
  PROVE  Load(n) \in Seq(Int) /\ Len(Load(n)) = n
<1>1. ASSUME NEW i \in 1..n PROVE At(src + i - 1) \in Int
  <2>1. PICK k \in Nat : k = src + i - 1
    <3>1. src + i - 1 \in Nat  OBVIOUS
    <3> QED  BY <3>1
  <2> QED  BY <2>1, AtIs
<1>2. PICK f : f = Load(n)  OBVIOUS
<1>3. f = [i \in 1..n |-> At(src + i - 1)]  BY <1>2 DEF Load
<1>4. f \in [1..n -> Int]  BY <1>1, <1>3
<1>5. f \in Seq(Int) /\ Len(f) = n  BY <1>4
<1> QED  BY <1>2, <1>5

\* At most four bytes.
Few(bytes) == bytes \in Seq(Int) /\ Len(bytes) <= 4

\* Sequences of up to four bytes are few.
LEMMA FewBytes ==
  ASSUME NEW a \in Int, NEW b \in Int, NEW c \in Int, NEW d \in Int
  PROVE  Few(<<a, b, c, d>>)
<1>1. <<a, b, c, d>> \in Seq(Int) /\ Len(<<a, b, c, d>>) <= 4  OBVIOUS
<1> QED  BY <1>1 DEF Few

\* Three are, too.
LEMMA FewThree == ASSUME NEW a \in Int, NEW b \in Int, NEW c \in Int PROVE Few(<<a, b, c>>)
<1>1. <<a, b, c>> \in Seq(Int) /\ Len(<<a, b, c>>) <= 4  OBVIOUS
<1> QED  BY <1>1 DEF Few

\* And two.
LEMMA FewTwo == ASSUME NEW a \in Int, NEW b \in Int PROVE Few(<<a, b>>)
<1>1. <<a, b>> \in Seq(Int) /\ Len(<<a, b>>) <= 4  OBVIOUS
<1> QED  BY <1>1 DEF Few

\* And one or none.
LEMMA FewOne == ASSUME NEW a \in Int PROVE Few(<<a>>) /\ Few(<<>>)
<1>1. <<a>> \in Seq(Int) /\ Len(<<a>>) <= 4  OBVIOUS
<1>2. <<>> \in Seq(Int) /\ Len(<<>>) <= 4  OBVIOUS
<1> QED  BY <1>1, <1>2 DEF Few

\* One byte.
LEMMA OneByte == ASSUME NEW a \in Int PROVE <<a>> \in Seq(Int) /\ Len(<<a>>) = 1
OBVIOUS

\* No code point is more.
LEMMA CodePointIs == ASSUME NEW cp PROVE Few(codePointToUtf8(cp))
<1>10. CASE cp \notin CodePoints
  <2>1. codePointToUtf8(cp) = <<>>  BY <1>10 DEF codePointToUtf8
  <2>2. 0 \in Int  OBVIOUS
  <2>3. Few(<<>>)  BY <2>2, FewOne
  <2> QED  BY <2>1, <2>3
<1>11. CASE cp \in CodePoints
  <2>12. cp \in Int  BY <1>11, SMT DEF CodePoints
  <2>1. PICK a \in Int, b \in Int, c \in Int :
          a = Lead(192, cp, 64) /\ b = Lead(224, cp, 4096) /\ c = Lead(240, cp, 262144)
    <3>1. Lead(192, cp, 64) \in Int  BY <2>12 DEF Lead
    <3>2. Lead(224, cp, 4096) \in Int  BY <2>12 DEF Lead
    <3>3. Lead(240, cp, 262144) \in Int  BY <2>12 DEF Lead
    <3> QED  BY <3>1, <3>2, <3>3
  <2>2. PICK d \in Int, e \in Int, f \in Int :
          d = Continuation(cp, 1) /\ e = Continuation(cp, 64) /\ f = Continuation(cp, 4096)
    <3>1. Continuation(cp, 1) \in Int  BY <2>12 DEF Continuation
    <3>2. Continuation(cp, 64) \in Int  BY <2>12 DEF Continuation
    <3>3. Continuation(cp, 4096) \in Int  BY <2>12 DEF Continuation
    <3> QED  BY <3>1, <3>2, <3>3
  <2>3. codePointToUtf8(cp) = IF cp <= 127 THEN <<cp>>
                              ELSE IF cp <= 2047 THEN <<a, d>>
                              ELSE IF cp <= 65535 THEN <<b, e, d>> ELSE <<c, f, e, d>>
    BY <1>11, <2>1, <2>2 DEF codePointToUtf8
  <2>4. Few(<<>>) /\ Few(<<cp>>) /\ Few(<<a, d>>) /\ Few(<<b, e, d>>) /\ Few(<<c, f, e, d>>)
    <3>1. Few(<<>>) /\ Few(<<cp>>)  BY <2>12, FewOne
    <3>2. Few(<<a, d>>)  BY FewTwo
    <3>3. Few(<<b, e, d>>)  BY FewThree
    <3>4. Few(<<c, f, e, d>>)  BY FewBytes
    <3> QED  BY <3>1, <3>2, <3>3, <3>4
  <2>6. CASE cp <= 127
    <3>1. codePointToUtf8(cp) = <<cp>>  BY <2>3, <2>6, SMT
    <3> QED  BY <2>4, <3>1
  <2>7. CASE 127 < cp /\ cp <= 2047
    <3>1. ~(cp <= 127) /\ cp <= 2047  BY <2>12, <2>7, SMT
    <3>2. codePointToUtf8(cp) = <<a, d>>  BY <2>3, <3>1, SMT
    <3> QED  BY <2>4, <3>2
  <2>8. CASE 2047 < cp /\ cp <= 65535
    <3>1. ~(cp <= 127) /\ ~(cp <= 2047) /\ cp <= 65535  BY <2>12, <2>8, SMT
    <3>2. codePointToUtf8(cp) = <<b, e, d>>  BY <2>3, <3>1, SMT
    <3> QED  BY <2>4, <3>2
  <2>9. CASE 65535 < cp
    <3>1. ~(cp <= 127) /\ ~(cp <= 2047) /\ ~(cp <= 65535)  BY <2>12, <2>9, SMT
    <3>2. codePointToUtf8(cp) = <<c, f, e, d>>  BY <2>3, <3>1, SMT
    <3> QED  BY <2>4, <3>2
  <2> QED  BY <2>12, <2>6, <2>7, <2>8, <2>9
<1> QED  BY <1>10, <1>11

\* An escape at i stands for no more bytes than it takes, and takes those of
\* the document alone.
Takes(i, e) ==
  e # Refused => /\ e.length \in Nat /\ e.length > 0 /\ i + e.length <= SourceEnd
                 /\ e.bytes \in Seq(Int) /\ Len(e.bytes) <= e.length

\* One that has n bytes.
LEMMA EscapeIs ==
  ASSUME NEW i \in Nat, NEW n \in Nat, NEW bytes \in Seq(Int), Len(bytes) <= n, n > 0, i + n <= SourceEnd
  PROVE  Takes(i, Escape(n, bytes))
<1>1. PICK e : e = [length |-> n, bytes |-> bytes]  OBVIOUS
<1>2. e.length = n /\ e.bytes = bytes  BY <1>1
<1>3. Escape(n, bytes) \in {Refused, e}  BY <1>1 DEF Escape
<1> QED  BY <1>2, <1>3 DEF Takes

\* \\u with one code unit or two.
LEMMA CodePointTakes ==
  ASSUME text \in Seq(Nat), NEW i \in Nat PROVE Takes(i, handleUnicodeCodePoint(i))
<1>1. PICK z \in Nat : z = SourceEnd  BY AtIs
<1>2. i + 2 \in Nat /\ i + 8 \in Nat  OBVIOUS
<1>3. PICK cp, low : cp = hexToU32NoCheck(i + 2) /\ low = hexToU32NoCheck(i + 8)  OBVIOUS
<1>4. PICK pair : pair = 65536 + (cp - 55296) * 1024 + (low - 56320)  OBVIOUS
<1>5. \/ handleUnicodeCodePoint(i) = Refused
      \/ i + 12 <= z /\ handleUnicodeCodePoint(i) = Escape(12, codePointToUtf8(pair))
      \/ i + 6 <= z /\ handleUnicodeCodePoint(i) = Escape(6, codePointToUtf8(cp))
  <2>1. PICK long, short : long = Escape(12, codePointToUtf8(pair)) /\ short = Escape(6, codePointToUtf8(cp))
    OBVIOUS
  <2>2. handleUnicodeCodePoint(i) = IF i + 6 > z \/ cp \in LowSurrogates THEN Refused
                                    ELSE IF cp \notin HighSurrogates THEN short
                                    ELSE IF LowFollows(i, low) THEN long ELSE Refused
    BY <1>1, <1>3, <1>4, <2>1 DEF handleUnicodeCodePoint
  <2>3. LowFollows(i, low) => i + 12 <= z  BY <1>1 DEF LowFollows
  <2>4. ~(i + 6 > z) => i + 6 <= z  OBVIOUS
  <2> QED  BY <2>1, <2>2, <2>3, <2>4
<1>6. CASE handleUnicodeCodePoint(i) = Refused  BY <1>6 DEF Takes
<1>7. CASE i + 12 <= z /\ handleUnicodeCodePoint(i) = Escape(12, codePointToUtf8(pair))
  <2>1. PICK bytes \in Seq(Int) : bytes = codePointToUtf8(pair) /\ Len(bytes) <= 4  BY CodePointIs DEF Few
  <2>2. PICK n \in Nat : n = 12 /\ Len(bytes) <= n /\ n > 0 /\ i + n <= z
    <3>1. Len(bytes) \in Nat  BY LenProperties
    <3> QED  BY <1>7, <2>1, <3>1
  <2> QED  BY <1>1, <1>7, <2>1, <2>2, EscapeIs
<1>8. CASE i + 6 <= z /\ handleUnicodeCodePoint(i) = Escape(6, codePointToUtf8(cp))
  <2>1. PICK bytes \in Seq(Int) : bytes = codePointToUtf8(cp) /\ Len(bytes) <= 4  BY CodePointIs DEF Few
  <2>2. PICK n \in Nat : n = 6 /\ Len(bytes) <= n /\ n > 0 /\ i + n <= z
    <3>1. Len(bytes) \in Nat  BY LenProperties
    <3> QED  BY <1>8, <2>1, <3>1
  <2> QED  BY <1>1, <1>8, <2>1, <2>2, EscapeIs
<1> QED  BY <1>5, <1>6, <1>7, <1>8

\* Any escape.
LEMMA EscapeAtTakes ==
  ASSUME text \in Seq(Nat), NEW i \in Nat PROVE Takes(i, EscapeAt(i))
<1>1. PICK z \in Nat : z = SourceEnd  BY AtIs
<1>2. PICK b : b = At(i + 1)  OBVIOUS
<1>3. CASE b = u
  <2>1. EscapeAt(i) = handleUnicodeCodePoint(i)  BY <1>2, <1>3 DEF EscapeAt
  <2> QED  BY <2>1, CodePointTakes
<1>4. CASE b # u /\ b \in DOMAIN escapeMap
  <2>1. EscapeAt(i) = Escape(2, <<escapeMap[b]>>)  BY <1>2, <1>4 DEF EscapeAt
  <2>2. b \in {34, 92, 47, 98, 102, 110, 114, 116}  BY <1>4 DEF escapeMap
  <2>3. escapeMap[b] \in Int  BY <2>2 DEF escapeMap
  <2>4. PICK n \in Nat : n = 2  OBVIOUS
  <2>5. PICK x \in Int : x = escapeMap[b]  BY <2>3
  <2>6. <<x>> \in Seq(Int) /\ Len(<<x>>) = 1  BY OneByte
  <2>7. Len(<<x>>) <= n  BY <2>4, <2>6
  <2>8. PICK bytes \in Seq(Int) : bytes = <<x>> /\ Len(bytes) <= n  BY ONLY <2>6, <2>7
  <2>9. b # 0 /\ i + 1 \in Nat  BY <2>2
  <2>10. i + 1 < z  BY <1>1, <1>2, <2>9, AtIs
  <2>11. i + n <= z /\ n > 0  BY <2>10, <2>4
  <2>12. EscapeAt(i) = Escape(n, bytes)  BY <2>1, <2>8, <2>4, <2>5
  <2> QED  BY <1>1, <2>8, <2>11, <2>12, EscapeIs
<1>5. CASE b # u /\ b \notin DOMAIN escapeMap
  <2>1. EscapeAt(i) = Refused  BY <1>2, <1>5 DEF EscapeAt
  <2> QED  BY <2>1 DEF Takes
<1> QED  BY <1>3, <1>4, <1>5

---------------------------------------------------------------------------------
\* What has been consumed is in the document; a register is stored whole, yet
\* only where more than one is left.
InDocument ==
  /\ text \in Seq(Nat) /\ step \in Nat /\ step > 0
  /\ src \in Nat /\ src <= SourceEnd
  /\ out \in Seq(Int) /\ Len(out) <= src
  /\ stored \in Nat /\ stored <= SourceEnd + 1

Advances == src' > src \/ step' > step \/ answer' # "none"

\* A register that fits in what is left can be stored.
LEMMA StoresFits ==
  ASSUME InDocument, NEW n \in Nat, src + n <= SourceEnd + 1, Stores(n)
  PROVE  stored' \in Nat /\ stored' <= SourceEnd + 1
<1>1. PICK z \in Nat, l \in Nat : z = SourceEnd /\ l = Len(out)  BY AtIs, LenProperties DEF InDocument
<1>2. stored' = IF l + n > stored THEN l + n ELSE stored  BY <1>1 DEF Stores
<1>3. l + n <= z + 1 /\ stored <= z + 1 /\ stored \in Nat  BY <1>1 DEF InDocument
<1> QED  BY <1>1, <1>2, <1>3

\* A register before the end of the document, and the bytes that are plain.
LEMMA PlainIs ==
  ASSUME InDocument, InRegisters
  PROVE  /\ Width \in Nat /\ Width > 0 /\ src + Width < SourceEnd
         /\ Plain = -1 \/ (Plain \in Nat /\ Plain < Width)
<1>1. PICK z \in Nat : z = SourceEnd  BY AtIs DEF InDocument
<1>2. PICK w \in Nat : w = Width /\ w >= 3
  <2>1. step \in Nat /\ step > 0 /\ step <= Len(Widths)  BY DEF InDocument, InRegisters
  <2>2. step \in DOMAIN Widths  BY <2>1, WidthsAssumption, LenProperties
  <2>3. Widths[step] \in Nat /\ Widths[step] >= 3  BY <2>2, WidthsAssumption
  <2> QED  BY <2>3 DEF Width
<1>3. src + w < z  BY <1>1, <1>2 DEF InRegisters, InDocument
<1>4. PICK I : I = {k \in 1..Len(Load(Width)) : Load(Width)[k] \in {Quote, Backslash}}  OBVIOUS
<1>5. Plain = (IF I # {} THEN Min(I) ELSE 0) - 1  BY <1>4 DEF Plain, SelectInSeq
<1>6. I \subseteq 1..w  BY <1>2, <1>4, LoadIs DEF InDocument
<1>7. CASE I = {}  BY <1>5, <1>7, <1>1, <1>2, <1>3
<1>8. CASE I # {}
  <2>1. I \subseteq Nat  BY <1>6
  <2>2. PICK m \in 1..w : m = Min(I)  BY <1>6, <1>8, <2>1, MinOf
  <2>3. Plain = m - 1  BY <1>5, <1>8, <2>2
  <2> QED  BY <1>1, <1>2, <1>3, <2>2, <2>3
<1> QED  BY <1>7, <1>8

\* Where the source and the buffer may be.
Within(source, buffer) ==
  source \in Nat /\ source <= SourceEnd /\ buffer \in Seq(Int) /\ Len(buffer) <= source

\* What is appended can be joined first.
LEMMA Joined ==
  ASSUME NEW a \in Seq(Int), NEW b \in Seq(Int), NEW c \in Seq(Int)
  PROVE  (a \o b) \o c = a \o (b \o c)
BY ConcatAssociative

\* Bytes that are consumed and what is written for them.
LEMMA Consumed ==
  ASSUME InDocument, NEW taken \in Nat, src + taken <= SourceEnd,
         NEW bytes \in Seq(Int), Len(bytes) <= taken
  PROVE  Within(src + taken, out \o bytes)
<1>1. out \in Seq(Int) /\ src \in Nat /\ Len(out) <= src  BY DEF InDocument
<1>2. PICK l \in Nat, m \in Nat : l = Len(out) /\ m = Len(bytes)  BY <1>1, LenProperties
<1>3. PICK new \in Seq(Int) : new = out \o bytes /\ Len(new) = l + m  BY <1>1, <1>2, ConcatProperties
<1>4. PICK t \in Nat : t = src + taken /\ t <= SourceEnd  BY <1>1
<1>5. l + m <= t  BY <1>1, <1>2, <1>4
<1> QED  BY <1>3, <1>4, <1>5 DEF Within

\* No turn of a loop of registers leaves the document or stays where it is.
LEMMA RegistersStep ==
  ASSUME InDocument, CloseQuote \/ TakeEscape \/ TakeRegister
  PROVE  InDocument' /\ Advances
<1>1. InRegisters /\ Stores(Width) /\ UNCHANGED <<text, step>>  BY DEF CloseQuote, TakeEscape, TakeRegister
<1>2. PICK w \in Nat, z \in Nat : w = Width /\ w > 0 /\ z = SourceEnd /\ src + w < z
  BY <1>1, PlainIs, AtIs DEF InDocument
<1>3. src \in Nat /\ text \in Seq(Nat)  BY DEF InDocument
<1>4. stored' \in Nat /\ stored' <= SourceEnd + 1  BY <1>1, <1>2, <1>3, StoresFits
<1>5. ASSUME Within(src', out') PROVE InDocument'
  BY <1>1, <1>4, <1>5 DEF InDocument, SourceEnd, Within
<1>6. ASSUME UNCHANGED <<src, out>> PROVE InDocument'
  <2>1. Within(src', out')  BY <1>6 DEF InDocument, Within
  <2> QED  BY <1>5, <2>1
<1>7. CASE CloseQuote
  <2>1. PICK k \in Nat : k = Plain /\ k < w  BY <1>1, <1>2, <1>7, PlainIs DEF CloseQuote, Found
  <2>2. PICK bytes \in Seq(Int) : bytes = PlainBytes /\ Len(bytes) = k  BY <1>3, <2>1, LoadIs DEF PlainBytes
  <2>3. src' = src + k /\ out' = out \o bytes /\ answer' # "none"
    BY <1>7, <2>1, <2>2 DEF CloseQuote, Answers
  <2>4. src + k <= SourceEnd  BY <1>2, <1>3, <2>1
  <2>5. Within(src', out')  BY <2>1, <2>2, <2>3, <2>4, Consumed
  <2> QED  BY <1>5, <2>3, <2>5 DEF Advances
<1>8. CASE TakeEscape
  <2>1. PICK k \in Nat : k = Plain /\ k < w  BY <1>1, <1>2, <1>8, PlainIs DEF TakeEscape, Found
  <2>2. PICK bytes \in Seq(Int) : bytes = PlainBytes /\ Len(bytes) = k  BY <1>3, <2>1, LoadIs DEF PlainBytes
  <2>3. PICK i \in Nat : i = src + k  BY <1>3
  <2>4. PICK e : e = EscapeAt(i) /\ Takes(i, e)  BY <1>3, EscapeAtTakes
  <2>5. CASE e = Refused
    <3>1. UNCHANGED <<src, out>> /\ answer' = "refused"  BY <1>8, <2>1, <2>3, <2>4, <2>5 DEF TakeEscape, Answers
    <3> QED  BY <1>6, <3>1 DEF Advances
  <2>6. CASE e # Refused
    <3>1. src' = src + k + e.length /\ out' = out \o bytes \o e.bytes
      BY <1>8, <2>1, <2>2, <2>3, <2>4, <2>6 DEF TakeEscape
    <3>2. PICK n \in Nat, more \in Seq(Int) :
            n = e.length /\ n > 0 /\ i + n <= z /\ more = e.bytes /\ Len(more) <= n
      BY <1>2, <2>4, <2>6 DEF Takes
    <3>3. PICK taken \in Nat : taken = k + n /\ taken > 0  BY <3>2
    <3>4. PICK all \in Seq(Int) : all = bytes \o more /\ Len(all) <= taken
      <4>1. Len(more) \in Nat  BY LenProperties
      <4>2. Len(bytes) + Len(more) <= taken  BY <2>2, <3>2, <3>3, <4>1
      <4> QED  BY <4>2, ConcatProperties
    <3>5. src' = src + taken /\ src + taken <= SourceEnd
      <4>1. src' = src + k + n  BY <3>1, <3>2
      <4>2. src + k + n <= z  BY <2>3, <3>2
      <4> QED  BY <1>2, <1>3, <3>3, <4>1, <4>2
    <3>6. out' = out \o all
      <4>1. PICK o \in Seq(Int) : o = out  BY DEF InDocument
      <4>2. (o \o bytes) \o more = o \o (bytes \o more)  BY Joined
      <4> QED  BY <3>1, <3>2, <3>4, <4>1, <4>2
    <3>7. Within(src', out')  BY <3>4, <3>5, <3>6, Consumed
    <3>8. src' > src  BY <1>3, <3>3, <3>5
    <3> QED  BY <1>5, <3>7, <3>8 DEF Advances
  <2> QED  BY <2>5, <2>6
<1>9. CASE TakeRegister
  <2>1. CASE \E i \in 1..Width : Load(Width)[i] < 32
    <3>1. UNCHANGED <<src, out>> /\ answer' = "refused"  BY <1>9, <2>1 DEF TakeRegister, Answers
    <3> QED  BY <1>6, <3>1 DEF Advances
  <2>2. CASE ~ \E i \in 1..Width : Load(Width)[i] < 32
    <3>1. PICK bytes \in Seq(Int) : bytes = Load(Width) /\ Len(bytes) = w  BY <1>2, <1>3, LoadIs
    <3>2. src' = src + w /\ out' = out \o bytes  BY <1>2, <1>9, <2>2, <3>1 DEF TakeRegister
    <3>3. src + w <= SourceEnd  BY <1>2, <1>3
    <3>4. Within(src', out')  BY <3>1, <3>2, <3>3, Consumed
    <3>5. src' > src  BY <1>2, <1>3, <3>2
    <3> QED  BY <1>5, <3>4, <3>5 DEF Advances
  <2> QED  BY <2>1, <2>2
<1> QED  BY <1>7, <1>8, <1>9

\* Nor does one of the loop over single bytes.
LEMMA TailStep ==
  ASSUME InDocument, CloseQuoteInTail \/ TakeEscapeInTail \/ TakeByteInTail
  PROVE  InDocument' /\ Advances
<1>1. InTail /\ Stores(1) /\ UNCHANGED <<text, step>>
  BY DEF CloseQuoteInTail, TakeEscapeInTail, TakeByteInTail
<1>2. PICK z \in Nat : z = SourceEnd  BY AtIs DEF InDocument
<1>3. src \in Nat /\ text \in Seq(Nat) /\ src <= z  BY <1>2 DEF InDocument
<1>4. stored' \in Nat /\ stored' <= SourceEnd + 1  BY <1>1, <1>2, <1>3, StoresFits
<1>5. ASSUME Within(src', out') PROVE InDocument'
  BY <1>1, <1>4, <1>5 DEF InDocument, SourceEnd, Within
<1>6. ASSUME UNCHANGED <<src, out>> PROVE InDocument'
  <2>1. Within(src', out')  BY <1>6 DEF InDocument, Within
  <2> QED  BY <1>5, <2>1
<1>7. CASE CloseQuoteInTail
  <2>1. UNCHANGED <<src, out>> /\ answer' # "none"  BY <1>7 DEF CloseQuoteInTail, Answers
  <2> QED  BY <1>6, <2>1 DEF Advances
<1>8. CASE TakeEscapeInTail
  <2>1. PICK e : e = EscapeAt(src) /\ Takes(src, e)  BY <1>3, EscapeAtTakes
  <2>2. CASE e = Refused
    <3>1. UNCHANGED <<src, out>> /\ answer' = "refused"  BY <1>8, <2>1, <2>2 DEF TakeEscapeInTail, Answers
    <3> QED  BY <1>6, <3>1 DEF Advances
  <2>3. CASE e # Refused
    <3>1. src' = src + e.length /\ out' = out \o e.bytes  BY <1>8, <2>1, <2>3 DEF TakeEscapeInTail
    <3>2. PICK n \in Nat, more \in Seq(Int) :
            n = e.length /\ n > 0 /\ src + n <= SourceEnd /\ more = e.bytes /\ Len(more) <= n
      BY <2>1, <2>3 DEF Takes
    <3>3. Within(src', out')  BY <3>1, <3>2, Consumed
    <3>4. src' > src  BY <1>3, <3>1, <3>2
    <3> QED  BY <1>5, <3>3, <3>4 DEF Advances
  <2> QED  BY <2>2, <2>3
<1>9. CASE TakeByteInTail
  <2>1. CASE At(src) < 32
    <3>1. UNCHANGED <<src, out>> /\ answer' = "refused"  BY <1>9, <2>1 DEF TakeByteInTail, Answers
    <3> QED  BY <1>6, <3>1 DEF Advances
  <2>2. CASE ~(At(src) < 32)
    <3>1. PICK b \in Nat : b = At(src) /\ src < z  BY <1>2, <1>3, <2>2, AtIs
    <3>2. src' = src + 1 /\ out' = Append(out, b)  BY <1>9, <2>2, <3>1 DEF TakeByteInTail
    <3>3. b \in Int /\ <<b>> \in Seq(Int) /\ Len(<<b>>) = 1  BY OneByte
    <3>4. PICK bytes \in Seq(Int) : bytes = <<b>> /\ Len(bytes) = 1  BY <3>3
    <3>5. out' = out \o bytes
      <4>1. out \in Seq(Int) /\ b \in Int  BY DEF InDocument
      <4>2. Append(out, b) = out \o <<b>>  BY <4>1, AppendIsConcat
      <4> QED  BY <3>2, <3>4, <4>2
    <3>6. PICK taken \in Nat : taken = 1  OBVIOUS
    <3>7. src' = src + taken /\ src + taken <= SourceEnd /\ Len(bytes) <= taken
      BY <1>2, <1>3, <3>1, <3>2, <3>4, <3>6
    <3>8. Within(src', out')  BY <3>5, <3>7, Consumed
    <3>9. src' > src  BY <1>3, <3>2
    <3> QED  BY <1>5, <3>8, <3>9 DEF Advances
  <2> QED  BY <2>1, <2>2
<1> QED  BY <1>7, <1>8, <1>9

\* A string whose parse begins.
LEMMA InDocumentInit == Init => InDocument
<1>1. SUFFICES ASSUME Init PROVE InDocument  OBVIOUS
<1>2. text \in Seq(Nat)
  <2>1. PICK B : B = 0..255  OBVIOUS
  <2>2. text \in Seq(B)  BY <1>1, <2>1, TextsAssumption DEF Init
  <2>3. B \subseteq Nat  BY <2>1
  <2> QED  BY <2>2, <2>3, SeqMonotonic
<1>3. step = 1 /\ src = 0 /\ stored = 0 /\ out = <<>>  BY <1>1 DEF Init
<1>4. SourceEnd \in Nat  BY <1>2, LenProperties DEF SourceEnd
<1>5. out \in Seq(Int) /\ Len(out) = 0  BY <1>3, EmptySeq
<1> QED  BY <1>2, <1>3, <1>4, <1>5 DEF InDocument

\* Every action keeps it and gets on.
LEMMA InDocumentStep == InDocument /\ Next => InDocument' /\ Advances
<1>1. SUFFICES ASSUME InDocument, Next PROVE InDocument' /\ Advances  OBVIOUS
<1>2. CASE NextWidth
  <2>1. step' = step + 1 /\ UNCHANGED <<text, src, out, stored>>  BY <1>2 DEF NextWidth
  <2>2. step \in Nat  BY <1>1 DEF InDocument
  <2>3. step' > step /\ step' \in Nat /\ step' > 0  BY <2>1, <2>2
  <2>4. InDocument'  BY <1>1, <2>1, <2>3 DEF InDocument, SourceEnd
  <2> QED  BY <2>3, <2>4 DEF Advances
<1>3. CASE CloseQuote \/ TakeEscape \/ TakeRegister  BY <1>1, <1>3, RegistersStep
<1>4. CASE CloseQuoteInTail \/ TakeEscapeInTail \/ TakeByteInTail  BY <1>1, <1>4, TailStep
<1> QED  BY <1>1, <1>2, <1>3, <1>4 DEF Next

---------------------------------------------------------------------------------
(* The tables, and Table 3-7. *)

Byte == 0..255
Nibble == 0..15

\* The two halves of a byte.
LEMMA Halves ==
  ASSUME NEW b \in Byte
  PROVE  b \div 16 \in Nibble /\ b % 16 \in Nibble /\ b = 16 * (b \div 16) + (b % 16)
  BY DEF Byte, Nibble

\* The errors a byte may be part of by its first half, by its second, and by the
\* first half of the byte that follows.
HighErrors(t, h) ==
  /\ "tooLong"   \in t <=> h < 8
  /\ "twoConts"  \in t <=> h \in 8..11
  /\ "tooShort"  \in t <=> h >= 12
  /\ "overLong2" \in t <=> h = 12
  /\ "overLong3" \in t <=> h = 14
  /\ "surrogate" \in t <=> h = 14
  /\ "tooLarge"  \in t <=> h = 15
  /\ "overLong4" \in t <=> h = 15
  /\ t \subseteq {"tooLong", "twoConts", "tooShort", "overLong2", "overLong3", "surrogate",
                  "tooLarge", "overLong4"}
LowErrors(t, h) ==
  /\ "tooLong" \in t /\ "twoConts" \in t /\ "tooShort" \in t
  /\ "overLong2" \in t <=> h < 2
  /\ "overLong3" \in t <=> h = 0
  /\ "surrogate" \in t <=> h = 13
  /\ "tooLarge"  \in t <=> h >= 4
  /\ "overLong4" \in t <=> h = 0 \/ h >= 5
NextErrors(t, h) ==
  /\ "tooLong"   \in t <=> h \in 8..11
  /\ "twoConts"  \in t <=> h \in 8..11
  /\ "tooShort"  \in t <=> h \notin 8..11
  /\ "overLong2" \in t <=> h \in 8..11
  /\ "overLong3" \in t <=> h \in 8..9
  /\ "surrogate" \in t <=> h \in 10..11
  /\ "tooLarge"  \in t <=> h \in 9..11
  /\ "overLong4" \in t <=> h = 8

\* The tables have them.
LEMMA TablesAre ==
  ASSUME NEW h \in Nibble
  PROVE  /\ HighErrors(byte1HighTable[h + 1], h)
         /\ LowErrors(byte1LowTable[h + 1], h)
         /\ NextErrors(byte2HighTable[h + 1], h)
<1>1. h + 1 \in 1..16  BY DEF Nibble
<1>2. HighErrors(byte1HighTable[h + 1], h)  BY <1>1 DEF byte1HighTable, Nibble, HighErrors
<1>3. LowErrors(byte1LowTable[h + 1], h)  BY <1>1 DEF byte1LowTable, Nibble, carry, LowErrors
<1>4. NextErrors(byte2HighTable[h + 1], h)  BY <1>1 DEF byte2HighTable, Nibble, NextErrors
<1> QED  BY <1>2, <1>3, <1>4

\* The bytes that may come second, after the first of more.
Second(p1) ==
  CASE p1 \in 192..193 -> {}
    [] p1 = 224 -> 160..191
    [] p1 = 237 -> 128..159
    [] p1 = 240 -> 144..191
    [] p1 = 244 -> 128..143
    [] p1 \in 245..255 -> {}
    [] OTHER -> Cont

\* What the tables make of a byte and the one before.
Special(sc, b, p1) ==
  /\ "twoConts" \in sc <=> p1 \in Cont /\ b \in Cont
  /\ sc \subseteq {"twoConts"} <=>
       IF p1 < 128 THEN b \notin Cont ELSE p1 \in Cont \/ b \in Second(p1)

\* The tables say exactly what is wrong between a byte and the one before it.
LEMMA SpecialIs ==
  ASSUME NEW b \in Byte, NEW p1 \in Byte
  PROVE  Special(checkSpecialCases(b, p1), b, p1)
<1>1. PICK h, l, n \in Nibble :
        /\ h = p1 \div 16 /\ l = p1 % 16 /\ n = b \div 16
        /\ p1 = 16 * h + l /\ 16 * n <= b /\ b < 16 * n + 16
  <2>1. p1 \div 16 \in Nibble /\ p1 % 16 \in Nibble /\ p1 = 16 * (p1 \div 16) + (p1 % 16)  BY Halves
  <2>2. b \div 16 \in Nibble /\ b % 16 \in Nibble /\ b = 16 * (b \div 16) + (b % 16)  BY Halves
  <2>3. 16 * (b \div 16) <= b /\ b < 16 * (b \div 16) + 16  BY <2>2 DEF Byte, Nibble
  <2> QED  BY <2>1, <2>2, <2>3
<1>2. PICK th : th = byte1HighTable[h + 1] /\ HighErrors(th, h)  BY TablesAre
<1>3. PICK tl : tl = byte1LowTable[l + 1] /\ LowErrors(tl, l)  BY TablesAre
<1>4. PICK tn : tn = byte2HighTable[n + 1] /\ NextErrors(tn, n)  BY TablesAre
<1>5. PICK sc : sc = checkSpecialCases(b, p1)  OBVIOUS
<1>6. \A x : x \in sc <=> x \in th /\ x \in tl /\ x \in tn
  BY <1>1, <1>2, <1>3, <1>4, <1>5 DEF checkSpecialCases
<1>7. "twoConts" \in sc <=> p1 \in Cont /\ b \in Cont
  BY <1>1, <1>2, <1>3, <1>4, <1>6 DEF Cont, Nibble, Byte, HighErrors, LowErrors, NextErrors
<1> DEFINE Clean == /\ "tooLong" \notin sc /\ "tooShort" \notin sc /\ "overLong2" \notin sc
                    /\ "overLong3" \notin sc /\ "surrogate" \notin sc /\ "tooLarge" \notin sc
                    /\ "overLong4" \notin sc
<1>8. sc \subseteq {"twoConts"} <=> Clean
  BY <1>2, <1>6 DEF HighErrors
<1>9. /\ "tooLong" \in sc <=> p1 < 128 /\ b \in Cont
      /\ "tooShort" \in sc <=> p1 >= 192 /\ b \notin Cont
      /\ "overLong2" \in sc <=> p1 \in 192..193 /\ b \in Cont
      /\ "overLong3" \in sc <=> p1 = 224 /\ b \in 128..159
      /\ "surrogate" \in sc <=> p1 = 237 /\ b \in 160..191
      /\ "tooLarge" \in sc <=> p1 >= 244 /\ b \in 144..191
      /\ "overLong4" \in sc <=> (p1 = 240 \/ p1 >= 245) /\ b \in 128..143
  BY <1>1, <1>2, <1>3, <1>4, <1>6 DEF Cont, Nibble, Byte, HighErrors, LowErrors, NextErrors
<1>10. (IF p1 < 128 THEN b \notin Cont ELSE p1 \in Cont \/ b \in Second(p1)) <=> Clean
  BY <1>9 DEF Second, Cont, Byte
<1> HIDE DEF Clean
<1> QED  BY <1>5, <1>7, <1>8, <1>10 DEF Special

\* A byte is right after the three before it.
Right(b, p1, p2, p3) == checkMultibyteLengths(b, p1, p2, p3) = {}

\* A byte is right if it continues what stands open, and only then, or begins something.
LEMMA RightIs ==
  ASSUME NEW b \in Byte, NEW p1 \in Byte, NEW p2 \in Byte, NEW p3 \in Byte
  PROVE  Right(b, p1, p2, p3) <=>
         IF p1 \in Cont THEN b \in Cont <=> p2 >= 224 \/ p3 >= 240
         ELSE /\ ~(p2 >= 224 \/ p3 >= 240)
              /\ IF p1 < 128 THEN b \notin Cont ELSE b \in Second(p1)
<1>1. PICK sc : sc = checkSpecialCases(b, p1) /\ Special(sc, b, p1)  BY SpecialIs
<1>2. Right(b, p1, p2, p3) <=> /\ sc \subseteq {"twoConts"}
                               /\ "twoConts" \in sc <=> mustBe23Continuation(p2, p3)
  BY <1>1 DEF Right, checkMultibyteLengths
<1>3. p1 \in Cont => ~(p1 < 128)  BY DEF Cont, Byte
<1> QED  BY <1>1, <1>2, <1>3 DEF mustBe23Continuation, Special

-------------------------------------------------------------------------------
\* What may come next, by the last three bytes, while all has been right.
Expects(e, p1, p2, p3) ==
  \/ p1 < 192 /\ p2 < 224 /\ p3 < 240 /\ e = <<>>
  \/ p1 >= 192 /\ p2 < 224 /\ p3 < 240 /\ e = After(p1)
  \/ p1 \in Cont /\ p2 \in 224..239 /\ p3 < 240 /\ e = <<Cont>>
  \/ p1 \in Cont /\ p2 \in 240..244 /\ p3 < 240 /\ e = <<Cont, Cont>>
  \/ p1 \in Cont /\ p2 \in Cont /\ p3 \in 240..244 /\ e = <<Cont>>

\* The first range after a first byte, and the rest.
LEMMA AfterIs ==
  ASSUME NEW b \in Byte
  PROVE  /\ b < 128 => After(b) = <<>>
         /\ b \in Cont => After(b) = Bad
         /\ b \in 192..193 \/ b >= 245 => After(b) = Bad
         /\ b \in 194..223 => After(b) = <<Second(b)>>
         /\ b \in 224..239 => After(b) = <<Second(b), Cont>>
         /\ b \in 240..244 => After(b) = <<Second(b), Cont, Cont>>
<1>1. ASSUME b < 128 PROVE After(b) = <<>>
  <2>1. /\ b \notin 194..223 /\ b # 224 /\ b # 237 /\ b \notin 225..239 \ {237}
        /\ b # 240 /\ b # 244 /\ b \notin 241..243
    BY <1>1 DEF Byte
  <2> QED  BY <1>1, <2>1 DEF After
<1>2. ASSUME b \in Cont \/ b \in 192..193 \/ b >= 245 PROVE After(b) = Bad
  <2>1. /\ ~(b < 128) /\ b \notin 194..223 /\ b # 224 /\ b # 237 /\ b \notin 225..239 \ {237}
        /\ b # 240 /\ b # 244 /\ b \notin 241..243
    BY <1>2 DEF Byte, Cont
  <2> QED  BY <2>1 DEF After
<1>4. b \in 194..223 => After(b) = <<Second(b)>>  BY DEF After, Second, Byte
<1>5. b \in 224..239 => After(b) = <<Second(b), Cont>>
  <2>1. b = 224 => After(b) = <<Second(b), Cont>>  BY DEF After, Second, Byte
  <2>2. b = 237 => After(b) = <<Second(b), Cont>>  BY DEF After, Second, Byte
  <2>3. ASSUME b \in 225..239 \ {237} PROVE After(b) = <<Second(b), Cont>>
    <3>1. Second(b) = Cont
      <4>1. /\ b \notin 192..193 /\ b # 224 /\ b # 237 /\ b # 240 /\ b # 244 /\ b \notin 245..255
        BY <2>3
      <4> QED  BY <4>1 DEF Second
    <3>2. ~(b < 128) /\ b \notin 194..223 /\ b # 224 /\ b # 237 /\ b # 240 /\ b # 244 /\ b \notin 241..243
      BY <2>3
    <3>3. After(b) = <<Cont, Cont>>  BY <2>3, <3>2 DEF After
    <3> QED  BY <3>1, <3>3
  <2> QED  BY <2>1, <2>2, <2>3 DEF Byte
<1>6. b \in 240..244 => After(b) = <<Second(b), Cont, Cont>>
  <2>1. b = 240 => After(b) = <<Second(b), Cont, Cont>>  BY DEF After, Second, Byte
  <2>2. b = 244 => After(b) = <<Second(b), Cont, Cont>>  BY DEF After, Second, Byte
  <2>3. b \in 241..243 => After(b) = <<Second(b), Cont, Cont>>  BY DEF After, Second, Byte
  <2> QED  BY <2>1, <2>2, <2>3 DEF Byte
<1> QED  BY <1>1, <1>2, <1>4, <1>5, <1>6

\* Sequences of one, two and three.
LEMMA TailIs ==
  ASSUME NEW a, NEW b, NEW c
  PROVE  /\ Tail(<<a>>) = <<>> /\ Tail(<<a, b>>) = <<b>> /\ Tail(<<a, b, c>>) = <<b, c>>
         /\ <<a>> # <<>> /\ <<a, b>> # <<>> /\ <<a, b, c>> # <<>>
         /\ <<a>>[1] = a /\ <<a, b>>[1] = a /\ <<a, b, c>>[1] = a
OBVIOUS

\* Reading one of the bytes asked for, and one that is not.
LEMMA ReadsIs ==
  ASSUME NEW b
  PROVE  /\ ReadsByte(<<>>, b) = After(b)
         /\ ReadsByte(Bad, b) = Bad
         /\ \A a : ReadsByte(<<a>>, b) = IF b \in a THEN <<>> ELSE Bad
         /\ \A a, c : ReadsByte(<<a, c>>, b) = IF b \in a THEN <<c>> ELSE Bad
         /\ \A a, c, d : ReadsByte(<<a, c, d>>, b) = IF b \in a THEN <<c, d>> ELSE Bad
<1>1. ReadsByte(<<>>, b) = After(b)  BY DEF ReadsByte
<1>2. \A a : ReadsByte(<<a>>, b) = IF b \in a THEN <<>> ELSE Bad  BY TailIs DEF ReadsByte
<1>3. \A a, c : ReadsByte(<<a, c>>, b) = IF b \in a THEN <<c>> ELSE Bad  BY TailIs DEF ReadsByte
<1>4. \A a, c, d : ReadsByte(<<a, c, d>>, b) = IF b \in a THEN <<c, d>> ELSE Bad  BY TailIs DEF ReadsByte
<1>5. ReadsByte(Bad, b) = Bad  BY <1>2 DEF Bad
<1> QED  BY <1>1, <1>2, <1>3, <1>4, <1>5

\* A byte is found wrong exactly if what Table 3-7 asks for is something else, or,
\* where no character begins with it, when the next byte comes.
LEMMA ExpectsNext ==
  ASSUME NEW b \in Byte, NEW p1 \in Byte, NEW p2 \in Byte, NEW p3 \in Byte,
         NEW e, Expects(e, p1, p2, p3)
  PROVE  IF Right(b, p1, p2, p3) THEN Expects(ReadsByte(e, b), b, p1, p2) ELSE ReadsByte(e, b) = Bad
<1>1. PICK right \in BOOLEAN :
        /\ Right(b, p1, p2, p3) <=> right
        /\ right <=> IF p1 \in Cont THEN b \in Cont <=> p2 >= 224 \/ p3 >= 240
                     ELSE /\ ~(p2 >= 224 \/ p3 >= 240)
                          /\ IF p1 < 128 THEN b \notin Cont ELSE b \in Second(p1)
  <2>1. (Right(b, p1, p2, p3) <=> TRUE) \/ (Right(b, p1, p2, p3) <=> FALSE)  OBVIOUS
  <2> QED  BY <2>1, RightIs
<1> SUFFICES IF right THEN Expects(ReadsByte(e, b), b, p1, p2) ELSE ReadsByte(e, b) = Bad  BY <1>1
<1>2. CASE p1 < 192 /\ p2 < 224 /\ p3 < 240 /\ e = <<>>
  <2>1. ReadsByte(e, b) = After(b)  BY <1>2, ReadsIs
  <2>2. CASE b \in Cont
    <3>1. ~right  BY <1>1, <1>2, <2>2 DEF Cont, Byte
    <3> QED  BY <2>1, <2>2, <3>1, AfterIs
  <2>3. CASE b \notin Cont
    <3>1. right  BY <1>1, <1>2, <2>3 DEF Cont, Byte
    <3>2. CASE b < 128
      <4>1. After(b) = <<>>  BY <3>2, AfterIs
      <4> QED  BY <1>2, <2>1, <3>1, <3>2, <4>1 DEF Expects, Byte
    <3>3. CASE b >= 192  BY <1>2, <2>1, <3>1, <3>3 DEF Expects, Byte
    <3> QED  BY <2>3, <3>2, <3>3 DEF Cont, Byte
  <2> QED  BY <2>2, <2>3
<1>3. CASE p1 >= 192 /\ p2 < 224 /\ p3 < 240 /\ e = After(p1)
  <2>1. right <=> b \in Second(p1)  BY <1>1, <1>3 DEF Cont, Byte
  <2>2. CASE p1 \in 192..193 \/ p1 >= 245
    <3>1. e = Bad  BY <1>3, <2>2, AfterIs
    <3>2. ~right  BY <2>1, <2>2 DEF Second, Byte
    <3> QED  BY <3>1, <3>2, ReadsIs
  <2>3. CASE p1 \in 194..223
    <3>1. e = <<Second(p1)>>  BY <1>3, <2>3, AfterIs
    <3>2. ReadsByte(e, b) = IF right THEN <<>> ELSE Bad  BY <2>1, <3>1, ReadsIs
    <3>3. right => b < 192  BY <2>1, <2>3 DEF Second, Cont, Byte
    <3> QED  BY <1>3, <2>3, <3>2, <3>3 DEF Expects, Byte
  <2>4. CASE p1 \in 224..239
    <3>1. e = <<Second(p1), Cont>>  BY <1>3, <2>4, AfterIs
    <3>2. ReadsByte(e, b) = IF right THEN <<Cont>> ELSE Bad
      <4>1. \A a, c : ReadsByte(<<a, c>>, b) = IF b \in a THEN <<c>> ELSE Bad  BY ReadsIs
      <4>2. ReadsByte(<<Second(p1), Cont>>, b) = IF b \in Second(p1) THEN <<Cont>> ELSE Bad  BY <4>1
      <4> QED  BY <2>1, <3>1, <4>2
    <3>3. right => b \in Cont  BY <2>1, <2>4 DEF Second, Cont, Byte
    <3> QED  BY <1>3, <2>4, <3>2, <3>3 DEF Expects, Byte
  <2>5. CASE p1 \in 240..244
    <3>1. e = <<Second(p1), Cont, Cont>>  BY <1>3, <2>5, AfterIs
    <3>2. ReadsByte(e, b) = IF right THEN <<Cont, Cont>> ELSE Bad
      <4>1. \A a, c, d : ReadsByte(<<a, c, d>>, b) = IF b \in a THEN <<c, d>> ELSE Bad  BY ReadsIs
      <4>2. ReadsByte(<<Second(p1), Cont, Cont>>, b) = IF b \in Second(p1) THEN <<Cont, Cont>> ELSE Bad
        BY <4>1
      <4> QED  BY <2>1, <3>1, <4>2
    <3>3. right => b \in Cont  BY <2>1, <2>5 DEF Second, Cont, Byte
    <3> QED  BY <1>3, <2>5, <3>2, <3>3 DEF Expects, Byte
  <2> QED  BY <1>3, <2>2, <2>3, <2>4, <2>5 DEF Byte
<1>4. CASE p1 \in Cont /\ p2 \in 224..239 /\ p3 < 240 /\ e = <<Cont>>
  <2>1. right <=> b \in Cont  BY <1>1, <1>4
  <2>2. ReadsByte(e, b) = IF right THEN <<>> ELSE Bad  BY <1>4, <2>1, ReadsIs
  <2> QED  BY <1>4, <2>1, <2>2 DEF Expects, Byte, Cont
<1>5. CASE p1 \in Cont /\ p2 \in 240..244 /\ p3 < 240 /\ e = <<Cont, Cont>>
  <2>1. right <=> b \in Cont  BY <1>1, <1>5
  <2>2. ReadsByte(e, b) = IF right THEN <<Cont>> ELSE Bad
    <3>1. \A a, c : ReadsByte(<<a, c>>, b) = IF b \in a THEN <<c>> ELSE Bad  BY ReadsIs
    <3>2. ReadsByte(<<Cont, Cont>>, b) = IF b \in Cont THEN <<Cont>> ELSE Bad  BY <3>1
    <3> QED  BY <1>5, <2>1, <3>2
  <2> QED  BY <1>5, <2>1, <2>2 DEF Expects, Byte, Cont
<1>6. CASE p1 \in Cont /\ p2 \in Cont /\ p3 \in 240..244 /\ e = <<Cont>>
  <2>1. right <=> b \in Cont  BY <1>1, <1>6
  <2>2. ReadsByte(e, b) = IF right THEN <<>> ELSE Bad
    <3>1. ReadsByte(<<Cont>>, b) = IF b \in Cont THEN <<>> ELSE Bad  BY ReadsIs
    <3> QED  BY <1>6, <2>1, <3>1
  <2> QED  BY <1>6, <2>1, <2>2 DEF Expects, Byte, Cont
<1> QED  BY <1>2, <1>3, <1>4, <1>5, <1>6 DEF Expects

\* Nothing is open exactly if nothing more is asked for.
LEMMA ExpectsNothing ==
  ASSUME NEW p1 \in Byte, NEW p2 \in Byte, NEW p3 \in Byte, NEW e, Expects(e, p1, p2, p3)
  PROVE  e = <<>> <=> ~(p3 >= 240 \/ p2 >= 224 \/ p1 >= 192)
<1>1. p1 >= 192 => After(p1) # <<>>
  <2>1. Bad # <<>>  BY TailIs DEF Bad
  <2>2. p1 \in 192..193 \/ p1 >= 245 => After(p1) # <<>>  BY <2>1, AfterIs
  <2>3. p1 \in 194..223 => After(p1) # <<>>  BY AfterIs, TailIs
  <2>4. p1 \in 224..239 => After(p1) # <<>>
    <3>1. <<Second(p1), Cont>> # <<>>  BY TailIs
    <3> QED  BY <3>1, AfterIs
  <2>5. p1 \in 240..244 => After(p1) # <<>>
    <3>1. <<Second(p1), Cont, Cont>> # <<>>  BY TailIs
    <3> QED  BY <3>1, AfterIs
  <2> QED  BY <2>2, <2>3, <2>4, <2>5 DEF Byte
<1>2. <<Cont>> # <<>> /\ <<Cont, Cont>> # <<>>  BY TailIs
<1> QED  BY <1>1, <1>2 DEF Expects, Byte, Cont

---------------------------------------------------------------------------------
(* A block of bytes, and the reader of Table 3-7. *)

\* Induction, over the set of the numbers for which a statement holds.
LEMMA Induction ==
  ASSUME NEW T, T \subseteq Nat, 0 \in T, \A n \in T : n + 1 \in T
  PROVE  T = Nat
<1>1. SUFFICES ASSUME Nat \ T # {} PROVE FALSE  OBVIOUS
<1>2. PICK x \in Nat \ T : \A y \in Nat \ T : x <= y  BY <1>1, LeastNat
<1>3. x # 0 /\ x - 1 \in Nat  BY <1>2
<1>4. x - 1 \in T  BY <1>3, <1>2
<1> QED  BY <1>2, <1>4, <1>3

\* Reading byte after byte, as a function.
ReadsOf(f, e, bytes, n) == f = [i \in 0..n |-> IF i = 0 THEN e ELSE ReadsByte(f[i - 1], bytes[i])]

\* There is such a function.
LEMMA ReadsExist == ASSUME NEW e, NEW bytes PROVE \A n \in Nat : \E f : ReadsOf(f, e, bytes, n)
<1> DEFINE T == {n \in Nat : \E f : ReadsOf(f, e, bytes, n)}
<1>1. 0 \in T
  <2>1. PICK f : f = [k \in 0..0 |-> e]  OBVIOUS
  <2>2. ReadsOf(f, e, bytes, 0)  BY <2>1 DEF ReadsOf
  <2> QED  BY <2>2
<1>2. ASSUME NEW n \in T PROVE n + 1 \in T
  <2>1. PICK f : ReadsOf(f, e, bytes, n)  OBVIOUS
  <2>2. PICK g : g = [k \in 0..(n + 1) |-> IF k = n + 1 THEN ReadsByte(f[n], bytes[k]) ELSE f[k]]  OBVIOUS
  <2>3. ASSUME NEW k \in 0..(n + 1)
        PROVE  g[k] = IF k = 0 THEN e ELSE ReadsByte(g[k - 1], bytes[k])
    BY <2>1, <2>2 DEF ReadsOf
  <2>4. ReadsOf(g, e, bytes, n + 1)  BY <2>2, <2>3 DEF ReadsOf
  <2> QED  BY <2>4
<1> HIDE DEF T
<1>3. T = Nat  BY <1>1, <1>2, Induction DEF T
<1> QED  BY <1>3 DEF T

\* What is asked for after each byte.
Reading(r, e, bytes, n) == r[0] = e /\ \A i \in 1..n : r[i] = ReadsByte(r[i - 1], bytes[i])

\* ReadsAll is what is asked for after the last byte.
LEMMA ReadsAllIs ==
  ASSUME NEW e, NEW bytes, NEW n \in Nat, n = Len(bytes)
  PROVE  \E r : Reading(r, e, bytes, n) /\ ReadsAll(e, bytes) = r[n]
<1>1. PICK r : r = CHOOSE f : ReadsOf(f, e, bytes, n)  OBVIOUS
<1>2. ReadsOf(r, e, bytes, n)  BY <1>1, ReadsExist
<1>3. ReadsAll(e, bytes) = r[n]  BY <1>1 DEF ReadsAll, ReadsOf
<1>4. Reading(r, e, bytes, n)  BY <1>2 DEF Reading, ReadsOf
<1> QED  BY <1>3, <1>4

\* The byte at a place, those before the first taken from what was read before.
Back(bytes, prev, i) == IF i > 0 THEN bytes[i] ELSE prev[i + 3]

RightAt(bytes, prev, i) ==
  Right(bytes[i], Back(bytes, prev, i - 1), Back(bytes, prev, i - 2), Back(bytes, prev, i - 3))

ExpectsAt(e, bytes, prev, i) ==
  Expects(e, Back(bytes, prev, i), Back(bytes, prev, i - 1), Back(bytes, prev, i - 2))

Three(prev) == prev \in Seq(Byte) /\ Len(prev) = 3

\* It is a byte.
LEMMA BackIs ==
  ASSUME NEW prev, Three(prev), NEW bytes \in Seq(Byte), NEW i \in Int, i >= -2, i <= Len(bytes)
  PROVE  Back(bytes, prev, i) \in Byte
<1>1. PICK n \in Nat : n = Len(bytes) /\ \A j \in 1..n : bytes[j] \in Byte  BY LenProperties, ElementOfSeq
<1>2. \A j \in 1..3 : prev[j] \in Byte  BY ElementOfSeq DEF Three
<1>3. i > 0 => i \in 1..n  BY <1>1
<1>4. ~(i > 0) => i + 3 \in 1..3  OBVIOUS
<1> QED  BY <1>1, <1>2, <1>3, <1>4 DEF Back

\* Some byte is wrong.
LEMMA WrongByteIs ==
  ASSUME NEW prev, Three(prev), NEW bytes \in Seq(Byte), NEW n \in Nat, n = Len(bytes)
  PROVE  WrongByte(bytes, prev) <=> \E i \in 1..n : ~RightAt(bytes, prev, i)
<1>1. PICK all : all = prev \o bytes  OBVIOUS
<1>2. /\ all \in Seq(Byte) /\ Len(all) = n + 3
      /\ \A i \in 1..(n + 3) : all[i] = IF i <= 3 THEN prev[i] ELSE bytes[i - 3]
  <2>1. /\ prev \o bytes \in Seq(Byte) /\ Len(prev \o bytes) = Len(prev) + Len(bytes)
        /\ \A i \in 1..(Len(prev) + Len(bytes)) :
             (prev \o bytes)[i] = IF i <= Len(prev) THEN prev[i] ELSE bytes[i - Len(prev)]
    BY ConcatProperties DEF Three
  <2>2. Len(prev) = 3 /\ Len(bytes) = n /\ 3 + n = n + 3  BY DEF Three
  <2> QED  BY <1>1, <2>1, <2>2
<1>3. \A k \in -2..n : all[k + 3] = Back(bytes, prev, k)
  <2>1. SUFFICES ASSUME NEW k \in -2..n PROVE all[k + 3] = Back(bytes, prev, k)  OBVIOUS
  <2>2. k + 3 \in 1..(n + 3) /\ (k + 3 <= 3 <=> ~(k > 0)) /\ (k + 3) - 3 = k  OBVIOUS
  <2> QED  BY <1>2, <2>2 DEF Back
<1>4. ASSUME NEW i \in 1..n
      PROVE  RightAt(bytes, prev, i)
             <=> checkMultibyteLengths(all[i + 3], all[i + 2], all[i + 1], all[i]) = {}
  <2>1. all[i + 3] = bytes[i]  BY <1>3, <1>4 DEF Back
  <2>2. i - 1 \in -2..n /\ i - 2 \in -2..n /\ i - 3 \in -2..n
        /\ (i - 1) + 3 = i + 2 /\ (i - 2) + 3 = i + 1 /\ (i - 3) + 3 = i  BY <1>4
  <2>3. all[i + 2] = Back(bytes, prev, i - 1) /\ all[i + 1] = Back(bytes, prev, i - 2)
        /\ all[i] = Back(bytes, prev, i - 3)  BY <1>3, <2>2
  <2> QED  BY <2>1, <2>3 DEF RightAt, Right
<1>5. WrongByte(bytes, prev)
      <=> \E k \in 4..(n + 3) : checkMultibyteLengths(all[k], all[k - 1], all[k - 2], all[k - 3]) # {}
  BY <1>1, <1>2 DEF WrongByte
<1>6. ASSUME NEW k \in 4..(n + 3)
      PROVE  k - 3 \in 1..n /\ (k - 3) + 3 = k /\ (k - 3) + 2 = k - 1 /\ (k - 3) + 1 = k - 2
  BY <1>6
<1>7. ASSUME NEW i \in 1..n
      PROVE  i + 3 \in 4..(n + 3) /\ (i + 3) - 1 = i + 2 /\ (i + 3) - 2 = i + 1 /\ (i + 3) - 3 = i
  BY <1>7
<1>8. ASSUME WrongByte(bytes, prev) PROVE \E i \in 1..n : ~RightAt(bytes, prev, i)
  <2>1. PICK k \in 4..(n + 3) : checkMultibyteLengths(all[k], all[k - 1], all[k - 2], all[k - 3]) # {}
    BY <1>5, <1>8
  <2>2. PICK i \in 1..n : i = k - 3 /\ i + 3 = k /\ i + 2 = k - 1 /\ i + 1 = k - 2  BY <1>6
  <2>3. ~RightAt(bytes, prev, i)  BY <1>4, <2>1, <2>2
  <2> QED  BY <2>3
<1>9. ASSUME NEW i \in 1..n, ~RightAt(bytes, prev, i) PROVE WrongByte(bytes, prev)
  <2>1. PICK k \in 4..(n + 3) : k = i + 3 /\ k - 1 = i + 2 /\ k - 2 = i + 1 /\ k - 3 = i  BY <1>7
  <2>2. checkMultibyteLengths(all[k], all[k - 1], all[k - 2], all[k - 3]) # {}  BY <1>4, <1>9, <2>1
  <2> QED  BY <1>5, <2>2
<1> QED  BY <1>8, <1>9

\* What has been asked for and not been given is asked for ever.
LEMMA BadStays ==
  ASSUME NEW e, NEW bytes, NEW n \in Nat, NEW r, Reading(r, e, bytes, n), NEW k \in 0..n, r[k] = Bad
  PROVE  r[n] = Bad
<1> DEFINE T == {i \in Nat : k <= i /\ i <= n => r[i] = Bad}
<1>1. 0 \in T  OBVIOUS
<1>2. ASSUME NEW i \in T PROVE i + 1 \in T
  <2>1. SUFFICES ASSUME k <= i + 1, i + 1 <= n PROVE r[i + 1] = Bad  OBVIOUS
  <2>2. CASE k = i + 1  BY <2>2
  <2>3. CASE k <= i
    <3>1. r[i] = Bad  BY <1>2, <2>1, <2>3
    <3>2. i + 1 \in 1..n /\ (i + 1) - 1 = i  BY <2>1
    <3>3. r[i + 1] = ReadsByte(r[i], bytes[i + 1])  BY <3>2 DEF Reading
    <3> QED  BY <3>1, <3>3, ReadsIs
  <2> QED  BY <2>1, <2>2, <2>3
<1> HIDE DEF T
<1>3. T = Nat  BY <1>1, <1>2, Induction DEF T
<1> QED  BY <1>3 DEF T

\* A block in which no byte is wrong leaves what its last three bytes ask for.
LEMMA BlockReadsSome ==
  ASSUME NEW prev, Three(prev), NEW bytes \in Seq(Byte), NEW n \in Nat, n = Len(bytes),
         NEW e, Expects(e, prev[3], prev[2], prev[1]), NEW r, Reading(r, e, bytes, n)
  PROVE  \A k \in 0..n : (\A i \in 1..k : RightAt(bytes, prev, i)) => ExpectsAt(r[k], bytes, prev, k)
<1> DEFINE T == {k \in Nat : k <= n /\ (\A i \in 1..k : RightAt(bytes, prev, i))
                             => ExpectsAt(r[k], bytes, prev, k)}
<1>1. 0 \in T
  <2>1. ExpectsAt(r[0], bytes, prev, 0)
    BY DEF Reading, ExpectsAt, Back
  <2> QED  BY <2>1
<1>2. ASSUME NEW k \in T PROVE k + 1 \in T
  <2>1. SUFFICES ASSUME k + 1 <= n, \A i \in 1..(k + 1) : RightAt(bytes, prev, i)
                 PROVE  ExpectsAt(r[k + 1], bytes, prev, k + 1)  OBVIOUS
  <2>2. ExpectsAt(r[k], bytes, prev, k)  BY <1>2, <2>1
  <2>3. PICK j \in 1..n : j = k + 1 /\ j - 1 = k /\ j - 2 = k - 1 /\ j - 3 = k - 2 /\ j > 0  BY <2>1
  <2>4. RightAt(bytes, prev, j)  BY <2>1, <2>3
  <2>5. PICK b, p1, p2, p3 \in Byte :
          /\ b = bytes[j] /\ b = Back(bytes, prev, j) /\ p1 = Back(bytes, prev, k)
          /\ p2 = Back(bytes, prev, k - 1) /\ p3 = Back(bytes, prev, k - 2)
    <3>1. bytes[j] = Back(bytes, prev, j)  BY <2>3 DEF Back
    <3>2. Back(bytes, prev, j) \in Byte /\ Back(bytes, prev, k) \in Byte  BY <2>3, BackIs
    <3>3. Back(bytes, prev, k - 1) \in Byte /\ Back(bytes, prev, k - 2) \in Byte  BY <2>3, BackIs
    <3> QED  BY <3>1, <3>2, <3>3
  <2>6. Expects(r[k], p1, p2, p3)  BY <2>2, <2>5 DEF ExpectsAt
  <2>7. Right(b, p1, p2, p3)  BY <2>3, <2>4, <2>5 DEF RightAt
  <2>8. Expects(ReadsByte(r[k], b), b, p1, p2)  BY <2>6, <2>7, ExpectsNext
  <2>9. r[j] = ReadsByte(r[k], b)  BY <2>3, <2>5 DEF Reading
  <2> QED  BY <2>3, <2>5, <2>8, <2>9 DEF ExpectsAt
<1> HIDE DEF T
<1>3. T = Nat  BY <1>1, <1>2, Induction DEF T
<1> QED  BY <1>3 DEF T

\* After a wrong byte nothing is right.
LEMMA WrongReads ==
  ASSUME NEW prev, Three(prev), NEW bytes \in Seq(Byte), NEW n \in Nat, n = Len(bytes),
         NEW e, Expects(e, prev[3], prev[2], prev[1]), NEW r, Reading(r, e, bytes, n),
         NEW w \in 1..n, ~RightAt(bytes, prev, w)
  PROVE  r[n] = Bad
<1> DEFINE W == {i \in 1..n : ~RightAt(bytes, prev, i)}
<1>1. W \subseteq Nat /\ w \in W  OBVIOUS
<1>2. PICK j \in W : \A i \in W : j <= i  BY <1>1, LeastNat
<1>3. PICK k \in 0..n : k = j - 1 /\ k - 1 = j - 2 /\ k - 2 = j - 3  OBVIOUS
<1>4. \A i \in 1..k : RightAt(bytes, prev, i)  BY <1>2, <1>3
<1>5. ExpectsAt(r[k], bytes, prev, k)  BY <1>4, BlockReadsSome
<1>6. PICK b, p1, p2, p3 \in Byte :
        /\ b = bytes[j] /\ p1 = Back(bytes, prev, k)
        /\ p2 = Back(bytes, prev, k - 1) /\ p3 = Back(bytes, prev, k - 2)
  <2>1. bytes[j] \in Byte  BY ElementOfSeq
  <2>2. Back(bytes, prev, k) \in Byte  BY BackIs
  <2>3. Back(bytes, prev, k - 1) \in Byte /\ Back(bytes, prev, k - 2) \in Byte  BY BackIs
  <2> QED  BY <2>1, <2>2, <2>3
<1>7. ~Right(b, p1, p2, p3)  BY <1>3, <1>6 DEF RightAt
<1>8. Expects(r[k], p1, p2, p3)  BY <1>5, <1>6 DEF ExpectsAt
<1>9. ReadsByte(r[k], b) = Bad  BY <1>7, <1>8, ExpectsNext
<1>10. r[j] = Bad  BY <1>3, <1>6, <1>9 DEF Reading
<1> QED  BY <1>10, BadStays

---------------------------------------------------------------------------------
(* The checker keeps what the reader asks for. *)

\* The register ends inside a character.
Open(prev) == prev[1] >= 240 \/ prev[2] >= 224 \/ prev[3] >= 192

\* A byte of ASCII continues nothing.
LEMMA AsciiByte ==
  ASSUME NEW b \in Byte, b < 128
  PROVE  /\ b \notin Cont /\ ~(b >= 240) /\ ~(b >= 224) /\ ~(b >= 192)
         /\ \A p \in Byte : p >= 192 => b \notin Second(p) /\ p \notin Cont /\ ~(p < 128)
<1>1. b \notin Cont /\ ~(b >= 240) /\ ~(b >= 224) /\ ~(b >= 192)  BY DEF Cont, Byte
<1>2. ASSUME NEW p \in Byte, p >= 192 PROVE b \notin Second(p) /\ p \notin Cont /\ ~(p < 128)
  BY <1>2 DEF Second, Cont, Byte
<1> QED  BY <1>1, <1>2

\* The last three bytes of a block that has them.
LEMMA LastThreeIs ==
  ASSUME NEW bytes \in Seq(Byte), NEW n \in Nat, n = Len(bytes), n >= 3, NEW prev
  PROVE  /\ Three(LastThree(bytes))
         /\ LastThree(bytes)[3] = Back(bytes, prev, n)
         /\ LastThree(bytes)[2] = Back(bytes, prev, n - 1)
         /\ LastThree(bytes)[1] = Back(bytes, prev, n - 2)
<1>1. PICK m \in 1..(n + 1) : m = n - 2  OBVIOUS
<1>2. PICK t : t = SubSeq(bytes, m, n) /\ t = LastThree(bytes)  BY <1>1 DEF LastThree
<1>3. /\ t \in Seq(Byte) /\ Len(t) = 3 /\ \A i \in 1..3 : t[i] = bytes[m + i - 1]
  <2>1. m \in 1..(Len(bytes) + 1) /\ n \in (m - 1)..Len(bytes) /\ n - m + 1 = 3 
    BY <1>1
  <2>2. /\ SubSeq(bytes, m, n) \in Seq(Byte) /\ Len(SubSeq(bytes, m, n)) = n - m + 1
        /\ \A i \in 1..(n - m + 1) : SubSeq(bytes, m, n)[i] = bytes[m + i - 1]
    BY <2>1, SubSeqProperties, SMTT(40)
  <2> QED  BY <1>2, <2>1, <2>2
<1>4. t[3] = bytes[n] /\ t[2] = bytes[n - 1] /\ t[1] = bytes[n - 2]
  <2>1. m + 3 - 1 = n /\ m + 2 - 1 = n - 1 /\ m + 1 - 1 = n - 2  BY <1>1
  <2> QED  BY <1>3, <2>1
<1>5. n > 0 /\ n - 1 > 0 /\ n - 2 > 0  OBVIOUS
<1> QED  BY <1>2, <1>3, <1>4, <1>5 DEF Three, Back

\* Nothing is wrong in a block of ASCII but what stood open before it.
LEMMA AsciiIs ==
  ASSUME NEW prev, Three(prev), NEW e, Expects(e, prev[3], prev[2], prev[1]),
         NEW bytes \in Seq(Byte), NEW n \in Nat, n = Len(bytes), n >= 3, isAscii(bytes)
  PROVE  (WrongByte(bytes, prev) <=> Open(prev)) /\ ~Open(LastThree(bytes))
<1>1. \A i \in 1..n : bytes[i] \in Byte /\ bytes[i] < 128  BY LenProperties, ElementOfSeq DEF isAscii
<1>2. PICK p1, p2, p3 \in Byte : p1 = prev[3] /\ p2 = prev[2] /\ p3 = prev[1]
  <2>1. \A j \in 1..3 : prev[j] \in Byte  BY ElementOfSeq DEF Three
  <2>2. prev[1] \in Byte /\ prev[2] \in Byte /\ prev[3] \in Byte  BY <2>1
  <2> QED  BY <2>2
<1>3. ASSUME Open(prev) PROVE ~RightAt(bytes, prev, 1)
  <2>1. PICK b \in Byte : b = bytes[1] /\ b < 128 /\ b \notin Cont
    <3>1. bytes[1] \in Byte /\ bytes[1] < 128  BY <1>1
    <3>2. bytes[1] \notin Cont  BY <3>1, AsciiByte
    <3> QED  BY <3>1, <3>2
  <2>2. Back(bytes, prev, 0) = p1 /\ Back(bytes, prev, -1) = p2 /\ Back(bytes, prev, -2) = p3
    BY <1>2 DEF Back
  <2>3. RightAt(bytes, prev, 1) <=> Right(b, p1, p2, p3)
    <3>1. 1 - 1 = 0 /\ 1 - 2 = -1 /\ 1 - 3 = -2  OBVIOUS
    <3> QED  BY <2>1, <2>2, <3>1 DEF RightAt
  <2>4. ~Right(b, p1, p2, p3)
    <3>1. p3 >= 240 \/ p2 >= 224 \/ p1 >= 192  BY <1>2, <1>3 DEF Open
    <3>2. p1 >= 192 => b \notin Second(p1) /\ p1 \notin Cont /\ ~(p1 < 128)  BY <2>1, AsciiByte
    <3> QED  BY <2>1, <3>1, <3>2, RightIs
  <2> QED  BY <2>3, <2>4
<1>4. ASSUME ~Open(prev), NEW i \in 1..n PROVE RightAt(bytes, prev, i)
  <2>1. PICK b \in Byte : b = bytes[i] /\ b < 128 /\ b \notin Cont
    <3>1. bytes[i] \in Byte /\ bytes[i] < 128  BY <1>1, <1>4
    <3>2. bytes[i] \notin Cont  BY <3>1, AsciiByte
    <3> QED  BY <3>1, <3>2
  <2>2. PICK q1, q2, q3 \in Byte :
          /\ q1 = Back(bytes, prev, i - 1) /\ q2 = Back(bytes, prev, i - 2) /\ q3 = Back(bytes, prev, i - 3)
    <3>1. \A k \in -2..n : Back(bytes, prev, k) \in Byte  BY BackIs
    <3>2. i - 1 \in -2..n /\ i - 2 \in -2..n /\ i - 3 \in -2..n  BY <1>4
    <3>3. /\ Back(bytes, prev, i - 1) \in Byte /\ Back(bytes, prev, i - 2) \in Byte
          /\ Back(bytes, prev, i - 3) \in Byte
      BY <3>1, <3>2
    <3> QED  BY <3>3
  <2>3. ~(p3 >= 240) /\ ~(p2 >= 224) /\ ~(p1 >= 192)  BY <1>2, <1>4 DEF Open
  <2>4. q1 < 192
    <3>1. CASE i - 1 > 0
      <4>1. i - 1 \in 1..n  BY <3>1
      <4> QED  BY <1>1, <2>2, <3>1, <4>1, SMTT(40) DEF Back, Byte
    <3>2. CASE i = 1
      <4>1. q1 = p1  BY <1>2, <2>2, <3>2 DEF Back
      <4> QED  BY <2>3, <4>1 DEF Byte
    <3> QED  BY <3>1, <3>2
  <2>5. q2 < 224
    <3>1. CASE i - 2 > 0
      <4>1. i - 2 \in 1..n  BY <3>1
      <4> QED  BY <1>1, <2>2, <3>1, <4>1, SMTT(40) DEF Back, Byte
    <3>2. CASE i = 2
      <4>1. q2 = p1  BY <1>2, <2>2, <3>2 DEF Back
      <4> QED  BY <2>3, <4>1 DEF Byte
    <3>3. CASE i = 1
      <4>1. q2 = p2  BY <1>2, <2>2, <3>3 DEF Back
      <4> QED  BY <2>3, <4>1 DEF Byte
    <3> QED  BY <3>1, <3>2, <3>3, SMTT(40)
  <2>6. q3 < 240
    <3>1. CASE i - 3 > 0
      <4>1. i - 3 \in 1..n  BY <3>1
      <4> QED  BY <1>1, <2>2, <3>1, <4>1, SMTT(40) DEF Back, Byte
    <3>2. CASE i = 3
      <4>1. q3 = p1  BY <1>2, <2>2, <3>2 DEF Back
      <4> QED  BY <2>3, <4>1 DEF Byte
    <3>3. CASE i = 2
      <4>1. q3 = p2  BY <1>2, <2>2, <3>3 DEF Back
      <4> QED  BY <2>3, <4>1 DEF Byte
    <3>4. CASE i = 1
      <4>1. q3 = p3  BY <1>2, <2>2, <3>4 DEF Back
      <4> QED  BY <2>3, <4>1 DEF Byte
    <3> QED  BY <3>1, <3>2, <3>3, <3>4
  <2>7. Right(b, q1, q2, q3)
    <3>1. ~(q2 >= 224 \/ q3 >= 240)  BY <2>5, <2>6 DEF Byte
    <3>2. q1 \in Cont \/ q1 < 128  BY <2>4 DEF Cont, Byte
    <3>3. q1 < 128 => q1 \notin Cont  BY DEF Cont, Byte
    <3> QED  BY <2>1, <3>1, <3>2, <3>3, RightIs
  <2> QED  BY <2>1, <2>2, <2>7 DEF RightAt
<1>5. WrongByte(bytes, prev) <=> Open(prev)
  <2>1. 1 \in 1..n  OBVIOUS
  <2> QED  BY <1>3, <1>4, <2>1, WrongByteIs
<1>6. ~Open(LastThree(bytes))
  <2>1. PICK t : t = LastThree(bytes)  OBVIOUS
  <2>2. t[3] = bytes[n] /\ t[2] = bytes[n - 1] /\ t[1] = bytes[n - 2]
    <3>1. n > 0 /\ n - 1 > 0 /\ n - 2 > 0  OBVIOUS
    <3> QED  BY <2>1, <3>1, LastThreeIs DEF Back
  <2>3. n \in 1..n /\ n - 1 \in 1..n /\ n - 2 \in 1..n  OBVIOUS
  <2>4. t[3] \in Byte /\ t[3] < 128 /\ t[2] \in Byte /\ t[2] < 128 /\ t[1] \in Byte /\ t[1] < 128
    BY <1>1, <2>2, <2>3
  <2>5. ~(t[1] >= 240) /\ ~(t[2] >= 224) /\ ~(t[3] >= 192)  BY <2>4, AsciiByte
  <2> QED  BY <2>1, <2>5 DEF Open
<1> QED  BY <1>5, <1>6

\* The checker is a reader of UTF-8: what it keeps says what is asked for next.
Checks(c, e) ==
  /\ Three(c.prevInput) /\ c.error \in BOOLEAN /\ c.prevIncomplete \in BOOLEAN
  /\ c.error = TRUE => e = Bad
  /\ c.error = FALSE => /\ Expects(e, c.prevInput[3], c.prevInput[2], c.prevInput[1])
                        /\ c.prevIncomplete = TRUE <=> Open(c.prevInput)

\* ASCII or not, a block is checked byte by byte.
LEMMA StepIs ==
  ASSUME NEW c, NEW e, Checks(c, e), c.error = FALSE,
         NEW bytes \in Seq(Byte), NEW n \in Nat, n = Len(bytes), n >= 3,
         NEW d, d = checkStepImpl(c, bytes)
  PROVE  /\ d.prevInput = LastThree(bytes)
         /\ d.error \in BOOLEAN /\ (d.error = TRUE <=> WrongByte(bytes, c.prevInput))
         /\ d.prevIncomplete \in BOOLEAN /\ (d.prevIncomplete = TRUE <=> Open(LastThree(bytes)))
<1>1. PICK prev : /\ prev = c.prevInput /\ Three(prev) /\ Expects(e, prev[3], prev[2], prev[1])
                  /\ c.prevIncomplete \in BOOLEAN /\ (c.prevIncomplete = TRUE <=> Open(prev))
  BY DEF Checks
<1>2. CASE isAscii(bytes)
  <2>1. /\ d.prevInput = LastThree(bytes) /\ d.prevIncomplete = FALSE
        /\ d.error = (c.error \/ c.prevIncomplete)
    BY <1>2 DEF checkStepImpl
  <2>2. (WrongByte(bytes, prev) <=> Open(prev)) /\ ~Open(LastThree(bytes))  BY <1>1, <1>2, AsciiIs
  <2>3. d.error \in BOOLEAN /\ (d.error = TRUE <=> Open(prev))  BY <1>1, <2>1
  <2> QED  BY <1>1, <2>1, <2>2, <2>3
<1>3. CASE ~isAscii(bytes)
  <2>1. /\ d.prevInput = LastThree(bytes) /\ d.prevIncomplete = checkIncomplete(bytes)
        /\ d.error = (c.error \/ WrongByte(bytes, prev))
    BY <1>1, <1>3 DEF checkStepImpl
  <2>2. d.error \in BOOLEAN /\ (d.error = TRUE <=> WrongByte(bytes, prev))  BY <2>1
  <2>3. checkIncomplete(bytes) \in BOOLEAN /\ (checkIncomplete(bytes) = TRUE <=> Open(LastThree(bytes)))
    BY DEF checkIncomplete, Open
  <2> QED  BY <1>1, <2>1, <2>2, <2>3
<1> QED  BY <1>2, <1>3

\* A block leaves the checker where the reader is.
LEMMA ChecksStep ==
  ASSUME NEW c, NEW e, Checks(c, e), c.error = FALSE,
         NEW bytes \in Seq(Byte), NEW n \in Nat, n = Len(bytes), n >= 3
  PROVE  Checks(checkStepImpl(c, bytes), ReadsAll(e, bytes))
<1>1. PICK d : d = checkStepImpl(c, bytes)  OBVIOUS
<1>2. PICK prev : prev = c.prevInput /\ Three(prev) /\ Expects(e, prev[3], prev[2], prev[1])
  BY DEF Checks
<1>3. PICK last : last = LastThree(bytes) /\ Three(last)  BY LastThreeIs
<1>4. /\ d.prevInput = last
      /\ d.error \in BOOLEAN /\ (d.error = TRUE <=> WrongByte(bytes, prev))
      /\ d.prevIncomplete \in BOOLEAN /\ (d.prevIncomplete = TRUE <=> Open(last))
  BY <1>1, <1>2, <1>3, StepIs
<1>5. PICK r : Reading(r, e, bytes, n) /\ ReadsAll(e, bytes) = r[n]  BY ReadsAllIs
<1>6. CASE d.error = TRUE
  <2>1. PICK w \in 1..n : ~RightAt(bytes, prev, w)  BY <1>2, <1>4, <1>6, WrongByteIs
  <2>2. r[n] = Bad  BY <1>2, <1>5, <2>1, WrongReads
  <2>3. Checks(d, r[n])  BY <1>3, <1>4, <1>6, <2>2 DEF Checks
  <2> QED  BY <1>1, <1>5, <2>3
<1>7. CASE d.error = FALSE
  <2>1. \A i \in 1..n : RightAt(bytes, prev, i)
    <3>1. ~WrongByte(bytes, prev)  BY <1>4, <1>7
    <3> QED  BY <1>2, <3>1, WrongByteIs
  <2>2. ExpectsAt(r[n], bytes, prev, n)
    <3>1. n \in 0..n  OBVIOUS
    <3> QED  BY <1>2, <1>5, <2>1, <3>1, BlockReadsSome
  <2>3. Expects(r[n], last[3], last[2], last[1])
    <3>1. last[3] = Back(bytes, prev, n) /\ last[2] = Back(bytes, prev, n - 1) /\ last[1] = Back(bytes, prev, n - 2)
      BY <1>3, LastThreeIs
    <3> QED  BY <2>2, <3>1 DEF ExpectsAt
  <2>4. Checks(d, r[n])  BY <1>3, <1>4, <1>7, <2>3 DEF Checks
  <2> QED  BY <1>1, <1>5, <2>4
<1> QED  BY <1>4, <1>6, <1>7

\* An error stays.
LEMMA ErrorStays ==
  ASSUME NEW c, c.error = TRUE, NEW bytes
  PROVE  checkStepImpl(c, bytes).error = TRUE
BY DEF checkStepImpl

\* Nothing more is asked for exactly if there is no error and nothing is open.
LEMMA ChecksNothing ==
  ASSUME NEW c, NEW e, Checks(c, e)
  PROVE  e = <<>> <=> ~errors(c)
<1>1. Bad # <<>>  BY TailIs DEF Bad
<1>2. CASE c.error = TRUE  BY <1>1, <1>2 DEF Checks, errors
<1>3. CASE c.error = FALSE
  <2>1. PICK prev : /\ prev = c.prevInput /\ Three(prev) /\ Expects(e, prev[3], prev[2], prev[1])
                    /\ c.prevIncomplete \in BOOLEAN /\ (c.prevIncomplete = TRUE <=> Open(prev))
    BY <1>3 DEF Checks
  <2>2. \A j \in 1..3 : prev[j] \in Byte  BY <2>1, ElementOfSeq DEF Three
  <2>3. e = <<>> <=> ~(prev[1] >= 240 \/ prev[2] >= 224 \/ prev[3] >= 192)  BY <2>1, <2>2, ExpectsNothing
  <2> QED  BY <1>3, <2>1, <2>3 DEF Open, errors
<1> QED  BY <1>2, <1>3 DEF Checks

\* Reading is determined by what is read.
LEMMA SameReads ==
  ASSUME NEW e, NEW bytes, NEW n \in Nat, NEW r, Reading(r, e, bytes, n),
         NEW more, NEW m \in Nat, n <= m, NEW q, Reading(q, e, more, m),
         \A i \in 1..n : more[i] = bytes[i]
  PROVE  q[n] = r[n]
<1> DEFINE T == {i \in Nat : i <= n => q[i] = r[i]}
<1>1. 0 \in T  BY DEF Reading
<1>2. ASSUME NEW i \in T PROVE i + 1 \in T
  <2>1. SUFFICES ASSUME i + 1 <= n PROVE q[i + 1] = r[i + 1]  OBVIOUS
  <2>2. i + 1 \in 1..n /\ i + 1 \in 1..m /\ (i + 1) - 1 = i  BY <2>1
  <2>3. q[i] = r[i]  BY <1>2, <2>1
  <2>4. r[i + 1] = ReadsByte(r[i], bytes[i + 1]) /\ q[i + 1] = ReadsByte(q[i], more[i + 1])
    BY <2>2 DEF Reading
  <2> QED  BY <2>2, <2>3, <2>4
<1> HIDE DEF T
<1>3. T = Nat  BY <1>1, <1>2, Induction DEF T
<1> QED  BY <1>3 DEF T

\* A block filled up with bytes of ASCII.
Padded(block, tail, n, m) ==
  /\ block \in Seq(Byte) /\ Len(block) = m
  /\ \A i \in 1..n : block[i] = tail[i]
  /\ \A i \in (n + 1)..m : block[i] = 65

\* That is what padding makes.
LEMMA PaddingIs ==
  ASSUME NEW tail \in Seq(Byte), NEW k \in Nat, k > 0, NEW n \in Nat, n = Len(tail)
  PROVE  Padded(tail \o Padding(k), tail, n, n + k)
<1>1. PICK p \in Seq(Byte) : p = Padding(k) /\ Len(p) = k /\ \A i \in 1..k : p[i] = 65
  <2>1. Padding(k) = [i \in 1..k |-> 65] /\ 65 \in Byte  BY DEF Padding, Byte
  <2>2. [i \in 1..k |-> 65] \in Seq(Byte) /\ Len([i \in 1..k |-> 65]) = k  BY <2>1
  <2> QED  BY <2>1, <2>2
<1>2. /\ tail \o p \in Seq(Byte) /\ Len(tail \o p) = Len(tail) + Len(p)
      /\ \A i \in 1..(Len(tail) + Len(p)) :
           (tail \o p)[i] = IF i <= Len(tail) THEN tail[i] ELSE p[i - Len(tail)]
  BY ConcatProperties
<1>3. PICK block : block = tail \o p  OBVIOUS
<1>4. /\ block \in Seq(Byte) /\ Len(block) = n + k
      /\ \A i \in 1..(n + k) : block[i] = IF i <= n THEN tail[i] ELSE p[i - n]
  BY <1>1, <1>2, <1>3
<1>5. ASSUME NEW i \in (n + 1)..(n + k) PROVE block[i] = 65
  <2>1. i \in 1..(n + k) /\ ~(i <= n) /\ i - n \in 1..k  OBVIOUS
  <2> QED  BY <1>1, <1>4, <2>1
<1>6. Padded(block, tail, n, n + k)  BY <1>4, <1>5 DEF Padded
<1> QED  BY <1>1, <1>3, <1>6

\* Nothing is asked for behind the padding exactly if nothing was before it.
EndsAlike(e, a, b) == ReadsAll(e, a) = <<>> <=> ReadsAll(e, b) = <<>>

\* An 'A' behind the end closes nothing that is open.
LEMMA PaddingReads ==
  ASSUME NEW c, NEW e, Checks(c, e), c.error = FALSE, NEW tail \in Seq(Byte),
         NEW n \in Nat, n = Len(tail), NEW m \in Nat, n < m, NEW block, Padded(block, tail, n, m)
  PROVE  EndsAlike(e, block, tail)
<1> USE DEF EndsAlike
<1>4. PICK r : Reading(r, e, tail, n) /\ ReadsAll(e, tail) = r[n]  BY ReadsAllIs
<1>5. PICK q : Reading(q, e, block, m) /\ ReadsAll(e, block) = q[m]
  <2>1. m = Len(block)  BY DEF Padded
  <2> QED  BY <2>1, ReadsAllIs
<1>7. q[n] = r[n]
  <2>1. n <= m /\ \A i \in 1..n : block[i] = tail[i]  BY DEF Padded
  <2> QED  BY <2>1, <1>4, <1>5, SameReads
<1>8. ASSUME NEW i \in (n + 1)..m PROVE q[i] = ReadsByte(q[i - 1], 65)
  <2>1. i \in 1..m  OBVIOUS
  <2>2. block[i] = 65  BY DEF Padded
  <2> QED  BY <1>5, <2>1, <2>2 DEF Reading
<1>9. CASE r[n] = <<>>
  <2> DEFINE T == {i \in Nat : n <= i /\ i <= m => q[i] = <<>>}
  <2>1. 0 \in T  BY <1>7, <1>9
  <2>2. ASSUME NEW i \in T PROVE i + 1 \in T
    <3>1. SUFFICES ASSUME n <= i + 1, i + 1 <= m PROVE q[i + 1] = <<>>  OBVIOUS
    <3>2. CASE n = i + 1  BY <1>7, <1>9, <3>2
    <3>3. CASE n <= i
      <4>1. q[i] = <<>>  BY <2>2, <3>1, <3>3
      <4>2. i + 1 \in (n + 1)..m /\ (i + 1) - 1 = i  BY <3>1, <3>3
      <4>3. q[i + 1] = ReadsByte(<<>>, 65)  BY <1>8, <4>1, <4>2
      <4>4. 65 \in Byte /\ 65 < 128  BY DEF Byte
      <4> QED  BY <4>3, <4>4, ReadsIs, AfterIs
    <3> QED  BY <3>1, <3>2, <3>3
  <2> HIDE DEF T
  <2>3. T = Nat  BY <2>1, <2>2, Induction DEF T
  <2>4. q[m] = <<>>  BY <2>3 DEF T
  <2> QED  BY <1>4, <1>5, <1>9, <2>4
<1>10. CASE r[n] # <<>>
  <2>1. PICK prev : prev = c.prevInput /\ Three(prev) /\ Expects(e, prev[3], prev[2], prev[1])
    BY DEF Checks
  <2>2. q[n + 1] = Bad
    <3>1. CASE \E w \in 1..n : ~RightAt(tail, prev, w)
      <4>1. r[n] = Bad  BY <1>4, <2>1, <3>1, WrongReads
      <4>2. n + 1 \in (n + 1)..m /\ (n + 1) - 1 = n  OBVIOUS
      <4>3. q[n + 1] = ReadsByte(Bad, 65)  BY <1>7, <1>8, <4>1, <4>2
      <4> QED  BY <4>3, ReadsIs
    <3>2. CASE \A i \in 1..n : RightAt(tail, prev, i)
      <4>1. ExpectsAt(r[n], tail, prev, n)
        <5>1. n \in 0..n  OBVIOUS
        <5> QED  BY <1>4, <2>1, <3>2, <5>1, BlockReadsSome
      <4>2. PICK p1, p2, p3 \in Byte :
              p1 = Back(tail, prev, n) /\ p2 = Back(tail, prev, n - 1) /\ p3 = Back(tail, prev, n - 2)
        <5>1. Back(tail, prev, n) \in Byte  BY <2>1, BackIs
        <5>2. Back(tail, prev, n - 1) \in Byte  BY <2>1, BackIs
        <5>3. Back(tail, prev, n - 2) \in Byte  BY <2>1, BackIs
        <5> QED  BY <5>1, <5>2, <5>3
      <4>3. Expects(r[n], p1, p2, p3)  BY <4>1, <4>2 DEF ExpectsAt
      <4>4. p3 >= 240 \/ p2 >= 224 \/ p1 >= 192  BY <1>10, <4>3, ExpectsNothing
      <4>5. PICK b \in Byte : b = 65 /\ b < 128 /\ b \notin Cont
        <5>1. 65 \in Byte /\ 65 < 128  BY DEF Byte
        <5> QED  BY <5>1, AsciiByte
      <4>6. ~Right(b, p1, p2, p3)
        <5>1. p1 >= 192 => b \notin Second(p1) /\ p1 \notin Cont /\ ~(p1 < 128)  BY <4>5, AsciiByte
        <5> QED  BY <4>4, <4>5, <5>1, RightIs
      <4>7. ReadsByte(r[n], 65) = Bad  BY <4>3, <4>5, <4>6, ExpectsNext
      <4>8. n + 1 \in (n + 1)..m /\ (n + 1) - 1 = n  OBVIOUS
      <4> QED  BY <1>7, <1>8, <4>7, <4>8
    <3> QED  BY <3>1, <3>2
  <2>3. n + 1 \in 0..m  OBVIOUS
  <2>4. q[m] = Bad  BY <1>5, <2>2, <2>3, BadStays
  <2>5. Bad # <<>>  BY TailIs DEF Bad
  <2> QED  BY <1>4, <1>5, <1>10, <2>4, <2>5
<1> QED  BY <1>9, <1>10

\* Nothing read leaves what is asked for.
LEMMA ReadsNothing == ASSUME NEW e PROVE ReadsAll(e, <<>>) = e
<1>1. Len(<<>>) = 0  OBVIOUS
<1> QED  BY <1>1, ReadsAllIs DEF Reading

\* What cannot be given stays so, whatever is read.
LEMMA ReadsBad == ASSUME NEW bytes \in Seq(Byte) PROVE ReadsAll(Bad, bytes) = Bad
<1>1. PICK n \in Nat : n = Len(bytes)  BY LenProperties
<1>2. PICK r : Reading(r, Bad, bytes, n) /\ ReadsAll(Bad, bytes) = r[n]  BY <1>1, ReadsAllIs
<1>3. r[0] = Bad /\ 0 \in 0..n  BY <1>2 DEF Reading
<1> QED  BY <1>2, <1>3, BadStays

\* While a buffer is checked, the checker is where the reader is; its verdict is the reader's.
CheckerInv ==
  /\ verdict = "none" => Checks(checker, expects)
  /\ ExactlyUtf8

\* It holds when validateUtf8 is called,
LEMMA CheckerInitOk == CheckerInit => CheckerInv
<1> SUFFICES ASSUME CheckerInit PROVE CheckerInv  OBVIOUS
<1>1. checker = NewChecker /\ expects = <<>> /\ verdict = "none"  BY DEF CheckerInit
<1>2. PICK z : z = <<0, 0, 0>> /\ Three(z) /\ z[1] = 0 /\ z[2] = 0 /\ z[3] = 0
  <2>1. 0 \in Byte  BY DEF Byte
  <2>2. <<0, 0, 0>> \in Seq(Byte) /\ Len(<<0, 0, 0>>) = 3  BY <2>1
  <2>3. <<0, 0, 0>>[1] = 0 /\ <<0, 0, 0>>[2] = 0 /\ <<0, 0, 0>>[3] = 0  OBVIOUS
  <2> QED  BY <2>2, <2>3 DEF Three
<1>3. checker.prevInput = z /\ checker.error = FALSE /\ checker.prevIncomplete = FALSE
  BY <1>1, <1>2 DEF NewChecker
<1>4. Expects(<<>>, 0, 0, 0) /\ ~Open(z)  BY <1>2 DEF Expects, Open
<1>5. Checks(checker, expects)  BY <1>1, <1>2, <1>3, <1>4 DEF Checks
<1> QED  BY <1>1, <1>5 DEF CheckerInv, ExactlyUtf8

\* and after each turn of its loop and at its end.
LEMMA CheckerStepOk == CheckerInv /\ CheckerNext => CheckerInv'
<1> SUFFICES ASSUME CheckerInv, CheckerNext PROVE CheckerInv'  OBVIOUS
<1>1. CASE CheckStep
  <2>1. PICK block \in Steps : checker' = checkStepImpl(checker, block) /\ expects' = ReadsAll(expects, block)
    BY <1>1 DEF CheckStep
  <2>2. verdict = "none" /\ verdict' = "none" /\ ~checker.error  BY <1>1 DEF CheckStep
  <2>3. Checks(checker, expects) /\ checker.error = FALSE  BY <2>2 DEF CheckerInv, Checks
  <2>4. block \in Seq(Byte) /\ StepBytes \in Nat /\ Len(block) = StepBytes /\ StepBytes >= 3
    BY StepsAssumption DEF Byte
  <2>5. Checks(checker', expects')  BY <2>1, <2>3, <2>4, ChecksStep
  <2> QED  BY <2>2, <2>5 DEF CheckerInv, ExactlyUtf8
<1>2. CASE Finish
  <2>1. PICK tail, last :
          /\ tail \in Tails
          /\ last = IF tail = <<>> THEN checker
                    ELSE checkStepImpl(checker, tail \o Padding(StepBytes - Len(tail)))
          /\ expects' = ReadsAll(expects, tail)
          /\ verdict' = IF errors(last) THEN "invalid" ELSE "valid"
    BY <1>2 DEF Finish
  <2>2. Checks(checker, expects)  BY <1>2 DEF Finish, CheckerInv
  <2>3. tail \in Seq(Byte) /\ Len(tail) < StepBytes /\ StepBytes \in Nat /\ StepBytes >= 3 /\ Len(tail) \in Nat
    <3>1. tail \in Seq(0..255) /\ Len(tail) < StepBytes /\ StepBytes \in Nat /\ StepBytes >= 3
      BY <2>1, StepsAssumption
    <3>2. Len(tail) \in Nat  BY <3>1, LenProperties
    <3> QED  BY <3>1, <3>2 DEF Byte
  <2>4. expects' = <<>> <=> ~errors(last)
    <3>1. CASE tail = <<>>
      <4>1. last = checker /\ expects' = expects  BY <2>1, <3>1, ReadsNothing
      <4> QED  BY <2>2, <4>1, ChecksNothing
    <3>2. CASE tail # <<>>
      <4>1. PICK k \in Nat : k = StepBytes - Len(tail) /\ k > 0 /\ Len(tail) + k = StepBytes  BY <2>3
      <4>2. PICK block : block = tail \o Padding(k)  OBVIOUS
      <4>3. last = checkStepImpl(checker, block)  BY <2>1, <3>2, <4>1, <4>2
      <4>4. CASE checker.error = TRUE
        <5>1. expects' = Bad  BY <2>1, <2>2, <2>3, <4>4, ReadsBad DEF Checks
        <5>2. last.error = TRUE  BY <4>3, <4>4, ErrorStays
        <5>3. Bad # <<>>  BY TailIs DEF Bad
        <5> QED  BY <5>1, <5>2, <5>3 DEF errors
      <4>5. CASE checker.error = FALSE
        <5>1. PICK n \in Nat : n = Len(tail) /\ n < StepBytes  BY <2>3
        <5>2. Padded(block, tail, n, StepBytes)
          <6>1. n + k = StepBytes  BY <4>1, <5>1
          <6> QED  BY <2>3, <4>1, <4>2, <5>1, <6>1, PaddingIs
        <5>3. ReadsAll(expects, block) = <<>> <=> ReadsAll(expects, tail) = <<>>
          <6>1. EndsAlike(expects, block, tail)  BY <2>2, <2>3, <4>5, <5>1, <5>2, PaddingReads
          <6> QED  BY <6>1 DEF EndsAlike
        <5>4. block \in Seq(Byte) /\ StepBytes = Len(block)  BY <5>2 DEF Padded
        <5>5. Checks(last, ReadsAll(expects, block))  BY <2>2, <2>3, <4>3, <4>5, <5>4, ChecksStep
        <5>6. ReadsAll(expects, block) = <<>> <=> ~errors(last)  BY <5>5, ChecksNothing
        <5> QED  BY <2>1, <5>3, <5>6
      <4> QED  BY <2>2, <4>4, <4>5 DEF Checks
    <3> QED  BY <3>1, <3>2
  <2>5. verdict' # "none" /\ (verdict' = "valid" <=> ~errors(last))  BY <2>1
  <2> QED  BY <2>4, <2>5 DEF CheckerInv, ExactlyUtf8
<1> QED  BY <1>1, <1>2 DEF CheckerNext

\* validateUtf8 says "valid" exactly of well-formed UTF-8.
THEOREM ExactlyUtf8Always == JsonTextSpec => []ExactlyUtf8
<1>1. JsonTextInit => CheckerInv  BY CheckerInitOk DEF JsonTextInit
<1>2. CheckerInv /\ [JsonTextNext]_allVars => CheckerInv'
  <2> SUFFICES ASSUME CheckerInv, [JsonTextNext]_allVars PROVE CheckerInv'  OBVIOUS
  <2>1. CASE Check  BY <2>1, CheckerStepOk DEF Check
  <2>2. CASE UNCHANGED checkerVars
    BY <2>2 DEF checkerVars, CheckerInv, ExactlyUtf8, Checks
  <2>3. CASE Parse \/ Serialize \/ ReadBack  BY <2>2, <2>3 DEF Parse, Serialize, ReadBack, checkerVars
  <2>4. CASE Stopped \/ UNCHANGED allVars  BY <2>2, <2>4 DEF Stopped, allVars, checkerVars
  <2> QED  BY <2>1, <2>3, <2>4 DEF JsonTextNext
<1>3. CheckerInv => ExactlyUtf8  BY DEF CheckerInv
<1> QED  BY <1>1, <1>2, <1>3, PTL DEF JsonTextSpec

---------------------------------------------------------------------------------
(* What the serializer writes is parsed in its turn. *)

\* What has been written begins with a quote, is bytes, and at the end has another quote.
WriterInv ==
  /\ value \in Seq(Byte) /\ width \in Nat /\ width > 0
  /\ read \in Nat /\ read <= Len(value)
  /\ written \in Seq(Byte) /\ Len(written) > 0
  /\ Writer!Done => Len(written) > 1

\* The bytes of a value that are written as they are.
LEMMA BytesAre ==
  ASSUME WriterInv, NEW n \in Nat, read + n <= Len(value)
  PROVE  Writer!Bytes(n) \in Seq(Byte)
<1>1. PICK r \in Nat, l \in Nat : r = read /\ l = Len(value) /\ r + n <= l
  BY LenProperties DEF WriterInv
<1>2. PICK s : s = SubSeq(value, r + 1, r + n)  OBVIOUS
<1>3. s \in Seq(Byte)
  <2>1. \A i \in (r + 1)..(r + n) : i \in 1..l  BY <1>1
  <2>2. \A i \in 1..l : value[i] \in Byte  BY <1>1, ElementOfSeq DEF WriterInv
  <2> QED  BY <1>1, <1>2, <2>1, <2>2
<1> QED  BY <1>1, <1>2, <1>3 DEF Writer!Bytes

\* What stands for a byte.
LEMMA EscapesAre == ASSUME NEW b \in Byte PROVE Writer!escapeTable(b) \in Seq(Byte)
<1> DEFINE L == DOMAIN Writer!Letters
<1>1. CASE b \in L
  <2>1. Writer!Letters[b] \in Byte  BY <1>1, SMTT(40) DEF Writer!Letters, Byte
  <2>2. PICK l \in Byte, k \in Byte : l = Writer!Letters[b] /\ k = 92
    <3>1. 92 \in Byte  BY DEF Byte
    <3> QED  BY <2>1, <3>1
  <2>3. Writer!escapeTable(b) = <<k, l>>  BY <1>1, <2>2 DEF Writer!escapeTable, Writer!Backslash
  <2> QED  BY <2>3, SMTT(40)
<1>2. CASE b \notin L /\ b \in 1..31
  <2>1. PICK h \in Byte : h = 48 + (b \div 16)
    <3>1. 48 + (b \div 16) \in 48..49  BY <1>2 DEF Byte
    <3> QED  BY <3>1 DEF Byte
  <2>2. PICK l \in Byte : l = Writer!HexDigit(b % 16)
    <3>1. PICK m \in Nibble : m = b % 16  BY Halves
    <3>2. Writer!HexDigit(m) \in Byte  BY DEF Writer!HexDigit, Nibble, Byte
    <3> QED  BY <3>1, <3>2
  <2>3. PICK k1 \in Byte, k2 \in Byte, k3 \in Byte : k1 = 92 /\ k2 = 117 /\ k3 = 48
    <3>1. 92 \in Byte /\ 117 \in Byte /\ 48 \in Byte  BY DEF Byte
    <3> QED  BY <3>1
  <2>4. Writer!escapeTable(b) = <<k1, k2, k3, k3, h, l>>
    <3>1. ~(b \in DOMAIN Writer!Letters) /\ b \in 1..31 \ DOMAIN Writer!Letters  BY <1>2
    <3> QED  BY <2>1, <2>2, <2>3, <3>1 DEF Writer!escapeTable, Writer!Backslash
  <2>5. <<k1, k2, k3, k3, h, l>> \in Seq(Byte)  OBVIOUS
  <2> QED  BY <2>4, <2>5
<1>3. CASE b \notin L /\ b \notin 1..31
  <2>1. ~(b \in DOMAIN Writer!Letters) /\ ~(b \in 1..31 \ DOMAIN Writer!Letters)  BY <1>3
  <2>2. Writer!escapeTable(b) = <<>>  BY <2>1 DEF Writer!escapeTable
  <2> QED  BY <2>2
<1> QED  BY <1>1, <1>2, <1>3

\* A register before the end of the value, and the bytes of it that are plain.
LEMMA WriterPlain ==
  ASSUME WriterInv, Writer!InRegisters
  PROVE  \E w \in Nat, l \in Nat :
            /\ w = Widths[width] /\ l = Len(value) /\ read + w < l
            /\ Writer!Plain \in Int /\ Writer!Plain < w
<1>1. PICK w \in Nat : w = Widths[width] /\ w >= 3
  <2>1. width \in Nat /\ width > 0 /\ width <= Len(Widths)  BY DEF WriterInv, Writer!InRegisters
  <2>2. width \in DOMAIN Widths  BY <2>1, WidthsAssumption, LenProperties
  <2> QED  BY <2>2, WidthsAssumption
<1>2. PICK r \in Nat, l \in Nat : r = read /\ l = Len(value) /\ r + w < l
  <2>1. value \in Seq(Byte) /\ read \in Nat  BY DEF WriterInv
  <2>2. PICK l \in Nat : l = Len(value)  BY <2>1, LenProperties
  <2> QED  BY <1>1, <2>1, <2>2 DEF Writer!InRegisters
<1>3. PICK s : s = Writer!Bytes(w)  OBVIOUS
<1>4. Len(s) = w
  <2>1. SubSeq(value, r + 1, r + w) = s  BY <1>2, <1>3 DEF Writer!Bytes
  <2>2. r + 1 \in 1..(l + 1) /\ r + w \in ((r + 1) - 1)..l /\ (r + w) - (r + 1) + 1 = w  BY <1>2
  <2> QED  BY <1>2, <2>1, <2>2, SubSeqProperties DEF WriterInv
<1>5. PICK I : I = {k \in 1..w : s[k] < 32 \/ s[k] \in {34, 92}}  OBVIOUS
<1>6. Writer!Plain = (IF I # {} THEN Writer!Min(I) ELSE 0) - 1
  BY <1>1, <1>3, <1>4, <1>5 DEF Writer!Plain, Writer!SelectInSeq, Writer!Quote, Writer!Backslash
<1> SUFFICES Writer!Plain \in Int /\ Writer!Plain < w  BY <1>1, <1>2
<1>7. CASE I = {}
  <2>1. Writer!Plain = 0 - 1  BY <1>6, <1>7
  <2> QED  BY <1>1, <2>1
<1>8. CASE I # {}
  <2>1. PICK m \in 1..w : m = Writer!Min(I)
    <3>1. I \subseteq Nat /\ I \subseteq 1..w  BY <1>5
    <3>2. \E x \in I : \A y \in I : x <= y  BY <1>8, <3>1, LeastNat
    <3>3. Writer!Min(I) \in I  BY <3>2 DEF Writer!Min
    <3> QED  BY <3>1, <3>3
  <2>2. Writer!Plain = m - 1  BY <1>6, <1>8, <2>1
  <2> QED  BY <2>1, <2>2
<1> QED  BY <1>7, <1>8

\* What is appended is longer.
LEMMA Grows ==
  ASSUME NEW a \in Seq(Byte), Len(a) > 0, NEW b \in Seq(Byte)
  PROVE  a \o b \in Seq(Byte) /\ Len(a \o b) > 0 /\ (Len(b) > 0 => Len(a \o b) > 1)
<1>1. PICK m \in Nat, n \in Nat : m = Len(a) /\ n = Len(b)  BY LenProperties
<1>2. a \o b \in Seq(Byte) /\ Len(a \o b) = m + n  BY <1>1, ConcatProperties
<1> QED  BY <1>1, <1>2

\* Every action of the writer keeps it.
LEMMA WriterStep == WriterInv /\ Writer!Next => WriterInv'
<1> SUFFICES ASSUME WriterInv, Writer!Next PROVE WriterInv'  OBVIOUS
<1>1. PICK r \in Nat, l \in Nat, d \in Nat, z \in Nat :
        r = read /\ l = Len(value) /\ d = width /\ z = Len(Widths) /\ r <= l /\ d > 0
  <2>1. Len(value) \in Nat /\ Len(Widths) \in Nat  BY WidthsAssumption, LenProperties DEF WriterInv
  <2> QED  BY <2>1 DEF WriterInv
<1>2. value \in Seq(Byte) /\ written \in Seq(Byte) /\ Len(written) > 0  BY DEF WriterInv
<1>3. \A i \in 1..l : value[i] \in Byte  BY <1>1, <1>2, ElementOfSeq
<1>4. Writer!Done' <=> width' = z + 2  BY <1>1 DEF Writer!Done
<1>5. CASE Writer!WriteRegister
  <2>1. PICK w \in Nat : w = Widths[width] /\ r + w < l
    <3>1. Writer!InRegisters  BY <1>5 DEF Writer!WriteRegister
    <3> QED  BY <1>1, <3>1, WriterPlain
  <2>2. read' = r + w /\ written' = written \o Writer!Bytes(w) /\ value' = value /\ width' = d /\ d <= z
    BY <1>1, <1>5, <2>1 DEF Writer!WriteRegister, Writer!InRegisters
  <2>3. Writer!Bytes(w) \in Seq(Byte)  BY <1>1, <2>1, BytesAre
  <2>4. written' \in Seq(Byte) /\ Len(written') > 0  BY <1>2, <2>2, <2>3, Grows
  <2>5. ~Writer!Done'  BY <1>1, <1>4, <2>2
  <2>6. read' \in Nat /\ read' <= Len(value')  BY <1>1, <2>1, <2>2
  <2> QED  BY <1>1, <1>2, <2>2, <2>4, <2>5, <2>6 DEF WriterInv
<1>6. CASE Writer!WriteEscape
  <2>1. PICK w \in Nat, k \in Nat : k = Writer!Plain /\ k < w /\ r + w < l
    <3>1. Writer!InRegisters /\ Writer!Plain >= 0  BY <1>6 DEF Writer!WriteEscape
    <3>2. PICK w \in Nat, n \in Nat : n = Len(value) /\ read + w < n /\ Writer!Plain \in Int /\ Writer!Plain < w
      BY <3>1, WriterPlain
    <3>3. Writer!Plain \in Nat  BY <3>1, <3>2
    <3> QED  BY <1>1, <3>2, <3>3
  <2>2. /\ read' = r + k + 1 /\ value' = value /\ width' = d /\ d <= z
        /\ written' = written \o Writer!Bytes(k) \o Writer!escapeTable(value[r + k + 1])
    BY <1>1, <1>6, <2>1 DEF Writer!WriteEscape, Writer!InRegisters
  <2>3. Writer!Bytes(k) \in Seq(Byte)  BY <1>1, <2>1, BytesAre
  <2>4. Writer!escapeTable(value[r + k + 1]) \in Seq(Byte)
    <3>1. r + k + 1 \in 1..l  BY <2>1
    <3> QED  BY <1>3, <3>1, EscapesAre
  <2>5. PICK a \in Seq(Byte) : a = written \o Writer!Bytes(k) /\ Len(a) > 0  BY <1>2, <2>3, Grows
  <2>6. written' \in Seq(Byte) /\ Len(written') > 0  BY <2>2, <2>4, <2>5, Grows
  <2>7. ~Writer!Done'  BY <1>1, <1>4, <2>2
  <2>8. read' \in Nat /\ read' <= Len(value')  BY <1>1, <2>1, <2>2
  <2> QED  BY <1>1, <1>2, <2>2, <2>6, <2>7, <2>8 DEF WriterInv
<1>7. CASE Writer!NextWidth
  <2>1. width' = d + 1 /\ d <= z /\ UNCHANGED <<value, read, written>>  BY <1>1, <1>7 DEF Writer!NextWidth
  <2>2. ~Writer!Done' /\ width' \in Nat /\ width' > 0  BY <1>1, <1>4, <2>1
  <2> QED  BY <2>1, <2>2 DEF WriterInv
<1>8. CASE Writer!WriteByte
  <2>1. r < l /\ width' = d /\ d = z + 1 /\ value' = value /\ read' = r + 1  BY <1>1, <1>8 DEF Writer!WriteByte
  <2>2. PICK b \in Byte : b = value[read + 1]
    <3>1. r + 1 \in 1..l  BY <2>1
    <3> QED  BY <1>1, <1>3, <3>1
  <2>3. PICK bytes \in Seq(Byte) : written' = written \o bytes
    <3>2. <<b>> \in Seq(Byte) /\ Writer!escapeTable(b) \in Seq(Byte)  BY EscapesAre
    <3>3. written' = written \o (IF Writer!escapeTable(b) = <<>> THEN <<b>> ELSE Writer!escapeTable(b))
      BY <1>8, <2>2 DEF Writer!WriteByte
    <3> QED  BY <3>2, <3>3
  <2>4. written' \in Seq(Byte) /\ Len(written') > 0  BY <1>2, <2>3, Grows
  <2>5. ~Writer!Done' /\ read' \in Nat /\ read' <= Len(value')  BY <1>1, <1>4, <2>1
  <2> QED  BY <1>1, <1>2, <2>1, <2>4, <2>5 DEF WriterInv
<1>9. CASE Writer!CloseString
  <2>1. width' = d + 1 /\ UNCHANGED <<value, read>> /\ written' = Append(written, 34)
    BY <1>1, <1>9 DEF Writer!CloseString, Writer!Quote
  <2>2. written' \in Seq(Byte) /\ Len(written') > 1
    <3>1. PICK m \in Nat : m = Len(written) /\ m > 0  BY <1>2, LenProperties
    <3>2. PICK q \in Byte : q = 34
      <4>1. 34 \in Byte  BY DEF Byte
      <4> QED  BY <4>1
    <3>3. Append(written, q) \in Seq(Byte) /\ Len(Append(written, q)) = m + 1  BY <1>2, <3>1, AppendProperties
    <3> QED  BY <2>1, <3>1, <3>2, <3>3
  <2>3. width' \in Nat /\ width' > 0 /\ Len(written') > 0  BY <2>1, <2>2
  <2> QED  BY <1>1, <1>2, <2>1, <2>2, <2>3 DEF WriterInv
<1> QED  BY <1>5, <1>6, <1>7, <1>8, <1>9 DEF Writer!Next

\* What was written is parsed from its second byte on.
LEMMA ReadBackText ==
  ASSUME WriterInv, Writer!Done, NEW rest \in Rests
  PROVE  Tail(written) \o rest \in Seq(Byte) /\ Tail(written) \o rest # <<>>
<1>1. PICK t \in Seq(Byte) : t = Tail(written) /\ Len(t) > 0
  <2>1. written \in Seq(Byte) /\ Len(written) > 1  BY DEF WriterInv
  <2>2. PICK m \in Nat : m = Len(written) /\ m > 1  BY <2>1, LenProperties
  <2>3. written # <<>>  BY <2>1, EmptySeq
  <2>4. Tail(written) \in Seq(Byte) /\ Len(Tail(written)) = m - 1  BY <2>1, <2>2, <2>3, HeadTailProperties
  <2>5. PICK t : t = Tail(written) /\ t \in Seq(Byte) /\ Len(t) = m - 1  BY <2>4
  <2> QED  BY <2>2, <2>5
<1>2. rest \in Seq(Byte)  BY ValuesAssumption DEF Byte
<1>3. t \o rest \in Seq(Byte) /\ Len(t \o rest) > 0  BY <1>1, <1>2, Grows
<1>4. t \o rest # <<>>  BY <1>3, EmptySeq
<1> QED  BY <1>1, <1>3, <1>4

\* The parser is in its document, which is empty as long as the writer works.
TextsInv == text \in Seq(Byte) /\ InDocument /\ (phase = "serialize" => WriterInv /\ text = <<>>)

\* A parser that has not been called has read nothing.
LEMMA IdleIs == IdleParser => InDocument /\ text \in Seq(Byte)
<1> SUFFICES ASSUME IdleParser PROVE InDocument /\ text \in Seq(Byte)  OBVIOUS
<1>1. text = <<>> /\ step = 1 /\ src = 0 /\ out = <<>> /\ stored = 0  BY DEF IdleParser
<1>2. text \in Seq(Nat) /\ text \in Seq(Byte) /\ SourceEnd = 0  BY <1>1, EmptySeq DEF SourceEnd
<1>3. out \in Seq(Int) /\ Len(out) = 0  BY <1>1, EmptySeq
<1> QED  BY <1>1, <1>2, <1>3 DEF InDocument

\* It holds at first,
LEMMA TextsInit == JsonTextInit => TextsInv
<1> SUFFICES ASSUME JsonTextInit PROVE TextsInv  OBVIOUS
<1>1. CASE phase = "check" /\ IdleParser  BY <1>1, IdleIs DEF TextsInv
<1>2. CASE phase = "parse" /\ Init
  <2>1. text \in Seq(Byte)  BY <1>2, TextsAssumption DEF Init, Byte
  <2> QED  BY <1>2, <2>1, InDocumentInit DEF TextsInv
<1>3. CASE phase = "serialize" /\ Writer!Init /\ IdleParser
  <2>1. value \in Seq(Byte)
    <3>1. value \in Values  BY <1>3 DEF Writer!Init
    <3> QED  BY <3>1, ValuesAssumption DEF Byte
  <2>2. PICK l \in Nat : l = Len(value)  BY <2>1, LenProperties
  <2>3. width = 1 /\ read = 0 /\ written = <<34>>  BY <1>3 DEF Writer!Init, Writer!Quote
  <2>4. written \in Seq(Byte) /\ Len(written) = 1
    <3>1. 34 \in Byte  BY DEF Byte
    <3> QED  BY <2>3, <3>1
  <2>5. ~Writer!Done
    <3>1. PICK z \in Nat : z = Len(Widths)  BY WidthsAssumption, LenProperties
    <3> QED  BY <2>3, <3>1 DEF Writer!Done
  <2>6. WriterInv  BY <2>1, <2>2, <2>3, <2>4, <2>5 DEF WriterInv
  <2> QED  BY <1>3, <2>6, IdleIs DEF TextsInv, IdleParser
<1> QED  BY <1>1, <1>2, <1>3 DEF JsonTextInit

\* The parser does not change its document.
LEMMA TextStays == Next => text' = text
BY DEF Next, CloseQuote, TakeEscape, TakeRegister, NextWidth, CloseQuoteInTail, TakeEscapeInTail, TakeByteInTail

\* What each turn of a loop of the parser does.
Turn == text' # text \/ src' > src \/ step' > step \/ answer' # "none"

\* and every step keeps it; one that changes what the parser has read gets on.
LEMMA TextsStep == TextsInv /\ [JsonTextNext]_allVars => TextsInv' /\ [Turn]_vars
<1> SUFFICES ASSUME TextsInv, [JsonTextNext]_allVars PROVE TextsInv' /\ [Turn]_vars  OBVIOUS
<1>1. ASSUME UNCHANGED vars PROVE text' \in Seq(Byte) /\ InDocument' /\ [Turn]_vars
  BY <1>1 DEF vars, TextsInv, InDocument, SourceEnd
<1>2. CASE Check
  <2>1. UNCHANGED vars /\ phase = "check" /\ phase' = "check"  BY <1>2 DEF Check, parserVars
  <2> QED  BY <1>1, <2>1 DEF TextsInv
<1>3. CASE Parse
  <2>1. phase = "parse" /\ phase' = "parse" /\ Next  BY <1>3 DEF Parse
  <2>2. InDocument' /\ Advances  BY <2>1, InDocumentStep DEF TextsInv
  <2>3. text' = text  BY <2>1, TextStays
  <2> QED  BY <2>1, <2>2, <2>3 DEF TextsInv, Turn, Advances
<1>4. CASE Serialize
  <2>1. UNCHANGED vars /\ phase = "serialize" /\ Writer!Next  BY <1>4 DEF Serialize, parserVars
  <2>2. WriterInv' /\ text' = text  BY <2>1, WriterStep DEF TextsInv, vars
  <2> QED  BY <1>1, <2>1, <2>2 DEF TextsInv
<1>5. CASE ReadBack
  <2>1. /\ phase = "serialize" /\ phase' = "parse" /\ Writer!Done
        /\ \E rest \in Rests : text' = Tail(written) \o rest
        /\ UNCHANGED <<step, src, out, stored>>
    BY <1>5 DEF ReadBack
  <2>2. WriterInv /\ text = <<>>  BY <2>1 DEF TextsInv
  <2>3. text' \in Seq(Byte) /\ text' # <<>>  BY <2>1, <2>2, ReadBackText
  <2>4. Turn  BY <2>2, <2>3 DEF Turn
  <2>5. InDocument'
    <3>1. SourceEnd = 0 /\ src \in Nat /\ src = 0 /\ stored \in Nat /\ stored <= 1
      <4>1. SourceEnd = 0  BY <2>2, EmptySeq DEF SourceEnd
      <4> QED  BY <4>1 DEF TextsInv, InDocument
    <3>2. PICK l \in Nat : l = Len(text')  BY <2>3, LenProperties
    <3>3. text' \in Seq(Nat)
      <4>1. Byte \subseteq Nat  BY DEF Byte
      <4> QED  BY <2>3, <4>1, SeqMonotonic
    <3> QED  BY <2>1, <2>3, <3>1, <3>2, <3>3 DEF TextsInv, InDocument, SourceEnd
  <2> QED  BY <2>1, <2>3, <2>4, <2>5 DEF TextsInv
<1>6. CASE UNCHANGED allVars
  <2>1. UNCHANGED vars /\ phase' = phase  BY <1>6 DEF allVars, parserVars
  <2>2. WriterInv => WriterInv'  BY <1>6 DEF allVars, serializerVars, WriterInv, Writer!Done
  <2> QED  BY <1>1, <2>1, <2>2 DEF TextsInv, vars
<1> QED  BY <1>2, <1>3, <1>4, <1>5, <1>6 DEF JsonTextNext, Stopped

\* BufferFits holds for every text, option and list of register widths: string_parser
\* never stores past a buffer that is as long as the document, be the document given
\* or written by string_serializer.
THEOREM BufferFitsAlways == JsonTextSpec => []BufferFits
<1>1. TextsInv => BufferFits  BY DEF TextsInv, InDocument, BufferFits
<1> QED  BY <1>1, TextsInit, TextsStep, PTL DEF JsonTextSpec

\* EveryTurnAdvances holds, too: no loop of string_parser turns without taking a
\* byte, going on to the next width, or answering.
THEOREM EveryTurnAdvancesAlways == JsonTextSpec => EveryTurnAdvances
<1>1. TextsInv /\ [JsonTextNext]_allVars
      => [text' # text \/ src' > src \/ step' > step \/ answer' # "none"]_vars
  BY TextsStep DEF Turn
<1> QED  BY <1>1, TextsInit, TextsStep, PTL DEF JsonTextSpec, EveryTurnAdvances

---------------------------------------------------------------------------------
\* The digits of \\u.
LEMMA HexDigit ==
  ASSUME NEW b \in DOMAIN Hex PROVE Hex[b] \in 0..15 /\ b # 0 /\ b \in Int
<1>1. b \in (48..57) \cup (65..70) \cup (97..102)  BY DEF Hex
<1> QED  BY <1>1 DEF Hex

\* What they name, and where they stand.
UnitAt(i) ==
  /\ FourHex(i + 2) => /\ hexToU32NoCheck(i + 2) = Unit(i) /\ Unit(i) \in Nat /\ Unit(i) <= 65535
                       /\ i + 6 <= SourceEnd
  /\ ~FourHex(i + 2) /\ ~StrayDigits(i + 2) => hexToU32NoCheck(i + 2) = -1

\* What is read for a byte that does not look like a digit.
LEMMA NoDigit ==
  ASSUME NEW j, NEW place \in 0..3, ~LooksHex(j, place), NEW unit \in {4096, 256, 16, 1}, unit = 1 <=> place = 3
  PROVE  digitToVal32(unit, At(j)) = Invalid
<1>1. PICK b : b = At(j)  OBVIOUS
<1>2. b \notin DOMAIN Hex  BY <1>1 DEF LooksHex
<1>3. CASE place = 3
  <2>1. unit = 1 /\ b \notin 128..255  BY <1>1, <1>3 DEF LooksHex
  <2> QED  BY <1>1, <1>2, <2>1 DEF digitToVal32
<1>4. CASE place # 3
  <2>1. unit # 1 /\ b \notin 143..148  BY <1>1, <1>4 DEF LooksHex
  <2> QED  BY <1>1, <1>2, <2>1 DEF digitToVal32
<1> QED  BY <1>3, <1>4

\* Four bytes that are no digits, nor look like it.
LEMMA NoDigits ==
  ASSUME NEW j \in Nat, ~FourHex(j), ~StrayDigits(j) PROVE hexToU32NoCheck(j) = -1
<1>1. PICK a, b, c, d : /\ a = digitToVal32(4096, At(j)) /\ b = digitToVal32(256, At(j + 1))
                        /\ c = digitToVal32(16, At(j + 2)) /\ d = digitToVal32(1, At(j + 3))
  OBVIOUS
<1>2. PICK place \in 0..3 : ~LooksHex(j + place, place)  BY DEF StrayDigits
<1>3. Invalid \in {a, b, c, d}
  <2>1. CASE place = 0
    <3>1. ~LooksHex(j, place) /\ 4096 # 1 /\ place # 3  BY <1>2, <2>1
    <3> QED  BY <1>1, <3>1, NoDigit
  <2>2. CASE place = 1
    <3>1. ~LooksHex(j + 1, place) /\ 256 # 1 /\ place # 3  BY <1>2, <2>2
    <3> QED  BY <1>1, <3>1, NoDigit
  <2>3. CASE place = 2
    <3>1. ~LooksHex(j + 2, place) /\ 16 # 1 /\ place # 3  BY <1>2, <2>3
    <3> QED  BY <1>1, <3>1, NoDigit
  <2>4. CASE place = 3
    <3>1. ~LooksHex(j + 3, place)  BY <1>2, <2>4
    <3> QED  BY <1>1, <2>4, <3>1, NoDigit
  <2> QED  BY <2>1, <2>2, <2>3, <2>4
<1>4. hexToU32NoCheck(j) = Invalid  BY <1>1, <1>3 DEF hexToU32NoCheck, FourHex
<1> QED  BY <1>4 DEF Invalid

\* That is so of every place.
LEMMA UnitIs == ASSUME text \in Seq(Nat), NEW i \in Nat PROVE UnitAt(i)
<1>1. PICK j \in Nat : j = i + 2  OBVIOUS
<1>2. CASE FourHex(j)
  <2>1. \A k \in j..(j + 3) : At(k) \in DOMAIN Hex  BY <1>2 DEF FourHex
  <2>2. j \in j..(j + 3) /\ j + 1 \in j..(j + 3) /\ j + 2 \in j..(j + 3) /\ j + 3 \in j..(j + 3)  OBVIOUS
  <2>3. /\ At(j) \in DOMAIN Hex /\ At(j + 1) \in DOMAIN Hex /\ At(j + 2) \in DOMAIN Hex
        /\ At(j + 3) \in DOMAIN Hex
    BY <2>1, <2>2, SMTT(40)
  <2>4. PICK a \in 0..15, b \in 0..15, c \in 0..15, d \in 0..15 :
          a = Hex[At(j)] /\ b = Hex[At(j + 1)] /\ c = Hex[At(j + 2)] /\ d = Hex[At(j + 3)]
    BY <2>3, HexDigit
  <2>5. hexToU32NoCheck(j) = a * 4096 + b * 256 + c * 16 + d
    <3>1. /\ digitToVal32(4096, At(j)) = a * 4096 /\ digitToVal32(256, At(j + 1)) = b * 256
          /\ digitToVal32(16, At(j + 2)) = c * 16 /\ digitToVal32(1, At(j + 3)) = d * 1
      BY <2>3, <2>4 DEF digitToVal32
    <3>2. d * 1 = d  OBVIOUS
    <3>3. hexToU32NoCheck(j) = digitToVal32(4096, At(j)) + digitToVal32(256, At(j + 1))
                               + digitToVal32(16, At(j + 2)) + digitToVal32(1, At(j + 3))
      BY <2>1, Zenon DEF hexToU32NoCheck
    <3> QED  BY <3>1, <3>2, <3>3
  <2>6. Unit(i) = ((a * 16 + b) * 16 + c) * 16 + d
    <3>1. j + 1 = i + 3 /\ j + 2 = i + 4 /\ j + 3 = i + 5  BY <1>1
    <3> QED  BY <1>1, <2>4, <3>1 DEF Unit
  <2>7. hexToU32NoCheck(j) = Unit(i) /\ Unit(i) \in Nat /\ Unit(i) <= 65535  BY <2>5, <2>6
  <2>8. i + 6 <= SourceEnd
    <3>1. PICK k \in Nat : k = j + 3  OBVIOUS
    <3>2. At(k) # 0  BY <2>3, <3>1, HexDigit
    <3>3. PICK z \in Nat : z = SourceEnd  BY AtIs
    <3>4. k < z  BY <3>2, <3>3, AtIs
    <3> QED  BY <1>1, <3>1, <3>3, <3>4
  <2> QED  BY <1>1, <1>2, <2>7, <2>8 DEF UnitAt
<1>3. CASE ~FourHex(j)
  <2>1. ~StrayDigits(j) => hexToU32NoCheck(j) = -1  BY <1>3, NoDigits
  <2> QED  BY <1>1, <1>3, <2>1 DEF UnitAt
<1> QED  BY <1>1, <1>2, <1>3

\* A code point is written by Table 3-6, and not as nothing.
LEMMA Utf8Is ==
  ASSUME NEW cp \in Nat, cp <= 1114111
  PROVE  codePointToUtf8(cp) = Utf8Of(cp) /\ Utf8Of(cp) # <<>>
<1>1. \A k \in {64, 4096, 262144} : \A m \in Int : Lead(m, cp, k) = m + (cp \div k)  BY SMT DEF Lead
<1>2. /\ Continuation(cp, 1) = Six(cp) /\ Continuation(cp, 64) = Six(cp \div 64)
      /\ Continuation(cp, 4096) = Six(cp \div 4096)
  <2>1. cp \div 1 = cp  BY SMT
  <2> QED  BY <2>1, SMT DEF Continuation, Six
<1>3. cp \in CodePoints  BY SMT DEF CodePoints
<1>4. CASE cp < 128
  <2>1. codePointToUtf8(cp) = <<cp>>  BY <1>3, <1>4, SMT DEF codePointToUtf8
  <2>2. Utf8Of(cp) = <<cp>>  BY <1>4, SMT DEF Utf8Of
  <2> QED  BY <2>1, <2>2, TailIs, SMT
<1>5. CASE 128 <= cp /\ cp < 2048
  <2>1. PICK l, a : l = 192 + (cp \div 64) /\ a = Six(cp)  BY SMT
  <2>2. ~(cp <= 127) /\ cp <= 2047 /\ ~(cp < 128)  BY <1>5, SMT
  <2>3. Lead(192, cp, 64) = l  BY <1>1, <2>1, SMT
  <2>4. codePointToUtf8(cp) = <<l, a>>  BY <1>2, <1>3, <2>1, <2>2, <2>3, SMT DEF codePointToUtf8
  <2>5. Utf8Of(cp) = <<l, a>>  BY <1>5, <2>1, <2>2, SMT DEF Utf8Of
  <2>6. <<l, a>> # <<>>  BY TailIs, SMT
  <2> QED  BY <2>4, <2>5, <2>6, SMT
<1>6. CASE 2048 <= cp /\ cp < 65536
  <2>1. PICK l, a, b : l = 224 + (cp \div 4096) /\ a = Six(cp) /\ b = Six(cp \div 64)  BY SMT
  <2>2. ~(cp <= 127) /\ ~(cp <= 2047) /\ cp <= 65535 /\ ~(cp < 128) /\ ~(cp < 2048)  BY <1>6, SMT
  <2>3. Lead(224, cp, 4096) = l  BY <1>1, <2>1, SMT
  <2>4. codePointToUtf8(cp) = <<l, b, a>>  BY <1>2, <1>3, <2>1, <2>2, <2>3, SMT DEF codePointToUtf8
  <2>5. Utf8Of(cp) = <<l, b, a>>  BY <1>6, <2>1, <2>2, SMT DEF Utf8Of
  <2>6. <<l, b, a>> # <<>>  BY TailIs, SMT
  <2> QED  BY <2>4, <2>5, <2>6, SMT
<1>7. CASE 65536 <= cp
  <2>1. PICK l, a, b, c :
          l = 240 + (cp \div 262144) /\ a = Six(cp) /\ b = Six(cp \div 64) /\ c = Six(cp \div 4096)
    BY SMT
  <2>2. /\ ~(cp <= 127) /\ ~(cp <= 2047) /\ ~(cp <= 65535)
        /\ ~(cp < 128) /\ ~(cp < 2048) /\ ~(cp < 65536)
    BY <1>7, SMT
  <2>3. Lead(240, cp, 262144) = l  BY <1>1, <2>1, SMT
  <2>4. codePointToUtf8(cp) = <<l, c, b, a>>  BY <1>2, <1>3, <2>1, <2>2, <2>3, SMT DEF codePointToUtf8
  <2>5. Utf8Of(cp) = <<l, c, b, a>>  BY <2>1, <2>2, SMT DEF Utf8Of
  <2>6. <<l, c, b, a>> # <<>>  BY SMT
  <2> QED  BY <2>4, <2>5, <2>6, SMT
<1> QED  BY <1>4, <1>5, <1>6, <1>7, SMT

\* The halves of surrogate pairs.
LEMMA SurrogatesAre ==
  /\ HighSurrogates \cap LowSurrogates = {} /\ -1 \notin HighSurrogates /\ -1 \notin LowSurrogates
  /\ \A n \in HighSurrogates : \E h \in Nat : h <= 1023 /\ n = 55296 + h
  /\ \A n \in LowSurrogates : \E l \in Nat : l <= 1023 /\ n = 56320 + l
BY SMT DEF HighSurrogates, LowSurrogates

\* An escape stands for its character, and what is none is refused, unless it
\* is a stray one.
LEMMA UnicodeIsChar ==
  ASSUME text \in Seq(Nat), NEW i \in Nat, At(i) = Backslash, At(i + 1) = u
  PROVE  CharAt(i) = handleUnicodeCodePoint(i) \/ (IsStray(i) /\ CharAt(i) = NoChar)
<1>1. PICK z \in Nat : z = SourceEnd /\ i < z
  <2>1. At(i) # 0  BY SMT DEF Backslash
  <2> QED  BY <2>1, AtIs, SMT
<1>2. PICK c, e : c = CharAt(i) /\ e = handleUnicodeCodePoint(i)  BY SMT
<1>3. PICK j \in Nat : j = i + 6 /\ j + 2 = i + 8 /\ j + 1 = i + 7 /\ j + 6 = i + 12 BY SMT
<1>4. PICK cp, low : cp = hexToU32NoCheck(i + 2) /\ low = hexToU32NoCheck(j + 2)  BY SMT
<1>5. At(i + 1) \notin DOMAIN ShortEscape  BY SMT DEF u, ShortEscape
<1>6. e = IF i + 6 > z \/ cp \in LowSurrogates THEN Refused
          ELSE IF cp \notin HighSurrogates THEN Escape(6, codePointToUtf8(cp))
          ELSE IF LowFollows(i, low)
          THEN Escape(12, codePointToUtf8(65536 + (cp - 55296) * 1024 + (low - 56320)))
          ELSE Refused
  BY <1>1, <1>2, <1>3, <1>4, SMT DEF handleUnicodeCodePoint
<1>7. ~(i >= SourceEnd) /\ ~(At(i) # Backslash)  BY <1>1, SMT
<1>8. IsUnicode(i) <=> FourHex(i + 2)  BY SMT DEF IsUnicode
<1>9. NoChar = Refused  BY SMT DEF NoChar, Char, Refused
<1>12. UnitAt(i) /\ UnitAt(j)  BY <1>3, UnitIs, SMT
<1>13. CASE StrayDigits(i + 2)
  <2>1. ~IsUnicode(i) /\ ~IsHigh(i)  BY <1>8, <1>13, SMT DEF IsHigh, StrayDigits
  <2>2. c = NoChar  BY <1>2, <1>5, <1>7, <2>1, SMT DEF CharAt
  <2>3. IsStray(i)  BY <1>13, SMT DEF IsStray
  <2> QED  BY <1>2, <2>2, <2>3, SMT
<1>10. CASE ~FourHex(i + 2) /\ ~StrayDigits(i + 2)
  <2>1. cp = -1  BY <1>4, <1>10, <1>12, SMT DEF UnitAt
  <2>2. codePointToUtf8(cp) = <<>>  BY <2>1, SMT DEF codePointToUtf8, CodePoints
  <2>3. e = Refused
    <3>1. cp \notin LowSurrogates /\ cp \notin HighSurrogates  BY <2>1, SurrogatesAre, SMT
    <3>2. Escape(6, codePointToUtf8(cp)) = Refused  BY <2>2, SMT DEF Escape
    <3> QED  BY <1>6, <3>1, <3>2, SMT
  <2>4. ~IsUnicode(i) /\ ~IsHigh(i)  BY <1>8, <1>10, SMT DEF IsHigh
  <2>5. c = NoChar  BY <1>2, <1>5, <1>7, <2>4, SMT DEF CharAt
  <2> QED  BY <1>2, <1>9, <2>3, <2>5, SMT
<1>11. CASE FourHex(i + 2)
  <2>1. cp \in Nat /\ cp <= 65535 /\ cp = Unit(i) /\ i + 6 <= z  BY <1>1, <1>4, <1>11, <1>12, SMT DEF UnitAt
  <2>2. /\ IsHigh(i) <=> cp \in HighSurrogates
        /\ IsLow(i) <=> cp \in LowSurrogates
        /\ IsUnicode(i)
    BY <1>8, <1>11, <2>1, SMT DEF IsHigh, IsLow, HighSurrogates, LowSurrogates
  <2>3. ~(i + 6 > z)  BY <2>1, SMT
  <2>4. CASE cp \in LowSurrogates
    <3>1. e = Refused  BY <1>6, <2>4, SMT
    <3>2. ~IsHigh(i) /\ IsLow(i)  BY <2>2, <2>4, SurrogatesAre, SMT
    <3>3. c = NoChar  BY <1>2, <1>5, <1>7, <3>2, SMT DEF CharAt
    <3> QED  BY <1>2, <1>9, <3>1, <3>3, SMT
  <2>5. CASE cp \notin LowSurrogates /\ cp \notin HighSurrogates
    <3>1. codePointToUtf8(cp) = Utf8Of(cp) /\ Utf8Of(cp) # <<>>
      <4>1. cp \in Nat /\ cp <= 1114111  BY <2>1, SMT
      <4> QED  BY <4>1, Utf8Is, SMT
    <3>2. e = Escape(6, codePointToUtf8(cp))  BY <1>6, <2>3, <2>5, SMT
    <3>3. e = Char(6, Utf8Of(cp))  BY <3>1, <3>2, SMT DEF Escape, Char
    <3>4. ~IsHigh(i) /\ ~IsLow(i) /\ IsUnicode(i)  BY <2>2, <2>5, SMT
    <3>5. c = Char(6, Utf8Of(Unit(i)))  BY <1>2, <1>5, <1>7, <3>4, SMT DEF CharAt
    <3> QED  BY <1>2, <2>1, <3>3, <3>5, SMT
  <2>6. CASE cp \in HighSurrogates
    <3>1. cp \notin LowSurrogates  BY <2>6, SurrogatesAre, SMT
    <3>2. e = IF LowFollows(i, low)
              THEN Escape(12, codePointToUtf8(65536 + (cp - 55296) * 1024 + (low - 56320))) ELSE Refused
      BY <1>6, <2>3, <2>6, <3>1, SMT
    <3>3. IsHigh(i)  BY <2>2, <2>6, SMT
    <3>4. IsLow(j) <=> At(j) = Backslash /\ At(j + 1) = u /\ FourHex(j + 2) /\ Unit(j) \in LowSurrogates
      BY SMT DEF IsLow, IsUnicode, LowSurrogates
    <3>8. CASE At(j) = Backslash /\ At(j + 1) = u /\ StrayDigits(j + 2)
      <4>1. ~IsLow(i + 6)  BY <1>3, <3>4, <3>8, SMT DEF StrayDigits
      <4>2. c = NoChar  BY <1>2, <1>5, <1>7, <3>3, <4>1, SMT DEF CharAt
      <4>3. At(i + 6) = Backslash /\ At(i + 7) = u /\ StrayDigits(i + 8)  BY <1>3, <3>8, SMT
      <4>4. IsStray(i)  BY <3>3, <4>3, SMT DEF IsStray
      <4> QED  BY <1>2, <4>2, <4>4, SMT
    <3>5. ASSUME ~(At(j) = Backslash /\ At(j + 1) = u /\ StrayDigits(j + 2))
          PROVE  LowFollows(i, low) <=> IsLow(j)
      <4>1. LowFollows(i, low) <=> j + 6 <= z /\ At(j) = Backslash /\ At(j + 1) = u /\ low \in LowSurrogates
        BY <1>1, <1>3, SMT DEF LowFollows
      <4>2. CASE FourHex(j + 2)
        <5>1. low = Unit(j) /\ j + 6 <= z  BY <1>1, <1>4, <1>12, <4>2, SMT DEF UnitAt
        <5> QED  BY <3>4, <4>1, <4>2, <5>1, SMT
      <4>3. CASE ~FourHex(j + 2)
        <5>1. CASE StrayDigits(j + 2)  BY <3>4, <3>5, <4>1, <4>3, <5>1, SMT
        <5>2. CASE ~StrayDigits(j + 2)
          <6>1. low = -1  BY <1>4, <1>12, <4>3, <5>2, SMT DEF UnitAt
          <6>2. low \notin LowSurrogates  BY <6>1, SurrogatesAre, SMT
          <6> QED  BY <3>4, <4>1, <4>3, <6>2, SMT
        <5> QED  BY <5>1, <5>2, SMT
      <4> QED  BY <4>2, <4>3, SMT
    <3>6. CASE IsLow(j)
      <4>1. low = Unit(j) /\ low \in LowSurrogates  BY <1>4, <1>12, <3>4, <3>6, SMT DEF UnitAt
      <4>2. PICK pair \in Nat : pair <= 1114111 /\ pair = 65536 + (cp - 55296) * 1024 + (low - 56320)
        <5>1. PICK h \in Nat : h <= 1023 /\ cp = 55296 + h  BY <2>6, SurrogatesAre, SMT
        <5>2. PICK l \in Nat : l <= 1023 /\ low = 56320 + l  BY <4>1, SurrogatesAre, SMT
        <5>3. 65536 + (cp - 55296) * 1024 + (low - 56320) = 65536 + h * 1024 + l  BY <5>1, <5>2, SMT
        <5>4. h * 1024 \in Nat /\ h * 1024 <= 1023 * 1024  BY <5>1, SMT
        <5>5. 65536 + h * 1024 + l \in Nat /\ 65536 + h * 1024 + l <= 1114111  BY <5>1, <5>2, <5>4, SMT
        <5> QED  BY <5>3, <5>5, SMT
      <4>6. ~StrayDigits(j + 2)  BY <3>4, <3>6, SMT DEF StrayDigits
      <4>3. e = Escape(12, codePointToUtf8(pair))  BY <3>2, <3>5, <3>6, <4>2, <4>6, SMT
      <4>4. e = Char(12, Utf8Of(pair))
        <5>1. codePointToUtf8(pair) = Utf8Of(pair) /\ Utf8Of(pair) # <<>>  BY <4>2, Utf8Is, SMT
        <5> QED  BY <4>3, <5>1, SMT DEF Escape, Char
      <4>5. c = Char(12, Utf8Of(65536 + (Unit(i) - 55296) * 1024 + (Unit(j) - 56320)))
        <5>1. IsLow(i + 6)  BY <1>3, <3>6, SMT
        <5> QED  BY <1>2, <1>3, <1>5, <1>7, <3>3, <5>1, SMT DEF CharAt
      <4> QED  BY <1>2, <2>1, <4>1, <4>2, <4>4, <4>5, SMT
    <3>7. CASE ~IsLow(j) /\ ~(At(j) = Backslash /\ At(j + 1) = u /\ StrayDigits(j + 2))
      <4>1. e = Refused  BY <3>2, <3>5, <3>7, SMT
      <4>2. ~IsLow(i + 6)  BY <1>3, <3>7, SMT
      <4>3. c = NoChar  BY <1>2, <1>5, <1>7, <3>3, <4>2, SMT DEF CharAt
      <4> QED  BY <1>2, <1>9, <4>1, <4>3, SMT
    <3> QED  BY <3>6, <3>7, <3>8, SMT
  <2> QED  BY <2>4, <2>5, <2>6, SMT
<1> QED  BY <1>10, <1>11, <1>13, SMT

\* Any escape.
LEMMA EscapeIsChar ==
  ASSUME text \in Seq(Nat), NEW i \in Nat, At(i) = Backslash
  PROVE  CharAt(i) = EscapeAt(i) \/ (IsStray(i) /\ CharAt(i) = NoChar)
<1>1. PICK z \in Nat : z = SourceEnd /\ i < z
  <2>1. At(i) # 0  BY DEF Backslash
  <2> QED  BY <2>1, AtIs
<1>2. PICK b : b = At(i + 1)  OBVIOUS
<1>3. ~(i >= SourceEnd) /\ ~(At(i) # Backslash)  BY <1>1
<1>4. CASE b = u
  <2>1. EscapeAt(i) = handleUnicodeCodePoint(i)  BY <1>2, <1>4 DEF EscapeAt
  <2> QED  BY <1>2, <1>4, <2>1, UnicodeIsChar
<1>5. CASE b # u /\ b \in {34, 92, 47, 98, 102, 110, 114, 116}
  <2>1. b \in DOMAIN escapeMap /\ b \in DOMAIN ShortEscape  BY <1>5 DEF escapeMap, ShortEscape
  <2>2. ShortEscape[b] = escapeMap[b]  BY <1>5 DEF escapeMap, ShortEscape
  <2>3. PICK x : x = escapeMap[b]  OBVIOUS
  <2>4. EscapeAt(i) = Escape(2, <<x>>)  BY <1>2, <1>5, <2>1, <2>3 DEF EscapeAt
  <2>5. Escape(2, <<x>>) = Char(2, <<x>>)  BY TailIs DEF Escape, Char
  <2>6. ~IsUnicode(i) /\ ~IsHigh(i)  BY <1>2, <1>5 DEF IsUnicode, IsHigh
  <2>7. CharAt(i) = Char(2, <<x>>)  BY <1>2, <1>3, <2>1, <2>2, <2>3, <2>6 DEF CharAt
  <2> QED  BY <2>4, <2>5, <2>7
<1>6. CASE b # u /\ b \notin {34, 92, 47, 98, 102, 110, 114, 116}
  <2>1. b \notin DOMAIN escapeMap /\ b \notin DOMAIN ShortEscape  BY <1>6 DEF escapeMap, ShortEscape
  <2>2. EscapeAt(i) = Refused  BY <1>2, <1>6, <2>1 DEF EscapeAt
  <2>3. ~IsUnicode(i) /\ ~IsHigh(i)  BY <1>2, <1>6 DEF IsUnicode, IsHigh
  <2>4. CharAt(i) = NoChar  BY <1>2, <1>3, <2>1, <2>3 DEF CharAt
  <2> QED  BY <2>2, <2>4 DEF NoChar, Char, Refused
<1> QED  BY <1>4, <1>5, <1>6

\* A character takes bytes of the document, or is none.
LEMMA CharTakes ==
  ASSUME text \in Seq(Nat), NEW i \in Nat
  PROVE  /\ Takes(i, CharAt(i)) /\ NoChar = Refused
         /\ i >= SourceEnd => CharAt(i) = NoChar
         /\ i < SourceEnd /\ At(i) # Backslash
            => CharAt(i).length = 1 /\ CharAt(i).bytes = <<At(i)>> /\ CharAt(i) # NoChar
<1>1. NoChar = Refused /\ NoChar.length = 0  BY DEF NoChar, Char, Refused
<1>2. PICK z \in Nat, a \in Nat : z = SourceEnd /\ a = At(i)  BY AtIs
<1>3. CASE i >= z
  <2>1. At(i) # Backslash /\ ~(i < z)
    <3>1. At(i) = 0  BY <1>2, <1>3, AtIs
    <3> QED  BY <1>2, <1>3, <3>1 DEF Backslash
  <2>2. ~IsUnicode(i) /\ ~IsHigh(i)  BY <2>1 DEF IsUnicode, IsHigh
  <2>3. CharAt(i) = NoChar  BY <1>2, <1>3, <2>1, <2>2 DEF CharAt
  <2> QED  BY <1>1, <1>2, <1>3, <2>3 DEF Takes
<1>4. CASE i < z /\ a # Backslash
  <2>1. PICK e : e = CharAt(i)  OBVIOUS
  <2>7. ~IsUnicode(i) /\ ~IsHigh(i) /\ ~(i >= SourceEnd)  BY <1>2, <1>4 DEF IsUnicode, IsHigh
  <2>2. e = Char(1, <<a>>)  BY <1>2, <1>4, <2>1, <2>7 DEF CharAt
  <2>3. e.length = 1 /\ e.bytes = <<a>>  BY <2>2 DEF Char
  <2>4. <<a>> \in Seq(Int) /\ Len(<<a>>) = 1  BY OneByte
  <2>5. PICK s : s = e.bytes /\ s = <<a>> /\ s \in Seq(Int) /\ Len(s) = 1  BY <2>3, <2>4
  <2>6. Takes(i, e)  BY <1>2, <1>4, <2>3, <2>5 DEF Takes
  <2> QED  BY <1>1, <1>2, <1>4, <2>1, <2>3, <2>6
<1>5. CASE i < z /\ a = Backslash
  <2>1. CharAt(i) = EscapeAt(i) \/ CharAt(i) = NoChar  BY <1>2, <1>5, EscapeIsChar
  <2>2. Takes(i, NoChar)  BY <1>1 DEF Takes
  <2>3. Takes(i, CharAt(i))  BY <2>1, <2>2, EscapeAtTakes
  <2> QED  BY <1>1, <1>2, <1>5, <2>3
<1> QED  BY <1>2, <1>3, <1>4, <1>5

---------------------------------------------------------------------------------
\* What stands at i, if what follows it is known.
StepOf(i, rest) ==
  CASE At(i) = Quote -> StringEnd(i)
    [] At(i) # Quote /\ CharAt(i) = NoChar -> NoString(i)
    [] OTHER -> Extended(CharAt(i), rest)
IsMeaning(m) ==
  m = [i \in 0..(SourceEnd + 12) |->
         CASE At(i) = Quote -> StringEnd(i)
           [] At(i) # Quote /\ CharAt(i) = NoChar -> NoString(i)
           [] OTHER -> Extended(CharAt(i), m[i + CharAt(i).length])]

\* The three cases of it.
LEMMA StepOfIs ==
  ASSUME NEW i, NEW rest
  PROVE  /\ At(i) = Quote => StepOf(i, rest) = StringEnd(i)
         /\ (At(i) # Quote /\ CharAt(i) = NoChar) => StepOf(i, rest) = NoString(i)
         /\ (At(i) # Quote /\ CharAt(i) # NoChar) => StepOf(i, rest) = Extended(CharAt(i), rest)
<1>1. CASE At(i) = Quote  BY <1>1 DEF StepOf
<1>2. CASE At(i) # Quote /\ CharAt(i) = NoChar  BY <1>2 DEF StepOf
<1>3. CASE At(i) # Quote /\ CharAt(i) # NoChar  BY <1>3 DEF StepOf
<1> QED  BY <1>1, <1>2, <1>3

\* Where the meaning is defined down to a place, and that it can be one place further.
Solves(f, from) ==
  \A i \in Nat : from <= i /\ i <= SourceEnd + 12 => f[i] = StepOf(i, f[i + CharAt(i).length])

\* A meaning of the text from a place on is one from the place before.
LEMMA SolvesMore ==
  ASSUME text \in Seq(Nat), NEW j \in Nat, j < SourceEnd, NEW f, Solves(f, j + 1)
  PROVE  \E g : Solves(g, j)
<1>1. PICK z \in Nat : z = SourceEnd  BY AtIs
<1>2. PICK g : g = [i \in 0..(z + 12) |-> IF i = j THEN StepOf(j, f[j + CharAt(j).length]) ELSE f[i]]
  OBVIOUS
<1>3. \A i \in 0..(z + 12) : i # j => g[i] = f[i]  BY <1>2
<1>4. j \in 0..(z + 12)  BY <1>1
<1>5. g[j] = StepOf(j, f[j + CharAt(j).length])  BY <1>2, <1>4
<1>6. ASSUME NEW i \in Nat, j <= i, i <= z + 12 PROVE g[i] = StepOf(i, g[i + CharAt(i).length])
  <2>1. PICK c : c = CharAt(i) /\ Takes(i, c) /\ NoChar = Refused  BY CharTakes
  <2>2. CASE c = NoChar
    <3>1. \A a, b : StepOf(i, a) = StepOf(i, b)
      <4>1. CASE At(i) = Quote  BY <4>1, StepOfIs
      <4>2. CASE At(i) # Quote  BY <2>1, <2>2, <4>2, StepOfIs
      <4> QED  BY <4>1, <4>2
    <3>2. g[i] = StepOf(i, f[i + CharAt(i).length])
      <4>1. CASE i = j  BY <1>5, <4>1
      <4>2. CASE i # j
        <5>1. j + 1 <= i /\ i \in 0..(z + 12)  BY <1>6, <4>2
        <5>2. g[i] = f[i]  BY <1>3, <4>2, <5>1
        <5> QED  BY <1>1, <1>6, <5>1, <5>2 DEF Solves
      <4> QED  BY <4>1, <4>2
    <3> QED  BY <3>1, <3>2
  <2>3. CASE c # NoChar
    <3>1. PICK k \in Nat : k = i + c.length /\ k > i /\ k <= z  BY <1>1, <2>1, <2>3 DEF Takes
    <3>2. g[k] = f[k]
      <4>1. k \in 0..(z + 12) /\ k # j  BY <1>6, <3>1
      <4> QED  BY <1>3, <4>1
    <3>3. CASE i = j  BY <1>5, <2>1, <3>1, <3>2, <3>3
    <3>4. CASE i # j
      <4>1. j + 1 <= i /\ i \in 0..(z + 12)  BY <1>6, <3>4
      <4>2. g[i] = f[i]  BY <1>3, <3>4, <4>1
      <4>3. f[i] = StepOf(i, f[i + CharAt(i).length])  BY <1>1, <1>6, <4>1 DEF Solves
      <4> QED  BY <2>1, <3>1, <3>2, <4>2, <4>3
    <3> QED  BY <3>3, <3>4
  <2> QED  BY <2>2, <2>3
<1>7. Solves(g, j)  BY <1>1, <1>6 DEF Solves
<1> QED  BY <1>7

\* Behind the text there is nothing; from there it is defined down to the beginning.
LEMMA SolvesAll == ASSUME text \in Seq(Nat) PROVE \E f : Solves(f, 0)
<1>1. PICK z \in Nat : z = SourceEnd  BY AtIs
<1> DEFINE T == {k \in Nat : k <= z => \E f : Solves(f, z - k)}
<1>2. 0 \in T
  <2>1. PICK f : f = [i \in 0..(z + 12) |-> NoString(i)]  OBVIOUS
  <2>2. ASSUME NEW i \in Nat, z <= i, i <= z + 12 PROVE f[i] = StepOf(i, f[i + CharAt(i).length])
    <3>1. CharAt(i) = NoChar  BY <1>1, <2>2, CharTakes
    <3>2. At(i) # Quote
      <4>1. At(i) = 0  BY <1>1, <2>2, AtIs
      <4> QED  BY <4>1 DEF Quote
    <3>3. f[i] = NoString(i)  BY <2>1, <2>2
    <3> QED  BY <3>1, <3>2, <3>3, StepOfIs
  <2>3. Solves(f, z)  BY <1>1, <2>2 DEF Solves
  <2>4. z - 0 = z  BY <1>1
  <2> QED  BY <2>3, <2>4
<1>3. ASSUME NEW k \in T PROVE k + 1 \in T
  <2>1. SUFFICES ASSUME k + 1 <= z PROVE \E g : Solves(g, z - (k + 1))  OBVIOUS
  <2>2. PICK f : Solves(f, z - k)  BY <1>1, <1>3, <2>1
  <2>3. PICK j \in Nat : j = z - (k + 1) /\ j + 1 = z - k /\ j < z  BY <1>1, <2>1
  <2> QED  BY <1>1, <2>2, <2>3, SolvesMore
<1> HIDE DEF T
<1>4. T = Nat  BY <1>2, <1>3, Induction DEF T
<1>5. \E f : Solves(f, z - z)
  <2>1. z \in T /\ z <= z  BY <1>1, <1>4
  <2> QED  BY <2>1 DEF T
<1>6. z - z = 0  BY <1>1
<1> QED  BY <1>5, <1>6

\* So the meaning of a text exists,
LEMMA MeaningExists == ASSUME text \in Seq(Nat) PROVE \E m : IsMeaning(m)
<1>1. PICK z \in Nat : z = SourceEnd  BY AtIs
<1>2. PICK f : Solves(f, 0)  BY SolvesAll
<1>3. PICK m : m = [i \in 0..(z + 12) |-> f[i]]  OBVIOUS
<1>4. ASSUME NEW i \in 0..(z + 12)
      PROVE  m[i] = CASE At(i) = Quote -> StringEnd(i)
                      [] At(i) # Quote /\ CharAt(i) = NoChar -> NoString(i)
                      [] OTHER -> Extended(CharAt(i), m[i + CharAt(i).length])
  <2>1. m[i] = f[i] /\ f[i] = StepOf(i, f[i + CharAt(i).length])  BY <1>1, <1>2, <1>3 DEF Solves
  <2>2. StepOf(i, f[i + CharAt(i).length]) = StepOf(i, m[i + CharAt(i).length])
    <3>1. PICK c : c = CharAt(i) /\ Takes(i, c) /\ NoChar = Refused  BY CharTakes
    <3>2. CASE At(i) = Quote  BY <3>2, StepOfIs
    <3>3. CASE At(i) # Quote /\ c = NoChar  BY <3>1, <3>3, StepOfIs
    <3>4. CASE c # NoChar
      <4>1. PICK k \in Nat : k = i + c.length /\ k <= z  BY <1>1, <3>1, <3>4 DEF Takes
      <4>2. m[k] = f[k]  BY <1>3, <4>1
      <4> QED  BY <3>1, <4>1, <4>2
    <3> QED  BY <3>2, <3>3, <3>4
  <2>3. m[i] = StepOf(i, m[i + CharAt(i).length])  BY <2>1, <2>2
  <2> QED  BY <2>3 DEF StepOf
<1>5. IsMeaning(m)  BY <1>1, <1>3, <1>4 DEF IsMeaning
<1> QED  BY <1>5

\* and follows from one character to the next.
LEMMA FromIs ==
  ASSUME text \in Seq(Nat), NEW i \in Nat, i <= SourceEnd
  PROVE  MeaningFrom(i) = StepOf(i, MeaningFrom(i + CharAt(i).length))
<1>1. PICK m : m = CHOOSE f : IsMeaning(f)  OBVIOUS
<1>2. IsMeaning(m)  BY <1>1, MeaningExists
<1>3. \A k : MeaningFrom(k) = m[k]  BY <1>1 DEF MeaningFrom, IsMeaning
<1>4. m[i] = StepOf(i, m[i + CharAt(i).length])
  <2>1. PICK z \in Nat : z = SourceEnd  BY AtIs
  <2>2. i \in 0..(SourceEnd + 12)  BY <2>1
  <2> QED  BY <1>2, <2>2 DEF IsMeaning, StepOf
<1> QED  BY <1>3, <1>4

---------------------------------------------------------------------------------
\* What a string from i on is.
IsString(i, m) ==
  /\ m.ok \in BOOLEAN /\ m.end \in Nat /\ m.value \in Seq(Int) /\ m.plain \in Seq(Int)
  /\ m.ok = TRUE => i <= m.end /\ m.end < SourceEnd /\ At(m.end) = Quote

\* One character more keeps it so.
LEMMA ExtendedIs ==
  ASSUME text \in Seq(Nat), NEW i \in Nat, NEW c, c = CharAt(i), c # NoChar, NEW k \in Nat, k = i + c.length,
         NEW m, IsString(k, m)
  PROVE  IsString(i, Extended(c, m))
<1>1. Takes(i, c) /\ NoChar = Refused  BY CharTakes
<1>2. PICK e : e = Extended(c, m)  OBVIOUS
<1>3. c.bytes \in Seq(Int) /\ i <= k  BY <1>1 DEF Takes
<1>4. e.ok = m.ok /\ e.end = m.end /\ e.value = c.bytes \o m.value
  BY <1>2 DEF Extended
<1>5. e.plain = m.plain \/ e.plain = c.bytes \o m.plain  BY <1>2 DEF Extended
<1>6. m.value \in Seq(Int) /\ m.plain \in Seq(Int) /\ m.ok \in BOOLEAN /\ m.end \in Nat
      /\ (m.ok = TRUE => k <= m.end /\ m.end < SourceEnd /\ At(m.end) = Quote)
  BY DEF IsString
<1>7. c.bytes \o m.value \in Seq(Int) /\ c.bytes \o m.plain \in Seq(Int)  BY <1>3, <1>6, ConcatProperties
<1>8. e.value \in Seq(Int) /\ e.plain \in Seq(Int)  BY <1>4, <1>5, <1>6, <1>7
<1>9. e.ok = TRUE => i <= e.end /\ e.end < SourceEnd /\ At(e.end) = Quote  BY <1>3, <1>4, <1>6
<1> QED  BY <1>2, <1>4, <1>6, <1>8, <1>9 DEF IsString

\* Where a string stands, and that it is one.
LEMMA MeaningIs ==
  ASSUME text \in Seq(Nat), NEW i \in Nat, i <= SourceEnd
  PROVE  IsString(i, MeaningFrom(i))
<1>1. PICK z \in Nat : z = SourceEnd  BY AtIs
<1> DEFINE Good(j) == IsString(j, MeaningFrom(j))
           T == {k \in Nat : \A j \in Nat : z <= j + k /\ j <= z => Good(j)}
<1> HIDE DEF Good
<1>2. ASSUME NEW j \in Nat, j <= z, \A h \in Nat : h > j /\ h <= z => Good(h) PROVE Good(j)
  <2>1. PICK c : c = CharAt(j) /\ Takes(j, c) /\ NoChar = Refused  BY CharTakes
  <2>2. PICK rest : rest = MeaningFrom(j + c.length)  OBVIOUS
  <2>3. MeaningFrom(j) = StepOf(j, rest)  BY <1>1, <1>2, <2>1, <2>2, FromIs
  <2>4. CASE At(j) = Quote
    <3>1. j < z
      <4>1. At(j) # 0  BY <2>4 DEF Quote
      <4> QED  BY <1>1, <4>1, AtIs
    <3>2. MeaningFrom(j) = StringEnd(j)  BY <2>3, <2>4, StepOfIs
    <3>3. IsString(j, StringEnd(j))  BY <1>1, <2>4, <3>1 DEF IsString, StringEnd
    <3> QED  BY <3>2, <3>3 DEF Good
  <2>5. CASE At(j) # Quote /\ c = NoChar
    <3>1. MeaningFrom(j) = NoString(j)  BY <2>1, <2>3, <2>5, StepOfIs
    <3>2. IsString(j, NoString(j))  BY DEF IsString, NoString
    <3> QED  BY <3>1, <3>2 DEF Good
  <2>6. CASE At(j) # Quote /\ c # NoChar
    <3>1. PICK k \in Nat : k = j + c.length /\ k > j /\ k <= z  BY <1>1, <2>1, <2>6 DEF Takes
    <3>2. IsString(k, rest)
      <4>1. Good(k)  BY <1>2, <3>1
      <4> QED  BY <2>2, <3>1, <4>1 DEF Good
    <3>3. MeaningFrom(j) = Extended(c, rest)  BY <2>1, <2>3, <2>6, StepOfIs
    <3>4. IsString(j, Extended(c, rest))  BY <2>1, <2>6, <3>1, <3>2, ExtendedIs
    <3> QED  BY <3>3, <3>4 DEF Good
  <2> QED  BY <2>4, <2>5, <2>6
<1>3. 0 \in T
  <2>1. ASSUME NEW j \in Nat, z <= j + 0, j <= z PROVE Good(j)
    <3>1. \A h \in Nat : ~(h > j /\ h <= z)  BY <2>1
    <3> QED  BY <1>2, <2>1, <3>1
  <2> QED  BY <2>1
<1>4. ASSUME NEW k \in T PROVE k + 1 \in T
  <2>1. ASSUME NEW j \in Nat, z <= j + (k + 1), j <= z PROVE Good(j)
    <3>1. \A h \in Nat : h > j /\ h <= z => Good(h)
      <4>1. SUFFICES ASSUME NEW h \in Nat, h > j, h <= z PROVE Good(h)  OBVIOUS
      <4>2. z <= h + k  BY <2>1, <4>1
      <4> QED  BY <1>4, <4>1, <4>2
    <3> QED  BY <1>2, <2>1, <3>1
  <2> QED  BY <2>1
<1> HIDE DEF T
<1>5. T = Nat  BY <1>3, <1>4, Induction DEF T
<1>6. Good(i)
  <2>1. z \in T /\ z <= i + z  BY <1>1, <1>5
  <2> QED  BY <1>1, <2>1 DEF T
<1> QED  BY <1>6 DEF Good

-------------------------------------------------------------------------------
\* At s the string has meant o so far, with the bytes p that are no escapes.
Continues(o, p, s) ==
  /\ s \in Nat /\ s <= SourceEnd /\ o \in Seq(Int) /\ p \in Seq(Int)
  /\ Meaning.ok = MeaningFrom(s).ok /\ Meaning.end = MeaningFrom(s).end
  /\ Meaning.value = o \o MeaningFrom(s).value /\ Meaning.plain = p \o MeaningFrom(s).plain

\* At its beginning it has meant nothing.
LEMMA ContinuesFirst == ASSUME text \in Seq(Nat) PROVE Continues(<<>>, <<>>, 0)
<1>1. PICK m : m = Meaning  OBVIOUS
<1>2. m.value \in Seq(Int) /\ m.plain \in Seq(Int)
  <2>1. 0 <= SourceEnd  BY AtIs
  <2> QED  BY <1>1, <2>1, MeaningIs DEF Meaning, IsString
<1>3. <<>> \o m.value = m.value /\ <<>> \o m.plain = m.plain  BY <1>2, ConcatEmptySeq
<1>4. 0 <= SourceEnd /\ <<>> \in Seq(Int)  BY AtIs
<1> QED  BY <1>1, <1>3, <1>4 DEF Continues, Meaning

\* A character adds its bytes.
LEMMA ContinuesChar ==
  ASSUME text \in Seq(Nat), NEW o, NEW p, NEW s, Continues(o, p, s), At(s) # Quote,
         NEW c, c = CharAt(s), c # NoChar
  PROVE  Continues(o \o c.bytes, IF c.length = 1 THEN p \o c.bytes ELSE p, s + c.length)
<1>1. s \in Nat /\ s <= SourceEnd /\ o \in Seq(Int) /\ p \in Seq(Int)  BY DEF Continues
<1>2. Takes(s, c) /\ NoChar = Refused  BY <1>1, CharTakes
<1>3. PICK k \in Nat : k = s + c.length /\ k <= SourceEnd  BY <1>1, <1>2 DEF Takes
<1>4. PICK b \in Seq(Int) : b = c.bytes  BY <1>2 DEF Takes
<1>5. PICK m, r : m = MeaningFrom(s) /\ r = MeaningFrom(k)  OBVIOUS
<1>6. m = Extended(c, r)  BY <1>1, <1>3, <1>5, FromIs, StepOfIs
<1>7. m.ok = r.ok /\ m.end = r.end /\ m.value = b \o r.value
      /\ m.plain = IF c.length = 1 THEN b \o r.plain ELSE r.plain
  BY <1>4, <1>6 DEF Extended
<1>8. r.value \in Seq(Int) /\ r.plain \in Seq(Int)  BY <1>3, <1>5, MeaningIs DEF IsString
<1>9. (o \o b) \o r.value = o \o (b \o r.value) /\ (p \o b) \o r.plain = p \o (b \o r.plain)
  <2>1. PICK v \in Seq(Int), w \in Seq(Int) : v = r.value /\ w = r.plain  BY <1>8
  <2>4. o \in Seq(Int) /\ p \in Seq(Int) /\ b \in Seq(Int) /\ v \in Seq(Int) /\ w \in Seq(Int)  BY <1>1
  <2>2. (o \o b) \o v = o \o (b \o v)  BY <2>4, Joined, SMTT(80)
  <2>3. (p \o b) \o w = p \o (b \o w)  BY <2>4, Joined, SMTT(80)
  <2> QED  BY <2>1, <2>2, <2>3
<1>10. o \o b \in Seq(Int) /\ p \o b \in Seq(Int)  BY <1>1, <1>4, ConcatProperties
<1>11. /\ Meaning.ok = m.ok /\ Meaning.end = m.end
       /\ Meaning.value = o \o m.value /\ Meaning.plain = p \o m.plain
  BY <1>5 DEF Continues
<1>12. CASE c.length = 1
  <2>1. Continues(o \o b, p \o b, k)  BY <1>3, <1>5, <1>7, <1>9, <1>10, <1>11, <1>12 DEF Continues
  <2> QED  BY <1>3, <1>4, <1>12, <2>1
<1>13. CASE c.length # 1
  <2>1. Continues(o \o b, p, k)  BY <1>1, <1>3, <1>5, <1>7, <1>9, <1>10, <1>11, <1>13 DEF Continues
  <2> QED  BY <1>3, <1>4, <1>13, <2>1
<1> QED  BY <1>12, <1>13

\* The bytes from s on.
Run(s, n) == [i \in 1..n |-> At(s + i - 1)]

\* One more of them.
LEMMA RunMore ==
  ASSUME text \in Seq(Nat), NEW s \in Nat, NEW n \in Nat
  PROVE  /\ Run(s, n) \in Seq(Nat) /\ Len(Run(s, n)) = n /\ Run(s, 0) = <<>>
         /\ Run(s, n + 1) = Run(s, n) \o <<At(s + n)>>
<1>1. \A i \in 1..(n + 1) : At(s + i - 1) \in Nat
  <2>1. ASSUME NEW i \in 1..(n + 1) PROVE At(s + i - 1) \in Nat
    <3>1. PICK k \in Nat : k = s + i - 1  OBVIOUS
    <3> QED  BY <3>1, AtIs
  <2> QED  BY <2>1
<1>2. PICK b : b = Run(s, n)  OBVIOUS
<1>3. b \in Seq(Nat) /\ Len(b) = n /\ \A i \in 1..n : b[i] = At(s + i - 1)
  <2>1. \A i \in 1..n : At(s + i - 1) \in Nat
    <3>1. \A i \in 1..n : i \in 1..(n + 1)  OBVIOUS
    <3> QED  BY <1>1, <3>1
  <2> QED  BY <1>2, <2>1 DEF Run
<1>4. PICK a \in Nat : a = At(s + n)  BY AtIs
<1>5. <<a>> \in Seq(Nat) /\ Len(<<a>>) = 1 /\ <<a>>[1] = a  OBVIOUS
<1>6. PICK d : d = Run(s, n + 1)  OBVIOUS
<1>7. d \in Seq(Nat) /\ Len(d) = n + 1 /\ \A i \in 1..(n + 1) : d[i] = At(s + i - 1)  BY <1>1, <1>6 DEF Run
<1>8. b \o <<a>> \in Seq(Nat) /\ Len(b \o <<a>>) = n + 1
      /\ \A i \in 1..(n + 1) : (b \o <<a>>)[i] = IF i <= n THEN b[i] ELSE a
  <2>1. PICK l : l = <<a>> /\ l \in Seq(Nat) /\ Len(l) = 1 /\ l[1] = a  BY <1>5
  <2>2. /\ b \o l \in Seq(Nat) /\ Len(b \o l) = Len(b) + Len(l)
        /\ \A i \in 1..(Len(b) + Len(l)) : (b \o l)[i] = IF i <= Len(b) THEN b[i] ELSE l[i - Len(b)]
    BY <1>3, <2>1, ConcatProperties
  <2>3. \A i \in 1..(n + 1) : (b \o l)[i] = IF i <= n THEN b[i] ELSE a
    <3>1. ASSUME NEW i \in 1..(n + 1) PROVE (b \o l)[i] = IF i <= n THEN b[i] ELSE a
      <4>1. CASE i <= n  BY <1>3, <2>1, <2>2, <4>1
      <4>2. CASE i = n + 1
        <5>1. i - Len(b) = 1 /\ ~(i <= Len(b)) /\ i \in 1..(Len(b) + Len(l))  BY <1>3, <2>1, <4>2
        <5> QED  BY <1>3, <2>1, <2>2, <4>2, <5>1
      <4>3. i <= n \/ i = n + 1  BY <3>1
      <4> QED  BY <4>1, <4>2, <4>3
    <3> QED  BY <3>1
  <2>4. Len(b \o l) = n + 1  BY <1>3, <2>1, <2>2
  <2> QED  BY <2>1, <2>2, <2>3, <2>4
<1>9. d = b \o <<a>>
  <2>1. PICK e : e = b \o <<a>>  OBVIOUS
  <2>2. e \in Seq(Nat) /\ Len(e) = n + 1 /\ \A i \in 1..(n + 1) : e[i] = IF i <= n THEN b[i] ELSE a
    BY <1>8, <2>1
  <2>3. ASSUME NEW i \in 1..(n + 1) PROVE d[i] = e[i]
    <3>1. CASE i <= n  BY <1>3, <1>7, <2>2, <3>1
    <3>2. CASE i = n + 1
      <4>1. s + i - 1 = s + n  BY <3>2
      <4> QED  BY <1>4, <1>7, <2>2, <3>2, <4>1
    <3> QED  BY <3>1, <3>2
  <2>4. Len(d) = Len(e) /\ \A i \in 1..Len(d) : d[i] = e[i]  BY <1>7, <2>2, <2>3
  <2>5. d = e  BY <1>7, <2>2, <2>4, SeqEqual
  <2> QED  BY <2>1, <2>5
<1>10. Run(s, 0) = <<>>  BY DEF Run
<1> QED  BY <1>2, <1>3, <1>4, <1>6, <1>9, <1>10

\* Bytes that are no escapes and no quotes are so many characters.
LEMMA ContinuesPlain ==
  ASSUME text \in Seq(Nat), NEW o, NEW p, NEW s, Continues(o, p, s), NEW n \in Nat, s + n <= SourceEnd,
         \A k \in 0..(n - 1) : At(s + k) \notin {Quote, Backslash}
  PROVE  Continues(o \o Run(s, n), p \o Run(s, n), s + n)
<1>1. s \in Nat /\ o \in Seq(Int) /\ p \in Seq(Int)  BY DEF Continues
<1> DEFINE T == {k \in Nat : k <= n => Continues(o \o Run(s, k), p \o Run(s, k), s + k)}
<1>2. 0 \in T
  <2>1. o \o Run(s, 0) = o /\ p \o Run(s, 0) = p /\ s + 0 = s
    <3>1. Run(s, 0) = <<>>  BY <1>1, RunMore
    <3> QED  BY <1>1, <3>1, ConcatEmptySeq
  <2> QED  BY <2>1
<1>3. ASSUME NEW k \in T PROVE k + 1 \in T
  <2>1. SUFFICES ASSUME k + 1 <= n
                 PROVE  Continues(o \o Run(s, k + 1), p \o Run(s, k + 1), s + (k + 1))
    OBVIOUS
  <2>2. PICK b \in Seq(Int) : b = Run(s, k)
    <3>1. Run(s, k) \in Seq(Nat)  BY <1>1, RunMore
    <3> QED  BY <3>1
  <2>3. PICK i \in Nat : i = s + k  BY <1>1
  <2>4. Continues(o \o b, p \o b, i)  BY <1>3, <2>1, <2>2, <2>3
  <2>5. At(i) \notin {Quote, Backslash}  BY <2>1, <2>3
  <2>6. i < SourceEnd
    <3>1. PICK z \in Nat : z = SourceEnd  BY AtIs
    <3> QED  BY <1>1, <2>1, <2>3, <3>1
  <2>7. PICK c : c = CharAt(i) /\ c.length = 1 /\ c.bytes = <<At(i)>> /\ c # NoChar  BY <2>3, <2>5, <2>6, CharTakes
  <2>8. PICK a \in Seq(Int) : a = <<At(i)>>
    <3>1. At(i) \in Int  BY AtIs
    <3> QED  BY <3>1, OneByte
  <2>9. Continues((o \o b) \o a, (p \o b) \o a, i + 1)
    <3>1. Continues((o \o b) \o c.bytes, IF c.length = 1 THEN (p \o b) \o c.bytes ELSE (p \o b), i + c.length)
      BY <2>4, <2>5, <2>7, ContinuesChar
    <3> QED  BY <2>7, <2>8, <3>1
  <2>10. (o \o b) \o a = o \o (b \o a) /\ (p \o b) \o a = p \o (b \o a)
    <3>1. (o \o b) \o a = o \o (b \o a)  BY <1>1, <2>2, <2>8, Joined, SMTT(80)
    <3>2. (p \o b) \o a = p \o (b \o a)  BY <1>1, <2>2, <2>8, Joined, SMTT(80)
    <3> QED  BY <3>1, <3>2
  <2>11. b \o a = Run(s, k + 1)  BY <1>1, <2>2, <2>3, <2>8, RunMore
  <2>12. s + (k + 1) = i + 1  BY <1>1, <2>3
  <2> QED  BY <2>9, <2>10, <2>11, <2>12
<1> HIDE DEF T
<1>4. T = Nat  BY <1>2, <1>3, Induction DEF T
<1>5. n \in T /\ n <= n  BY <1>4
<1> QED  BY <1>5 DEF T

\* At a quote it ends.
LEMMA ContinuesEnd ==
  ASSUME text \in Seq(Nat), NEW o, NEW p, NEW s, Continues(o, p, s), At(s) = Quote
  PROVE  Meaning.ok = TRUE /\ Meaning.end = s /\ Meaning.value = o /\ Meaning.plain = p
<1>1. s \in Nat /\ s <= SourceEnd /\ o \in Seq(Int) /\ p \in Seq(Int)  BY DEF Continues
<1>2. MeaningFrom(s) = StringEnd(s)  BY <1>1, FromIs, StepOfIs
<1>3. PICK m : m = MeaningFrom(s) /\ m.ok = TRUE /\ m.end = s /\ m.value = <<>> /\ m.plain = <<>>
  BY <1>2 DEF StringEnd
<1>4. o \o <<>> = o /\ p \o <<>> = p  BY <1>1, ConcatEmptySeq
<1> QED  BY <1>3, <1>4 DEF Continues

\* Where no character stands there is no string.
LEMMA ContinuesNone ==
  ASSUME text \in Seq(Nat), NEW o, NEW p, NEW s, Continues(o, p, s), At(s) # Quote, CharAt(s) = NoChar
  PROVE  Meaning.ok = FALSE /\ Meaning.end = s
<1>1. s \in Nat /\ s <= SourceEnd  BY DEF Continues
<1>2. MeaningFrom(s) = NoString(s)  BY <1>1, FromIs, StepOfIs
<1>3. MeaningFrom(s).ok = FALSE /\ MeaningFrom(s).end = s  BY <1>2 DEF NoString
<1> QED  BY <1>3 DEF Continues

\* It does not end before.
LEMMA ContinuesBehind ==
  ASSUME text \in Seq(Nat), NEW o, NEW p, NEW s, Continues(o, p, s)
  PROVE  /\ Meaning.ok \in BOOLEAN /\ Meaning.end \in Nat
         /\ Meaning.ok = TRUE => s <= Meaning.end /\ Meaning.end < SourceEnd
<1>1. s \in Nat /\ s <= SourceEnd  BY DEF Continues
<1>2. IsString(s, MeaningFrom(s))  BY <1>1, MeaningIs
<1> QED  BY <1>2 DEF Continues, IsString

---------------------------------------------------------------------------------
\* Reading goes on where it stopped.
LEMMA ReadsJoin ==
  ASSUME NEW e, NEW a \in Seq(Byte), NEW b \in Seq(Byte)
  PROVE  ReadsAll(e, a \o b) = ReadsAll(ReadsAll(e, a), b)
<1>1. PICK n \in Nat, m \in Nat : n = Len(a) /\ m = Len(b)  BY LenProperties
<1>2. PICK ab \in Seq(Byte) : /\ ab = a \o b /\ Len(ab) = n + m
                              /\ \A i \in 1..n : ab[i] = a[i]
                              /\ \A i \in 1..m : ab[n + i] = b[i]
  <2>1. /\ a \o b \in Seq(Byte) /\ Len(a \o b) = Len(a) + Len(b)
        /\ \A i \in 1..(Len(a) + Len(b)) : (a \o b)[i] = IF i <= Len(a) THEN a[i] ELSE b[i - Len(a)]
    BY ConcatProperties
  <2>2. PICK c : c = a \o b  OBVIOUS
  <2>3. /\ c \in Seq(Byte) /\ Len(c) = n + m
        /\ \A i \in 1..(n + m) : c[i] = IF i <= n THEN a[i] ELSE b[i - n]
    BY <1>1, <2>1, <2>2
  <2>4. ASSUME NEW i \in 1..m PROVE c[n + i] = b[i]
    <3>1. n + i \in 1..(n + m) /\ ~(n + i <= n) /\ (n + i) - n = i  OBVIOUS
    <3> QED  BY <2>3, <3>1
  <2>5. \A i \in 1..n : c[i] = a[i]  BY <2>3
  <2> QED  BY <2>2, <2>3, <2>4, <2>5
<1>3. PICK r : Reading(r, e, a, n) /\ ReadsAll(e, a) = r[n]  BY <1>1, ReadsAllIs
<1>4. PICK q : Reading(q, e, ab, n + m) /\ ReadsAll(e, ab) = q[n + m]
  <2>1. n + m \in Nat /\ n + m = Len(ab)  BY <1>2
  <2> QED  BY <2>1, ReadsAllIs
<1>5. PICK s : Reading(s, r[n], b, m) /\ ReadsAll(r[n], b) = s[m]
  BY <1>1, ReadsAllIs, SMTT(40)
<1>6. q[n] = r[n]
  <2>1. n <= n + m /\ n + m \in Nat /\ \A i \in 1..n : ab[i] = a[i]  BY <1>2
  <2> QED  BY <1>3, <1>4, <2>1, SameReads
<1> DEFINE T == {i \in Nat : i <= m => q[n + i] = s[i]}
<1>7. 0 \in T
  <2>1. s[0] = r[n] /\ n + 0 = n  BY <1>5 DEF Reading
  <2> QED  BY <1>6, <2>1
<1>8. ASSUME NEW i \in T PROVE i + 1 \in T
  <2>1. SUFFICES ASSUME i + 1 <= m PROVE q[n + (i + 1)] = s[i + 1]  OBVIOUS
  <2>2. /\ i + 1 \in 1..m /\ n + (i + 1) \in 1..(n + m) /\ (i + 1) - 1 = i
        /\ (n + (i + 1)) - 1 = n + i
    BY <2>1
  <2>3. q[n + i] = s[i]  BY <1>8, <2>1
  <2>4. s[i + 1] = ReadsByte(s[i], b[i + 1])  BY <1>5, <2>2 DEF Reading
  <2>5. q[n + (i + 1)] = ReadsByte(q[n + i], ab[n + (i + 1)])  BY <1>4, <2>2 DEF Reading
  <2>6. ab[n + (i + 1)] = b[i + 1]  BY <1>2, <2>2
  <2> QED  BY <2>3, <2>4, <2>5, <2>6
<1> HIDE DEF T
<1>9. T = Nat  BY <1>7, <1>8, Induction DEF T
<1>10. q[n + m] = s[m]
  <2>1. m \in T /\ m <= m  BY <1>9
  <2> QED  BY <2>1 DEF T
<1> QED  BY <1>2, <1>3, <1>4, <1>5, <1>10

\* What Table 3-7 can ask for: no byte of ASCII.
Asks(e) ==
  \/ e = <<>>
  \/ \E a : /\ a \cap (0..127) = {}
            /\ e = <<a>> \/ e = <<a, Cont>> \/ e = <<a, Cont, Cont>>

\* It may ask for nothing, or for what cannot be given.
LEMMA AsksSome == Asks(<<>>) /\ Asks(Bad) /\ Bad # <<>>
<1>1. Asks(<<>>)  BY DEF Asks
<1>2. Asks(Bad)
  <2>1. Bad = <<{}>>  BY DEF Bad
  <2>2. {} \cap (0..127) = {}  OBVIOUS
  <2>3. \E a : a \cap (0..127) = {} /\ Bad = <<a>>  BY <2>1, <2>2
  <2> QED  BY <2>3 DEF Asks
<1>3. Bad # <<>>  BY TailIs DEF Bad
<1> QED  BY <1>1, <1>2, <1>3

\* A byte leaves something to ask for; one of ASCII ends what is asked for.
LEMMA AsksByte ==
  ASSUME NEW e, Asks(e), NEW b \in Byte
  PROVE  /\ Asks(ReadsByte(e, b))
         /\ b < 128 => ReadsByte(e, b) = IF e = <<>> THEN <<>> ELSE Bad
<1>1. Cont \cap (0..127) = {}  BY DEF Cont
<1>2. CASE e = <<>>
  <2>1. ReadsByte(e, b) = After(b)  BY <1>2, ReadsIs
  <2>2. Second(b) \cap (0..127) = {}  BY DEF Second, Cont
  <2>3. PICK a : a = Second(b) /\ a \cap (0..127) = {}  BY <2>2
  <2>4. After(b) = <<>> \/ After(b) = Bad \/ After(b) = <<a>> \/ After(b) = <<a, Cont>>
        \/ After(b) = <<a, Cont, Cont>>
    <3>1. b < 128 \/ b \in Cont \/ b \in 192..193 \/ b >= 245 \/ b \in 194..223 \/ b \in 224..239 \/ b \in 240..244
      BY DEF Byte, Cont
    <3>2. /\ b < 128 => After(b) = <<>>
          /\ b \in Cont \/ b \in 192..193 \/ b >= 245 => After(b) = Bad
      BY AfterIs
    <3>3. b \in 194..223 => After(b) = <<a>>  BY <2>3, AfterIs
    <3>4. b \in 224..239 => After(b) = <<a, Cont>>  BY <2>3, AfterIs
    <3>5. b \in 240..244 => After(b) = <<a, Cont, Cont>>  BY <2>3, AfterIs
    <3> QED  BY <3>1, <3>2, <3>3, <3>4, <3>5
  <2>5. Asks(After(b))  BY <2>3, <2>4, AsksSome DEF Asks
  <2>6. b < 128 => After(b) = <<>>  BY AfterIs
  <2> QED  BY <1>2, <2>1, <2>5, <2>6
<1>3. CASE e # <<>>
  <2>1. PICK a : /\ a \cap (0..127) = {}
                 /\ e = <<a>> \/ e = <<a, Cont>> \/ e = <<a, Cont, Cont>>
    BY <1>3 DEF Asks
  <2>2. b < 128 => b \notin a  BY <2>1 DEF Byte
  <2>3. /\ e = <<a>> => ReadsByte(e, b) = IF b \in a THEN <<>> ELSE Bad
        /\ e = <<a, Cont>> => ReadsByte(e, b) = IF b \in a THEN <<Cont>> ELSE Bad
        /\ e = <<a, Cont, Cont>> => ReadsByte(e, b) = IF b \in a THEN <<Cont, Cont>> ELSE Bad
    <3>1. ReadsByte(<<a>>, b) = IF b \in a THEN <<>> ELSE Bad  BY ReadsIs
    <3>2. \A x, c : ReadsByte(<<x, c>>, b) = IF b \in x THEN <<c>> ELSE Bad  BY ReadsIs
    <3>3. ReadsByte(<<a, Cont>>, b) = IF b \in a THEN <<Cont>> ELSE Bad  BY <3>2
    <3>4. \A x, c, d : ReadsByte(<<x, c, d>>, b) = IF b \in x THEN <<c, d>> ELSE Bad  BY ReadsIs
    <3>5. ReadsByte(<<a, Cont, Cont>>, b) = IF b \in a THEN <<Cont, Cont>> ELSE Bad  BY <3>4
    <3> QED  BY <3>1, <3>3, <3>5
  <2>4. Asks(<<Cont>>) /\ Asks(<<Cont, Cont>>)  BY <1>1 DEF Asks
  <2>5. Asks(ReadsByte(e, b))  BY <2>1, <2>3, <2>4, AsksSome
  <2>6. b < 128 => ReadsByte(e, b) = Bad  BY <2>1, <2>2, <2>3
  <2> QED  BY <1>3, <2>5, <2>6
<1> QED  BY <1>2, <1>3

\* So it is with any number of bytes.
LEMMA AsksAll ==
  ASSUME NEW e, Asks(e), NEW bytes \in Seq(Byte)
  PROVE  /\ Asks(ReadsAll(e, bytes))
         /\ (bytes # <<>> /\ isAscii(bytes)) => ReadsAll(e, bytes) = IF e = <<>> THEN <<>> ELSE Bad
<1>1. PICK n \in Nat : n = Len(bytes) /\ \A i \in 1..n : bytes[i] \in Byte  BY LenProperties, ElementOfSeq
<1>2. PICK r : Reading(r, e, bytes, n) /\ ReadsAll(e, bytes) = r[n]  BY <1>1, ReadsAllIs
<1> DEFINE Ends == IF e = <<>> THEN <<>> ELSE Bad
           T == {i \in Nat : i <= n => Asks(r[i]) /\ (isAscii(bytes) /\ i > 0 => r[i] = Ends)}
<1>3. 0 \in T  BY <1>2 DEF Reading
<1>4. ASSUME NEW i \in T PROVE i + 1 \in T
  <2>1. SUFFICES ASSUME i + 1 <= n
                 PROVE  Asks(r[i + 1]) /\ (isAscii(bytes) => r[i + 1] = Ends)
    OBVIOUS
  <2>2. i + 1 \in 1..n /\ (i + 1) - 1 = i  BY <2>1
  <2>3. PICK b \in Byte : b = bytes[i + 1] /\ r[i + 1] = ReadsByte(r[i], b)  BY <1>1, <1>2, <2>2 DEF Reading
  <2>4. Asks(r[i]) /\ (isAscii(bytes) /\ i > 0 => r[i] = Ends)  BY <1>4, <2>1
  <2>5. Asks(r[i + 1])  BY <2>3, <2>4, AsksByte
  <2>6. isAscii(bytes) => r[i + 1] = Ends
    <3>1. SUFFICES ASSUME isAscii(bytes) PROVE r[i + 1] = Ends  OBVIOUS
    <3>2. b < 128
      <4>1. i + 1 \in DOMAIN bytes  BY <1>1, <2>2, LenProperties
      <4> QED  BY <2>3, <3>1, <4>1 DEF isAscii
    <3>3. r[i + 1] = IF r[i] = <<>> THEN <<>> ELSE Bad  BY <2>3, <2>4, <3>2, AsksByte
    <3>4. CASE i > 0  BY <2>4, <3>1, <3>3, <3>4, AsksSome
    <3>5. CASE i = 0
      <4>1. r[i] = e  BY <1>2, <3>5 DEF Reading
      <4> QED  BY <3>3, <4>1
    <3> QED  BY <3>4, <3>5
  <2> QED  BY <2>5, <2>6
<1> HIDE DEF T
<1>5. T = Nat  BY <1>3, <1>4, Induction DEF T
<1>6. n \in T /\ n <= n  BY <1>5
<1>7. bytes # <<>> => n > 0  BY <1>1, EmptySeq
<1> QED  BY <1>2, <1>6, <1>7 DEF T

-------------------------------------------------------------------------------
(* The validator of a string, and the reader. *)

\* It has found an error, or is where the reader is.
Sees(v, e) == v.error = TRUE \/ Checks(v, e)
\* The reader has found one, or it is where the reader is.
Trusts(v, e) == e = Bad \/ Checks(v, e)

\* A register leaves them together.
LEMMA RegisterSees ==
  ASSUME NEW v, NEW e, NEW bytes \in Seq(Byte), Len(bytes) >= 3
  PROVE  /\ Sees(v, e) => Sees(checkRegister(v, bytes), ReadsAll(e, bytes))
         /\ Trusts(v, e) => Trusts(checkRegister(v, bytes), ReadsAll(e, bytes))
<1>1. PICK n \in Nat : n = Len(bytes) /\ n >= 3  BY LenProperties
<1>2. PICK w : w = checkStepImpl(v, bytes) /\ w = checkRegister(v, bytes)  BY DEF checkRegister
<1>3. v.error = TRUE => w.error = TRUE  BY <1>2, ErrorStays
<1>4. Checks(v, e) /\ v.error = FALSE => Checks(w, ReadsAll(e, bytes))  BY <1>1, <1>2, ChecksStep
<1>5. Checks(v, e) => v.error = FALSE \/ (v.error = TRUE /\ e = Bad)  BY DEF Checks
<1>6. e = Bad => ReadsAll(e, bytes) = Bad  BY ReadsBad
<1> QED  BY <1>2, <1>3, <1>4, <1>5, <1>6 DEF Sees, Trusts

\* The reader of a register that ends with 'A' has nothing to ask for.
LEMMA EndsAscii ==
  ASSUME NEW c, NEW e, Checks(c, e), c.error = FALSE, c.prevInput[3] = 65
  PROVE  e = <<>>
<1>1. PICK prev : prev = c.prevInput /\ Three(prev) /\ Expects(e, prev[3], prev[2], prev[1]) /\ prev[3] = 65
  BY DEF Checks
<1>2. PICK p1, p2, p3 : p1 = 65 /\ Expects(e, p1, p2, p3)  BY <1>1
<1>3. ~(p1 >= 192) /\ p1 \notin Cont  BY <1>2 DEF Cont
<1> QED  BY <1>2, <1>3 DEF Expects

\* The bytes of a register before a quote or an escape, and the last ones of the document.
LEMMA PartialSees ==
  ASSUME NEW v, NEW e, Asks(e), NEW bytes \in Seq(Byte), NEW n \in Nat, n = Len(bytes),
         NEW size \in Nat, n < size, size >= 3
  PROVE  /\ Sees(v, e) => Sees(checkPartial(v, bytes, size), ReadsAll(e, bytes))
         /\ (Trusts(v, e) /\ ReadsAll(e, bytes) = <<>>) => Checks(checkPartial(v, bytes, size), <<>>)
<1>1. CASE n = 0
  <2>1. bytes = <<>>  BY <1>1, EmptySeq
  <2>2. checkPartial(v, bytes, size) = v /\ ReadsAll(e, bytes) = e  BY <2>1, ReadsNothing DEF checkPartial
  <2> QED  BY <2>2, AsksSome DEF Trusts
<1>2. CASE n > 0
  <2>1. PICK k \in Nat : k = size - n /\ k > 0 /\ n + k = size  OBVIOUS
  <2>2. PICK block : block = bytes \o Padding(k) /\ Padded(block, bytes, n, size)  BY <2>1, PaddingIs
  <2>3. bytes # <<>>  BY <1>2, EmptySeq
  <2>4. checkPartial(v, bytes, size) = checkStepImpl(v, block)
    BY <2>1, <2>2, <2>3 DEF checkPartial, checkRegister
  <2>5. block \in Seq(Byte) /\ Len(block) = size  BY <2>2 DEF Padded
  <2>6. PICK w : w = checkStepImpl(v, block)  OBVIOUS
  <2>7. v.error = TRUE => w.error = TRUE  BY <2>6, ErrorStays
  <2>8. PICK q, r : q = ReadsAll(e, block) /\ r = ReadsAll(e, bytes)  OBVIOUS
  <2>9. ASSUME Checks(v, e), v.error = FALSE
        PROVE  Checks(w, q) /\ (q = <<>> <=> r = <<>>) /\ (w.error = FALSE => q = <<>>) /\ w.error \in BOOLEAN
    <3>1. Checks(w, q)  BY <2>5, <2>6, <2>8, <2>9, ChecksStep
    <3>2. q = <<>> <=> r = <<>>
      <4>1. Checks(v, e) /\ v.error = FALSE /\ Padded(block, bytes, n, size)  BY <2>2, <2>9
      <4>2. EndsAlike(e, block, bytes)  BY <4>1, PaddingReads
      <4> QED  BY <2>8, <4>2 DEF EndsAlike
    <3>3. w.prevInput[3] = 65
      <4>1. w.prevInput = LastThree(block)  BY <2>6 DEF checkStepImpl
      <4>2. LastThree(block)[3] = Back(block, <<>>, size)  BY <2>5, LastThreeIs
      <4>3. block[size] = 65
        <5>1. size \in (n + 1)..size  OBVIOUS
        <5> QED  BY <2>2, <5>1 DEF Padded
      <4> QED  BY <4>1, <4>2, <4>3 DEF Back
    <3>4. w.error = FALSE => q = <<>>  BY <3>1, <3>3, EndsAscii
    <3>5. w.error \in BOOLEAN  BY <3>1 DEF Checks
    <3> QED  BY <3>1, <3>2, <3>4, <3>5
  <2>10. Checks(v, e) => v.error = FALSE \/ (v.error = TRUE /\ e = Bad)  BY DEF Checks
  <2>11. Sees(v, e) => Sees(w, r)
    <3>1. CASE v.error = TRUE  BY <2>7, <3>1 DEF Sees
    <3>2. CASE v.error = FALSE /\ Checks(v, e)
      <4>1. CASE w.error = TRUE  BY <4>1 DEF Sees
      <4>2. CASE w.error = FALSE
        <5>1. q = <<>> /\ r = <<>> /\ Checks(w, q)  BY <2>9, <3>2, <4>2
        <5> QED  BY <5>1 DEF Sees
      <4> QED  BY <2>9, <3>2, <4>1, <4>2
    <3> QED  BY <2>10, <3>1, <3>2 DEF Sees
  <2>12. (Trusts(v, e) /\ r = <<>>) => Checks(w, <<>>)
    <3>1. SUFFICES ASSUME Trusts(v, e), r = <<>> PROVE Checks(w, <<>>)  OBVIOUS
    <3>2. e # Bad
      <4>1. e = Bad => r = Bad  BY <2>8, ReadsBad
      <4> QED  BY <3>1, <4>1, AsksSome
    <3>3. Checks(v, e) /\ v.error = FALSE  BY <2>10, <3>1, <3>2 DEF Trusts
    <3>4. Checks(w, q) /\ q = <<>>  BY <2>9, <3>1, <3>3
    <3> QED  BY <3>4
  <2> QED  BY <2>4, <2>6, <2>8, <2>11, <2>12
<1> QED  BY <1>1, <1>2

\* On to the next width.
LEMMA FlushSees ==
  ASSUME NEW v, NEW e
  PROVE  /\ Sees(v, e) => Sees(flush(v), e)
         /\ Trusts(v, e) => Trusts(flush(v), e)
<1>1. PICK w : w = flush(v)  OBVIOUS
<1>2. w.error = v.error /\ w.prevInput = v.prevInput /\ w.prevIncomplete = checkIncomplete(v.prevInput)
  BY <1>1 DEF flush
<1>3. Checks(v, e) => Checks(w, e)
  <2>1. SUFFICES ASSUME Checks(v, e) PROVE Checks(w, e)  OBVIOUS
  <2>2. PICK prev : prev = v.prevInput /\ Three(prev)  BY <2>1 DEF Checks
  <2>3. LastThree(prev)[3] = prev[3] /\ LastThree(prev)[2] = prev[2] /\ LastThree(prev)[1] = prev[1]
    <3>1. /\ LastThree(prev)[3] = Back(prev, <<>>, 3)
          /\ LastThree(prev)[2] = Back(prev, <<>>, 2)
          /\ LastThree(prev)[1] = Back(prev, <<>>, 1)
      <4>1. PICK n \in Nat : n = 3 /\ prev \in Seq(Byte) /\ n = Len(prev) /\ n >= 3
        BY <2>2 DEF Three
      <4>2. /\ LastThree(prev)[3] = Back(prev, <<>>, n)
            /\ LastThree(prev)[2] = Back(prev, <<>>, n - 1)
            /\ LastThree(prev)[1] = Back(prev, <<>>, n - 2)
        BY <4>1, LastThreeIs
      <4>3. n - 1 = 2 /\ n - 2 = 1  BY <4>1
      <4> QED  BY <4>1, <4>2, <4>3
    <3> QED  BY <3>1 DEF Back
  <2>4. checkIncomplete(prev) <=> Open(prev)  BY <2>3 DEF checkIncomplete, Open
  <2>5. checkIncomplete(prev) \in BOOLEAN  BY DEF checkIncomplete
  <2>6. w.prevIncomplete \in BOOLEAN /\ (w.prevIncomplete = TRUE <=> Open(prev))  BY <1>2, <2>2, <2>4, <2>5
  <2> QED  BY <1>2, <2>1, <2>2, <2>6 DEF Checks
<1> QED  BY <1>1, <1>2, <1>3 DEF Sees, Trusts

\* An escape is of ASCII, without its control characters.
LEMMA EscapeAscii ==
  ASSUME text \in Seq(Nat), NEW s \in Nat, At(s) = Backslash, NEW c, c = CharAt(s), c # NoChar
  PROVE  /\ c.length \in Nat /\ c.length > 1
         /\ \A k \in s..(s + c.length - 1) : 32 <= At(k) /\ At(k) < 128
<1>1. PICK z \in Nat : z = SourceEnd /\ s < z
  <2>1. At(s) # 0  BY DEF Backslash
  <2> QED  BY <2>1, AtIs
<1>2. ~(s >= SourceEnd) /\ At(s) = 92  BY <1>1 DEF Backslash
<1>3. ASSUME NEW i \in Nat, IsUnicode(i) PROVE \A k \in i..(i + 5) : 32 <= At(k) /\ At(k) < 128
  <2>1. At(i) = 92 /\ At(i + 1) = 117 /\ \A k \in (i + 2)..((i + 2) + 3) : At(k) \in DOMAIN Hex
    BY <1>3 DEF IsUnicode, FourHex, Backslash, u
  <2>2. \A b \in DOMAIN Hex : 32 <= b /\ b < 128
    <3>1. DOMAIN Hex = (48..57) \cup (65..70) \cup (97..102)  BY DEF Hex
    <3> QED  BY <3>1, SMTT(40)
  <2>3. ASSUME NEW k \in i..(i + 5) PROVE 32 <= At(k) /\ At(k) < 128
    <3>1. k = i \/ k = i + 1 \/ k \in (i + 2)..((i + 2) + 3)  OBVIOUS
    <3> QED  BY <2>1, <2>2, <3>1
  <2> QED  BY <2>3
<1>4. CASE At(s + 1) \in DOMAIN ShortEscape
  <2>1. c = Char(2, <<ShortEscape[At(s + 1)]>>) \/ IsUnicode(s)
    BY <1>1, <1>4, SMTT(40) DEF CharAt, IsHigh
  <2>2. At(s + 1) # u /\ 32 <= At(s + 1) /\ At(s + 1) < 128  BY <1>4, SMTT(40) DEF ShortEscape, u
  <2>3. c.length = 2  BY <2>1, <2>2 DEF Char, IsUnicode
  <2>4. ASSUME NEW k \in s..(s + 2 - 1) PROVE 32 <= At(k) /\ At(k) < 128
    <3>1. k = s \/ k = s + 1  OBVIOUS
    <3> QED  BY <1>2, <2>2, <3>1
  <2> QED  BY <2>3, <2>4
<1>5. CASE At(s + 1) \notin DOMAIN ShortEscape /\ IsHigh(s) /\ IsLow(s + 6)
  <2>1. c.length = 12
    <3>1. PICK b : b = Utf8Of(65536 + (Unit(s) - 55296) * 1024 + (Unit(s + 6) - 56320))  BY SMT
    <3>2. IsUnicode(s) /\ ~(~IsHigh(s))  BY <1>5 DEF IsHigh
    <3>3. c = Char(12, b)  BY <1>2, <1>5, <3>1, <3>2, SMT DEF CharAt, Backslash
    <3> QED  BY <3>3 DEF Char
  <2>2. IsUnicode(s) /\ IsUnicode(s + 6)  BY <1>5, SMTT(40) DEF IsHigh, IsLow
  <2>3. ASSUME NEW k \in s..(s + 12 - 1) PROVE 32 <= At(k) /\ At(k) < 128
    <3>1. PICK j \in Nat : j = s + 6  OBVIOUS
    <3>2. k \in s..(s + 5) \/ k \in j..(j + 5)  BY <3>1
    <3> QED  BY <1>3, <2>2, <3>1, <3>2
  <2> QED  BY <2>1, <2>3
<1>6. CASE At(s + 1) \notin DOMAIN ShortEscape /\ ~(IsHigh(s) /\ IsLow(s + 6))
  <2>1. CASE IsUnicode(s) /\ ~IsHigh(s) /\ ~IsLow(s)
    <3>1. PICK b : b = Utf8Of(Unit(s))  BY SMT
    <3>2. c = Char(6, b)  BY <1>2, <1>6, <2>1, <3>1, SMT DEF CharAt, Backslash
    <3>3. c.length = 6  BY <3>2 DEF Char
    <3>4. \A k \in s..(s + 6 - 1) : 32 <= At(k) /\ At(k) < 128
      <4>1. s + 6 - 1 = s + 5  OBVIOUS
      <4> QED  BY <1>3, <2>1, <4>1
    <3> QED  BY <3>3, <3>4
  <2>2. CASE ~(IsUnicode(s) /\ ~IsHigh(s) /\ ~IsLow(s))
    <3>1. c = NoChar  BY <1>2, <1>6, <2>2, SMT DEF CharAt, Backslash
    <3> QED  BY <3>1
  <2> QED  BY <2>1, <2>2
<1> QED  BY <1>4, <1>5, <1>6

\* Bytes of the text are bytes.
LEMMA RunIs ==
  ASSUME text \in Seq(Byte), NEW s \in Nat, NEW n \in Nat
  PROVE  /\ text \in Seq(Nat) /\ Run(s, n) \in Seq(Byte) /\ Len(Run(s, n)) = n
         /\ \A i \in 1..n : Run(s, n)[i] = At(s + i - 1)
         /\ At(s) \in Byte
<1>1. text \in Seq(Nat)
  <2>1. Byte \subseteq Nat  BY DEF Byte
  <2> QED  BY <2>1, SeqMonotonic
<1>2. \A k \in Nat : At(k) \in Byte
  <2>1. ASSUME NEW k \in Nat PROVE At(k) \in Byte
    <3>1. CASE k < Len(text)
      <4>1. k + 1 \in 1..Len(text)  BY <3>1, LenProperties
      <4>2. text[k + 1] \in Byte  BY <4>1, ElementOfSeq
      <4> QED  BY <3>1, <4>2 DEF At
    <3>2. CASE ~(k < Len(text))
      <4>1. 0 \in Byte  BY DEF Byte
      <4> QED  BY <3>2, <4>1 DEF At
    <3> QED  BY <3>1, <3>2
  <2> QED  BY <2>1
<1>3. \A i \in 1..n : At(s + i - 1) \in Byte
  <2>1. \A i \in 1..n : s + i - 1 \in Nat  OBVIOUS
  <2> QED  BY <1>2, <2>1
<1>4. Run(s, n) \in Seq(Byte) /\ Len(Run(s, n)) = n /\ \A i \in 1..n : Run(s, n)[i] = At(s + i - 1)
  BY <1>3 DEF Run
<1> QED  BY <1>1, <1>2, <1>4

\* One run after another.
LEMMA RunJoin ==
  ASSUME text \in Seq(Byte), NEW s \in Nat, NEW n \in Nat, NEW k \in Nat
  PROVE  Run(s, n + k) = Run(s, n) \o Run(s + n, k)
<1>1. text \in Seq(Nat)  BY RunIs
<1>2. PICK b \in Seq(Int) : b = Run(s, n)
  <2>1. Run(s, n) \in Seq(Nat)  BY <1>1, RunMore
  <2> QED  BY <2>1
<1>3. PICK t \in Nat : t = s + n  OBVIOUS
<1> DEFINE T == {j \in Nat : Run(s, n + j) = b \o Run(t, j)}
<1>4. 0 \in T
  <2>1. Run(t, 0) = <<>>  BY <1>1, RunMore
  <2>3. n + 0 = n  OBVIOUS
  <2>2. b \o <<>> = b  BY ConcatEmptySeq
  <2> QED  BY <1>2, <2>1, <2>2, <2>3
<1>5. ASSUME NEW j \in T PROVE j + 1 \in T
  <2>1. PICK l \in Nat : l = n + j  OBVIOUS
  <2>2. Run(s, l + 1) = Run(s, l) \o <<At(s + l)>>  BY <1>1, RunMore
  <2>3. Run(t, j + 1) = Run(t, j) \o <<At(t + j)>>  BY <1>1, RunMore
  <2>4. s + l = t + j /\ n + (j + 1) = l + 1  BY <1>3, <2>1
  <2>5. PICK d \in Seq(Int) : d = Run(t, j)
    <3>1. Run(t, j) \in Seq(Nat)  BY <1>1, RunMore
    <3> QED  BY <3>1
  <2>6. PICK a \in Seq(Int) : a = <<At(t + j)>>
    <3>1. At(t + j) \in Int
      <4>1. t + j \in Nat  OBVIOUS
      <4> QED  BY <1>1, <4>1, AtIs
    <3> QED  BY <3>1, OneByte
  <2>7. Run(s, l) = b \o d  BY <1>5, <2>1, <2>5
  <2>8. (b \o d) \o a = b \o (d \o a)  BY <2>5, <2>6, Joined
  <2>9. Run(s, n + (j + 1)) = b \o Run(t, j + 1)
    BY <2>2, <2>3, <2>4, <2>5, <2>6, <2>7, <2>8
  <2> QED  BY <2>9
<1> HIDE DEF T
<1>6. T = Nat  BY <1>4, <1>5, Induction DEF T
<1>7. k \in T  BY <1>6
<1> QED  BY <1>2, <1>3, <1>7 DEF T

\* A part of the text is a run.
LEMMA PartIs ==
  ASSUME text \in Seq(Byte), NEW t \in Nat, NEW n \in Nat, t + n <= SourceEnd
  PROVE  SubSeq(text, t + 1, t + n) = Run(t, n)
<1>1. PICK z \in Nat : z = SourceEnd /\ z = Len(text)
  <2>1. text \in Seq(Nat)  BY RunIs
  <2> QED  BY <2>1, AtIs DEF SourceEnd
<1>2. PICK a, b : a = SubSeq(text, t + 1, t + n) /\ b = Run(t, n)  OBVIOUS
<1>3. b \in Seq(Byte) /\ Len(b) = n /\ \A i \in 1..n : b[i] = At(t + i - 1)  BY <1>2, RunIs
<1>4. a \in Seq(Byte) /\ Len(a) = n /\ \A i \in 1..n : a[i] = text[t + i]
  <2>1. t + n <= Len(text)  BY <1>1
  <2>2. PICK l \in Int, h \in Int : l = t + 1 /\ h = t + n /\ h - l + 1 = n  OBVIOUS
  <2>3. \A i \in l..h : text[i] \in Byte
    <3>1. \A i \in l..h : i \in 1..Len(text)  BY <2>1, <2>2
    <3> QED  BY <3>1, ElementOfSeq
  <2>4. a = SubSeq(text, l, h)  BY <1>2, <2>2
  <2>5. /\ a \in Seq(Byte) /\ Len(a) = IF l <= h THEN h - l + 1 ELSE 0
        /\ \A i \in 1..(h - l + 1) : a[i] = text[l + i - 1]
    BY <2>3, <2>4, SubSeqProperties
  <2>6. Len(a) = n  BY <2>2, <2>5
  <2>7. \A i \in 1..n : l + i - 1 = t + i  BY <2>2
  <2> QED  BY <2>2, <2>5, <2>6, <2>7
<1>5. ASSUME NEW i \in 1..n PROVE a[i] = b[i]
  <2>1. t + i - 1 < Len(text) /\ (t + i - 1) + 1 = t + i  BY <1>1
  <2>2. At(t + i - 1) = text[t + i]  BY <2>1 DEF At
  <2> QED  BY <1>3, <1>4, <2>2
<1>6. Len(a) = Len(b) /\ \A i \in 1..Len(a) : a[i] = b[i]  BY <1>3, <1>4, <1>5
<1>7. a = b  BY <1>3, <1>4, <1>6, SeqEqual
<1> QED  BY <1>2, <1>7

\* What the validator knows at s, if it has checked what is before a and the
\* bytes up to s that are no escapes are p.
Anchored(v, a, s, p) ==
  /\ a \in Nat /\ s \in Nat /\ a <= s /\ p \in Seq(Byte)
  /\ Trusts(v, ReadsAll(<<>>, Run(0, a)))
  /\ \E e : /\ Asks(e) /\ Sees(v, e)
            /\ \/ ReadsAll(e, Run(a, s - a)) = Bad
               \/ ReadsAll(e, Run(a, s - a)) = ReadsAll(<<>>, p)

\* A validator that has not been used knows nothing.
LEMMA AnchoredFirst == ASSUME text \in Seq(Byte) PROVE Anchored(NewChecker, 0, 0, <<>>)
<1>1. Run(0, 0) = <<>> /\ 0 - 0 = 0
  <2>1. text \in Seq(Nat)  BY RunIs
  <2>2. PICK o \in Nat : o = 0  OBVIOUS
  <2>3. Run(o, 0) = <<>>  BY <2>1, RunMore
  <2> QED  BY <2>2, <2>3
<1>2. \A e : ReadsAll(e, <<>>) = e  BY ReadsNothing
<1>3. Checks(NewChecker, <<>>)
  <2>1. PICK c : c = NewChecker  OBVIOUS
  <2>2. c.prevInput = <<0, 0, 0>> /\ c.error = FALSE /\ c.prevIncomplete = FALSE  BY <2>1 DEF NewChecker
  <2>3. Three(c.prevInput) /\ c.prevInput[1] = 0 /\ c.prevInput[2] = 0 /\ c.prevInput[3] = 0
    <3>1. 0 \in Byte  BY DEF Byte
    <3> QED  BY <2>2, <3>1 DEF Three
  <2>4. ~Open(c.prevInput)  BY <2>3 DEF Open
  <2>5. Expects(<<>>, 0, 0, 0)  BY DEF Expects
  <2> QED  BY <2>1, <2>2, <2>3, <2>4, <2>5 DEF Checks
<1>4. Trusts(NewChecker, <<>>) /\ Sees(NewChecker, <<>>)  BY <1>3 DEF Trusts, Sees
<1>5. <<>> \in Seq(Byte)  BY EmptySeq
<1>6. \E e : Asks(e) /\ Sees(NewChecker, e) /\ ReadsAll(e, Run(0, 0 - 0)) = ReadsAll(<<>>, <<>>)
  BY <1>1, <1>4, AsksSome
<1>7. Trusts(NewChecker, ReadsAll(<<>>, Run(0, 0)))  BY <1>1, <1>2, <1>4
<1> QED  BY <1>5, <1>6, <1>7 DEF Anchored

\* Bytes that it has not checked yet.
LEMMA AnchoredPlain ==
  ASSUME text \in Seq(Byte), NEW v, NEW a, NEW s, NEW p, Anchored(v, a, s, p), NEW n \in Nat
  PROVE  Anchored(v, a, s + n, p \o Run(s, n))
<1>1. a \in Nat /\ s \in Nat /\ a <= s /\ p \in Seq(Byte) /\ Trusts(v, ReadsAll(<<>>, Run(0, a)))
  BY DEF Anchored
<1>2. PICK e : /\ Asks(e) /\ Sees(v, e)
               /\ \/ ReadsAll(e, Run(a, s - a)) = Bad
                  \/ ReadsAll(e, Run(a, s - a)) = ReadsAll(<<>>, p)
  BY DEF Anchored
<1>3. PICK k \in Nat : k = s - a /\ a + k = s /\ (s + n) - a = k + n  BY <1>1
<1>4. PICK b \in Seq(Byte), d \in Seq(Byte) : b = Run(a, k) /\ d = Run(s, n)  BY <1>1, RunIs
<1>5. Run(a, k + n) = b \o d
  <2>1. Run(a, k + n) = Run(a, k) \o Run(a + k, n)  BY <1>1, RunJoin
  <2> QED  BY <1>3, <1>4, <2>1
<1>6. ReadsAll(e, b \o d) = ReadsAll(ReadsAll(e, b), d)  BY <1>4, ReadsJoin
<1>7. ReadsAll(<<>>, p \o d) = ReadsAll(ReadsAll(<<>>, p), d)  BY <1>1, <1>4, ReadsJoin
<1>8. ReadsAll(Bad, d) = Bad  BY <1>4, ReadsBad
<1>9. ReadsAll(e, b) = Bad \/ ReadsAll(e, b) = ReadsAll(<<>>, p)  BY <1>2, <1>3, <1>4
<1>10. ReadsAll(e, b \o d) = Bad \/ ReadsAll(e, b \o d) = ReadsAll(<<>>, p \o d)
  BY <1>6, <1>7, <1>8, <1>9
<1>11. \/ ReadsAll(e, Run(a, (s + n) - a)) = Bad
       \/ ReadsAll(e, Run(a, (s + n) - a)) = ReadsAll(<<>>, p \o d)
  BY <1>3, <1>5, <1>10
<1>12. p \o d \in Seq(Byte)  BY <1>1, <1>4, ConcatProperties
<1>13. s + n \in Nat /\ a <= s + n  BY <1>1
<1>14. Anchored(v, a, s + n, p \o d)  BY <1>1, <1>2, <1>11, <1>12, <1>13 DEF Anchored
<1> QED  BY <1>4, <1>14

\* What has been read up to s.
LEMMA AnchoredReads ==
  ASSUME text \in Seq(Byte), NEW a \in Nat, NEW k \in Nat
  PROVE  /\ Asks(ReadsAll(<<>>, Run(0, a)))
         /\ ReadsAll(<<>>, Run(0, a + k)) = ReadsAll(ReadsAll(<<>>, Run(0, a)), Run(a, k))
<1>1. PICK b \in Seq(Byte), d \in Seq(Byte) : b = Run(0, a) /\ d = Run(a, k)  BY RunIs
<1>2. Run(0, a + k) = b \o d
  <2>1. 0 + a = a  OBVIOUS
  <2>2. Run(0, a + k) = Run(0, a) \o Run(0 + a, k)  BY RunJoin
  <2> QED  BY <1>1, <2>1, <2>2
<1>3. ReadsAll(<<>>, b \o d) = ReadsAll(ReadsAll(<<>>, b), d)  BY <1>1, ReadsJoin
<1>4. Asks(ReadsAll(<<>>, b))  BY <1>1, AsksSome, AsksAll
<1> QED  BY <1>1, <1>2, <1>3, <1>4

\* At an escape, what it has not checked yet goes on behind it.
LEMMA AnchoredEscape ==
  ASSUME text \in Seq(Byte), NEW v, NEW a, NEW s, NEW p, Anchored(v, a, s, p),
         At(s) = Backslash, NEW c, c = CharAt(s), c # NoChar
  PROVE  Anchored(v, a, s + c.length, p)
<1>1. a \in Nat /\ s \in Nat /\ a <= s /\ p \in Seq(Byte) /\ Trusts(v, ReadsAll(<<>>, Run(0, a)))
  BY DEF Anchored
<1>2. PICK e : /\ Asks(e) /\ Sees(v, e)
               /\ \/ ReadsAll(e, Run(a, s - a)) = Bad
                  \/ ReadsAll(e, Run(a, s - a)) = ReadsAll(<<>>, p)
  BY DEF Anchored
<1>3. PICK n \in Nat : n = c.length /\ n > 1 /\ \A k \in s..(s + n - 1) : At(k) < 128
  <2>1. text \in Seq(Nat)  BY RunIs
  <2> QED  BY <1>1, <2>1, EscapeAscii
<1>4. PICK k \in Nat : k = s - a /\ a + k = s /\ (s + n) - a = k + n  BY <1>1
<1>5. PICK b \in Seq(Byte), d \in Seq(Byte) : b = Run(a, k) /\ d = Run(s, n)  BY <1>1, RunIs
<1>6. d # <<>> /\ isAscii(d)
  <2>1. Len(d) = n /\ \A i \in 1..n : d[i] = At(s + i - 1)  BY <1>1, <1>5, RunIs
  <2>2. \A i \in 1..n : s + i - 1 \in s..(s + n - 1)  BY <1>1
  <2>3. \A i \in 1..n : d[i] < 128  BY <1>3, <2>1, <2>2
  <2>4. DOMAIN d = 1..n  BY <2>1, LenProperties
  <2>5. d # <<>>  BY <1>3, <2>1, EmptySeq
  <2> QED  BY <2>3, <2>4, <2>5 DEF isAscii
<1>7. PICK r : r = ReadsAll(e, b)  OBVIOUS
<1>8. Asks(r)  BY <1>2, <1>5, <1>7, AsksAll
<1>9. ReadsAll(r, d) = IF r = <<>> THEN <<>> ELSE Bad  BY <1>5, <1>6, <1>8, AsksAll
<1>10. ReadsAll(e, Run(a, (s + n) - a)) = ReadsAll(r, d)
  <2>3. Run(a, k + n) = Run(a, k) \o Run(a + k, n)  BY <1>1, RunJoin
  <2>1. Run(a, k + n) = b \o d  BY <1>4, <1>5, <2>3
  <2>2. ReadsAll(e, b \o d) = ReadsAll(ReadsAll(e, b), d)  BY <1>5, ReadsJoin
  <2> QED  BY <1>4, <1>7, <2>1, <2>2
<1>11. r = Bad \/ r = ReadsAll(<<>>, p)  BY <1>2, <1>4, <1>5, <1>7
<1>12. ReadsAll(r, d) = Bad \/ ReadsAll(r, d) = ReadsAll(<<>>, p)  BY <1>9, <1>11
<1>13. s + n \in Nat /\ a <= s + n  BY <1>1
<1>14. Anchored(v, a, s + n, p)  BY <1>1, <1>2, <1>10, <1>12, <1>13 DEF Anchored
<1> QED  BY <1>3, <1>14

\* A whole register has been checked.
LEMMA AnchoredRegister ==
  ASSUME text \in Seq(Byte), NEW v, NEW a, NEW s, NEW p, Anchored(v, a, s, p), NEW n \in Nat, n = s - a, n >= 3
  PROVE  Anchored(checkRegister(v, Run(a, n)), s, s, p)
<1>1. a \in Nat /\ s \in Nat /\ a <= s /\ p \in Seq(Byte) /\ Trusts(v, ReadsAll(<<>>, Run(0, a)))
  BY DEF Anchored
<1>2. PICK e : /\ Asks(e) /\ Sees(v, e)
               /\ \/ ReadsAll(e, Run(a, s - a)) = Bad
                  \/ ReadsAll(e, Run(a, s - a)) = ReadsAll(<<>>, p)
  BY DEF Anchored
<1>3. PICK b \in Seq(Byte) : b = Run(a, n) /\ Len(b) = n  BY <1>1, RunIs
<1>4. PICK w : w = checkRegister(v, b)  OBVIOUS
<1>5. Sees(w, ReadsAll(e, b))  BY <1>2, <1>3, <1>4, RegisterSees
<1>6. Asks(ReadsAll(e, b))  BY <1>2, <1>3, AsksAll
<1>7. Trusts(w, ReadsAll(<<>>, Run(0, s)))
  <2>1. PICK f : f = ReadsAll(<<>>, Run(0, a))  OBVIOUS
  <2>2. Trusts(w, ReadsAll(f, b))  BY <1>1, <1>3, <1>4, <2>1, RegisterSees
  <2>3. ReadsAll(<<>>, Run(0, a + n)) = ReadsAll(f, b)  BY <1>1, <1>3, <2>1, AnchoredReads
  <2>4. a + n = s  BY <1>1
  <2> QED  BY <2>2, <2>3, <2>4
<1>8. Run(s, s - s) = <<>>
  <2>1. text \in Seq(Nat)  BY <1>1, RunIs
  <2>2. Run(s, 0) = <<>>  BY <1>1, <2>1, RunMore
  <2>3. s - s = 0  BY <1>1
  <2> QED  BY <2>2, <2>3
<1>9. PICK f : f = ReadsAll(e, b)  OBVIOUS
<1>10. ReadsAll(f, Run(s, s - s)) = f  BY <1>8, ReadsNothing
<1>11. f = Bad \/ f = ReadsAll(<<>>, p)  BY <1>2, <1>3, <1>9
<1>12. Asks(f) /\ Sees(w, f)
       /\ (ReadsAll(f, Run(s, s - s)) = Bad \/ ReadsAll(f, Run(s, s - s)) = ReadsAll(<<>>, p))
  BY <1>5, <1>6, <1>9, <1>10, <1>11
<1>13. Anchored(w, s, s, p)  BY <1>1, <1>7, <1>12 DEF Anchored
<1> QED  BY <1>3, <1>4, <1>13

\* The bytes of a register before an escape have been.
LEMMA AnchoredPartial ==
  ASSUME text \in Seq(Byte), NEW v, NEW a, NEW s, NEW p, Anchored(v, a, s, p), NEW n \in Nat, n = s - a,
         NEW size \in Nat, n < size, size >= 3, At(s) = Backslash, NEW c, c = CharAt(s), c # NoChar
  PROVE  Anchored(checkPartial(v, Run(a, n), size), s + c.length, s + c.length, p)
<1>1. a \in Nat /\ s \in Nat /\ a <= s /\ p \in Seq(Byte) /\ Trusts(v, ReadsAll(<<>>, Run(0, a)))
  BY DEF Anchored
<1>2. PICK e : /\ Asks(e) /\ Sees(v, e)
               /\ \/ ReadsAll(e, Run(a, s - a)) = Bad
                  \/ ReadsAll(e, Run(a, s - a)) = ReadsAll(<<>>, p)
  BY DEF Anchored
<1>3. PICK b \in Seq(Byte) : b = Run(a, n) /\ Len(b) = n  BY <1>1, RunIs
<1>4. PICK w : w = checkPartial(v, b, size)  OBVIOUS
<1>5. Sees(w, ReadsAll(e, b))  BY <1>2, <1>3, <1>4, PartialSees
<1>6. Asks(ReadsAll(e, b))  BY <1>2, <1>3, AsksAll
<1>7. PICK k \in Nat : k = c.length /\ k > 1 /\ \A i \in s..(s + k - 1) : At(i) < 128
  <2>1. text \in Seq(Nat)  BY RunIs
  <2> QED  BY <1>1, <2>1, EscapeAscii
<1>8. PICK t \in Nat : t = s + k  BY <1>1
<1>9. Trusts(w, ReadsAll(<<>>, Run(0, t)))
  <2>1. PICK f : f = ReadsAll(<<>>, Run(0, a)) /\ Asks(f)  BY <1>1, AnchoredReads
  <2>2. PICK g : g = ReadsAll(f, b)  OBVIOUS
  <2>3. g = <<>> => Checks(w, <<>>)  BY <1>1, <1>3, <1>4, <2>1, <2>2, PartialSees
  <2>4. ReadsAll(<<>>, Run(0, s)) = g
    <3>1. ReadsAll(<<>>, Run(0, a + n)) = ReadsAll(f, b)  BY <1>1, <1>3, <2>1, AnchoredReads
    <3>2. a + n = s  BY <1>1
    <3> QED  BY <2>2, <3>1, <3>2
  <2>5. PICK d \in Seq(Byte) : d = Run(s, k) /\ d # <<>> /\ isAscii(d)
    <3>1. PICK d \in Seq(Byte) : d = Run(s, k) /\ Len(d) = k /\ \A i \in 1..k : d[i] = At(s + i - 1)
      BY <1>1, RunIs
    <3>2. \A i \in 1..k : s + i - 1 \in s..(s + k - 1)  BY <1>1
    <3>3. \A i \in 1..k : d[i] < 128  BY <1>7, <3>1, <3>2
    <3>4. DOMAIN d = 1..k  BY <3>1, LenProperties
    <3>5. d # <<>>  BY <1>7, <3>1, EmptySeq
    <3>6. isAscii(d)  BY <3>3, <3>4 DEF isAscii
    <3> QED  BY <3>1, <3>5, <3>6
  <2>6. ReadsAll(<<>>, Run(0, t)) = ReadsAll(g, d)
    <3>1. ReadsAll(<<>>, Run(0, s + k)) = ReadsAll(ReadsAll(<<>>, Run(0, s)), Run(s, k))  BY <1>1, AnchoredReads
    <3> QED  BY <1>8, <2>4, <2>5, <3>1
  <2>7. Asks(g)
    <3>1. Asks(ReadsAll(<<>>, Run(0, s)))  BY <1>1, AnchoredReads
    <3> QED  BY <2>4, <3>1
  <2>8. ReadsAll(g, d) = IF g = <<>> THEN <<>> ELSE Bad  BY <2>5, <2>7, AsksAll
  <2> QED  BY <2>3, <2>6, <2>8 DEF Trusts
<1>10. Run(t, t - t) = <<>>
  <2>1. text \in Seq(Nat)  BY <1>1, RunIs
  <2>2. Run(t, 0) = <<>>  BY <1>1, <2>1, RunMore
  <2>3. t - t = 0  BY <1>1
  <2> QED  BY <2>2, <2>3
<1>11. PICK f : f = ReadsAll(e, b)  OBVIOUS
<1>12. ReadsAll(f, Run(t, t - t)) = f  BY <1>10, ReadsNothing
<1>13. f = Bad \/ f = ReadsAll(<<>>, p)  BY <1>2, <1>3, <1>11
<1>14. Asks(f) /\ Sees(w, f)
       /\ (ReadsAll(f, Run(t, t - t)) = Bad \/ ReadsAll(f, Run(t, t - t)) = ReadsAll(<<>>, p))
  BY <1>5, <1>6, <1>11, <1>12, <1>13
<1>15. Anchored(w, t, t, p)  BY <1>1, <1>9, <1>14 DEF Anchored
<1> QED  BY <1>3, <1>4, <1>7, <1>8, <1>15

\* On to the next width.
LEMMA AnchoredFlush ==
  ASSUME NEW v, NEW a, NEW s, NEW p, Anchored(v, a, s, p)
  PROVE  Anchored(flush(v), a, s, p)
<1>1. PICK e : /\ Asks(e) /\ Sees(v, e)
               /\ \/ ReadsAll(e, Run(a, s - a)) = Bad
                  \/ ReadsAll(e, Run(a, s - a)) = ReadsAll(<<>>, p)
  BY DEF Anchored
<1>2. Sees(flush(v), e)  BY <1>1, FlushSees
<1>3. Trusts(flush(v), ReadsAll(<<>>, Run(0, a)))
  <2>1. Trusts(v, ReadsAll(<<>>, Run(0, a)))  BY DEF Anchored
  <2> QED  BY <2>1, FlushSees
<1> QED  BY <1>1, <1>2, <1>3 DEF Anchored

\* At the closing quote it answers for all of them.
LEMMA AnchoredEnd ==
  ASSUME text \in Seq(Byte), NEW v, NEW a, NEW s, NEW p, Anchored(v, a, s, p), NEW n \in Nat, n = s - a,
         NEW size \in Nat, n < size, size >= 3
  PROVE  /\ errors(checkPartial(v, Run(a, n), size)) => ~WellFormed(Run(0, s))
         /\ ~errors(checkPartial(v, Run(a, n), size)) => WellFormed(p)
<1>1. a \in Nat /\ s \in Nat /\ a <= s /\ p \in Seq(Byte) /\ Trusts(v, ReadsAll(<<>>, Run(0, a)))
  BY DEF Anchored
<1>2. PICK e : /\ Asks(e) /\ Sees(v, e)
               /\ \/ ReadsAll(e, Run(a, s - a)) = Bad
                  \/ ReadsAll(e, Run(a, s - a)) = ReadsAll(<<>>, p)
  BY DEF Anchored
<1>3. PICK b \in Seq(Byte) : b = Run(a, n) /\ Len(b) = n  BY <1>1, RunIs
<1>4. PICK w : w = checkPartial(v, b, size)  OBVIOUS
<1>5. ASSUME errors(w) PROVE ~WellFormed(Run(0, s))
  <2>1. PICK f : f = ReadsAll(<<>>, Run(0, a)) /\ Asks(f)  BY <1>1, AnchoredReads
  <2>2. ReadsAll(<<>>, Run(0, s)) = ReadsAll(f, b)
    <3>1. ReadsAll(<<>>, Run(0, a + n)) = ReadsAll(f, b)  BY <1>1, <1>3, <2>1, AnchoredReads
    <3>2. a + n = s  BY <1>1
    <3> QED  BY <3>1, <3>2
  <2>3. ReadsAll(f, b) = <<>> => Checks(w, <<>>)  BY <1>1, <1>3, <1>4, <2>1, PartialSees
  <2>4. Checks(w, <<>>) => ~errors(w)  BY ChecksNothing
  <2> QED  BY <1>5, <2>2, <2>3, <2>4 DEF WellFormed
<1>6. ASSUME ~errors(w) PROVE WellFormed(p)
  <2>1. Sees(w, ReadsAll(e, b))  BY <1>2, <1>3, <1>4, PartialSees
  <2>2. Checks(w, ReadsAll(e, b))  BY <1>6, <2>1 DEF Sees, errors
  <2>3. ReadsAll(e, b) = <<>>  BY <1>6, <2>2, ChecksNothing
  <2>4. ReadsAll(<<>>, p) = <<>>  BY <1>2, <1>3, <2>3, AsksSome
  <2> QED  BY <2>4 DEF WellFormed
<1> QED  BY <1>3, <1>4, <1>5, <1>6

\* Where the text stays as it is, so does what it means
LEMMA CharStays ==
  ASSUME text' = text
  PROVE  SourceEnd' = SourceEnd /\ (\A i : At(i)' = At(i)) /\ (\A i : CharAt(i)' = CharAt(i))
<1>1. SourceEnd' = SourceEnd  BY DEF SourceEnd
<1>2. ASSUME NEW i PROVE At(i)' = At(i)  BY DEF At
<1>3. ASSUME NEW i PROVE FourHex(i)' = FourHex(i)  BY <1>2 DEF FourHex
<1>4. ASSUME NEW i PROVE Unit(i)' = Unit(i)  BY <1>2 DEF Unit
<1>5. ASSUME NEW i PROVE IsUnicode(i)' = IsUnicode(i)
  <2>1. IsUnicode(i)' = (At(i)' = Backslash /\ At(i + 1)' = u /\ FourHex(i + 2)')  BY DEF IsUnicode, Backslash, u
  <2> QED  BY <1>2, <1>3, <2>1 DEF IsUnicode
<1>6. ASSUME NEW i PROVE IsHigh(i)' = IsHigh(i) /\ IsLow(i)' = IsLow(i)  BY <1>4, <1>5 DEF IsHigh, IsLow
<1>7. ASSUME NEW i PROVE CharAt(i)' = CharAt(i)
  <2>1. ShortEscape' = ShortEscape  BY DEF ShortEscape
  <2>2. \A n : Utf8Of(n)' = Utf8Of(n)  BY DEF Utf8Of, Six
  <2> QED  BY <1>1, <1>2, <1>4, <1>5, <1>6, <2>1, SMT DEF CharAt, Char, NoChar, Backslash, Utf8Of, Six
<1> QED  BY <1>1, <1>2, <1>7

\* from each place on.
LEMMA MeaningStays ==
  ASSUME text' = text
  PROVE  (\A s : MeaningFrom(s)' = MeaningFrom(s)) /\ Meaning' = Meaning
<1>1. ASSUME NEW s PROVE MeaningFrom(s)' = MeaningFrom(s)
  <2>1. ASSUME NEW m PROVE IsMeaning(m)' <=> IsMeaning(m)
    <3> DEFINE E(i) == CASE At(i) = Quote -> StringEnd(i)
                         [] At(i) # Quote /\ CharAt(i) = NoChar -> NoString(i)
                         [] OTHER -> Extended(CharAt(i), m[i + CharAt(i).length])
               F == [i \in 0..(SourceEnd + 12) |-> E(i)]
    <3>1. ASSUME NEW i PROVE E(i)' = E(i)
      <4>1. PICK c, a : c = CharAt(i) /\ a = At(i) /\ CharAt(i)' = c /\ At(i)' = a  BY CharStays
      <4>2. PICK r : r = m[i + c.length]  OBVIOUS
      <4>3. E(i) = CASE a = Quote -> StringEnd(i)
                     [] a # Quote /\ c = NoChar -> NoString(i)
                     [] OTHER -> Extended(c, r)
        BY <4>1, <4>2, Zenon
      <4>4. E(i)' = CASE a = Quote -> StringEnd(i)
                      [] a # Quote /\ c = NoChar -> NoString(i)
                      [] OTHER -> Extended(c, r)
        BY <4>1, <4>2, Zenon DEF Quote, NoChar, NoString, Char, Extended, StringEnd
      <4> QED  BY <4>3, <4>4
    <3>2. F' = F  BY <3>1, CharStays
    <3> QED  BY <3>2 DEF IsMeaning
  <2>2. (CHOOSE m : IsMeaning(m))' = CHOOSE m : IsMeaning(m)  BY <2>1
  <2>3. MeaningFrom(s) = (CHOOSE m : IsMeaning(m))[s]  BY DEF MeaningFrom, IsMeaning
  <2>4. MeaningFrom(s)' = (CHOOSE m : IsMeaning(m))'[s]  BY DEF MeaningFrom, IsMeaning
  <2> QED  BY <2>2, <2>3, <2>4
<1>2. Meaning' = Meaning  BY <1>1 DEF Meaning
<1> QED  BY <1>1, <1>2

\* So does whether it breaks off at a stray escape, and where quotes and backslashes are near.
LEMMA StrayStays ==
  ASSUME text' = text
  PROVE  (Stray' <=> Stray) /\ (\A i : IsStray(i)' <=> IsStray(i)) /\ (\A i : MarkNear(i)' <=> MarkNear(i))
         /\ \A i : At(i)' = At(i)
<1>1. \A i : At(i)' = At(i)  BY CharStays
<1>2. ASSUME NEW i PROVE FourHex(i)' <=> FourHex(i)  BY <1>1 DEF FourHex
<1>3. ASSUME NEW i, NEW p PROVE LooksHex(i, p)' <=> LooksHex(i, p)  BY <1>1 DEF LooksHex
<1>4. ASSUME NEW i PROVE StrayDigits(i)' <=> StrayDigits(i)  BY <1>2, <1>3 DEF StrayDigits
<1>5. ASSUME NEW i PROVE IsHigh(i)' <=> IsHigh(i)
  <2>1. IsUnicode(i)' <=> IsUnicode(i)  BY <1>1, <1>2 DEF IsUnicode, Backslash, u
  <2>2. Unit(i)' = Unit(i)  BY <1>1 DEF Unit
  <2> QED  BY <2>1, <2>2 DEF IsHigh
<1>6. ASSUME NEW i PROVE IsStray(i)' <=> IsStray(i)  BY <1>1, <1>4, <1>5 DEF IsStray, Backslash, u
<1>7. ASSUME NEW i PROVE MarkNear(i)' <=> MarkNear(i)  BY <1>1 DEF MarkNear, Quote, Backslash
<1>8. Stray' <=> Stray
  <2>1. PICK e : e = Meaning.end /\ e = (Meaning.end)' /\ Meaning'.ok = Meaning.ok  BY MeaningStays
  <2>2. IsStray(e)' <=> IsStray(e)  BY <1>6
  <2> QED  BY <2>1, <2>2 DEF Stray
<1> QED  BY <1>1, <1>6, <1>7, <1>8

\* Where a stray escape stands the string breaks off, and does so in the next state.
LEMMA StrayBreaks ==
  ASSUME text \in Seq(Nat), text' = text, NEW o, NEW p, NEW s, Continues(o, p, s), At(s) # Quote,
         CharAt(s) = NoChar, IsStray(s)
  PROVE  Stray'
<1>1. Meaning.ok = FALSE /\ Meaning.end = s  BY ContinuesNone
<1>2. Stray  BY <1>1 DEF Stray
<1> QED  BY <1>2, StrayStays

---------------------------------------------------------------------------------
\* So do the bytes from a place on, and what is known at it.
LEMMA AnchoredStays ==
  ASSUME text' = text
  PROVE  /\ \A o, p, s : Continues(o, p, s)' <=> Continues(o, p, s)
         /\ \A v, a, s, p : Anchored(v, a, s, p)' <=> Anchored(v, a, s, p)
         /\ \A a, n : Run(a, n)' = Run(a, n)
<1>1. ASSUME NEW o, NEW p, NEW s PROVE Continues(o, p, s)' <=> Continues(o, p, s)
  BY CharStays, MeaningStays DEF Continues
<1>2. ASSUME NEW a, NEW n PROVE Run(a, n)' = Run(a, n)  BY CharStays DEF Run
<1>3. ASSUME NEW v, NEW a, NEW s, NEW p PROVE Anchored(v, a, s, p)' <=> Anchored(v, a, s, p)
  BY <1>2 DEF Anchored
<1> QED  BY <1>1, <1>2, <1>3

-------------------------------------------------------------------------------
\* Control characters before s have a quote or a backslash near behind them.
Marked(s) == \A k \in Nat : k < s /\ At(k) < 32 => MarkNear(k)
\* What the parser knows of the string while it works, with or without validation.
Going(u8, st, s, o, v, t) ==
  \E a \in Nat, p \in Seq(Byte) :
    /\ Continues(o, p, s) /\ Marked(s) /\ (u8 = TRUE => Anchored(v, a, s, p))
    /\ IF st > Len(Widths) THEN a = t /\ a <= s /\ SourceEnd <= a + Narrowest ELSE a = s
\* What its answers are worth.
Right3(m, u8, s, o, ans) ==
  /\ ans = "done" => m.ok = TRUE /\ s = m.end /\ o = m.value /\ Marked(s)
  /\ ans = "refused" => m.ok = FALSE \/ HasControl(m) \/ (u8 = TRUE /\ ~WellFormed(Source(m)))
  /\ ans = "done" /\ u8 = TRUE => WellFormed(m.plain)
Sound ==
  /\ validateUtf8 \in BOOLEAN
  /\ answer = "none" => Going(validateUtf8, step, src, out, validator, tailStart)
  /\ Right3(Meaning, validateUtf8, src, out, answer)

\* All that holds unless the string breaks off at a stray escape.
ParseInv == validateUtf8 \in BOOLEAN /\ (Sound \/ Stray)

\* It is what the properties say.
LEMMA RightIs3 == ParseInv /\ text \in Seq(Byte) => Decodes /\ RefusesOnlyBad /\ ValidatesUtf8
<1>1. SUFFICES ASSUME ParseInv, text \in Seq(Byte) PROVE Decodes /\ RefusesOnlyBad /\ ValidatesUtf8
  OBVIOUS
<1>2. CASE Stray
  <2>1. ~Meaning.ok  BY <1>2 DEF Stray
  <2>2. Decodes /\ ValidatesUtf8  BY <1>2 DEF Decodes, ValidatesUtf8
  <2>3. RefusesOnlyBad  BY <2>1 DEF RefusesOnlyBad
  <2> QED  BY <2>2, <2>3
<1>3. CASE Sound
  <2>1. validateUtf8 \in BOOLEAN /\ Right3(Meaning, validateUtf8, src, out, answer)  BY <1>3 DEF Sound
  <2>2. RefusesOnlyBad /\ ValidatesUtf8  BY <2>1 DEF Right3, RefusesOnlyBad, ValidatesUtf8
  <2>3. ASSUME answer = "done", ~Stray
        PROVE  /\ Meaning.ok /\ src = Meaning.end /\ out = Meaning.value
               /\ \A i \in 0..(Meaning.end - 1) : At(i) < 32 => MarkNear(i)
    <3>1. Meaning.ok = TRUE /\ src = Meaning.end /\ out = Meaning.value /\ Marked(src)
      BY <2>1, <2>3 DEF Right3
    <3>2. Meaning.end \in Nat
      <4>1. text \in Seq(Nat)  BY <1>1, RunIs
      <4>2. 0 <= SourceEnd  BY <4>1, AtIs
      <4> QED  BY <4>1, <4>2, MeaningIs DEF Meaning, IsString
    <3>3. PICK n \in Nat : n = Meaning.end  BY <3>2
    <3>4. \A i \in 0..(n - 1) : At(i) < 32 => MarkNear(i)  BY <3>1, <3>3 DEF Marked
    <3> QED  BY <3>1, <3>3, <3>4
  <2>4. Decodes  BY <2>3 DEF Decodes
  <2> QED  BY <2>2, <2>4
<1> QED  BY <1>1, <1>2, <1>3 DEF ParseInv

\* A place further on has them, too, if there are none in between without.
LEMMA MarkedMore ==
  ASSUME NEW s \in Nat, NEW t \in Nat, Marked(s),
         \A k \in Nat : s <= k /\ k < t /\ At(k) < 32 => MarkNear(k)
  PROVE  Marked(t)
BY DEF Marked

\* In a register the mark in it is near.
LEMMA MarkedRegister ==
  ASSUME text \in Seq(Nat), NEW s \in Nat, Marked(s), NEW j \in DOMAIN Widths, NEW w \in Nat, w = Widths[j],
         NEW k \in 0..(w - 1), At(s + k) \in {Quote, Backslash}
  PROVE  Marked(s + k)
<1>1. PICK t \in Nat : t = s + k /\ t - s <= w - 1  OBVIOUS
<1>2. ASSUME NEW i \in Nat, s <= i, i < t PROVE MarkNear(i)
  <2>1. t \in (i + 1)..(i + w - 1)  BY <1>1, <1>2
  <2>2. t \in (i + 1)..(i + Widths[j] - 1)  BY <2>1
  <2> QED  BY <1>1, <2>2 DEF MarkNear
<1> QED  BY <1>1, <1>2, MarkedMore

\* It holds when a string begins,
LEMMA ParseBegins ==
  ASSUME text \in Seq(Byte), validateUtf8 \in BOOLEAN, step = 1, src = 0, out = <<>>,
         validator = NewChecker, answer = "none"
  PROVE  Sound
<1>1. text \in Seq(Nat)  BY RunIs
<1>2. Continues(<<>>, <<>>, 0)  BY <1>1, ContinuesFirst
<1>3. Anchored(NewChecker, 0, 0, <<>>)  BY AnchoredFirst
<1>4. ~(1 > Len(Widths))
  <2>1. Len(Widths) \in Nat /\ Len(Widths) > 0  BY WidthsAssumption, EmptySeq, LenProperties
  <2> QED  BY <2>1
<1>5. <<>> \in Seq(Byte)  BY EmptySeq
<1>8. Marked(0)  BY DEF Marked
<1>6. Going(validateUtf8, 1, 0, <<>>, NewChecker, tailStart)  BY <1>2, <1>3, <1>4, <1>5, <1>8 DEF Going
<1>7. Right3(Meaning, validateUtf8, src, out, "none")  BY DEF Right3
<1> QED  BY <1>6, <1>7 DEF Sound

\* and while what it speaks of stays as it is.
LEMMA ParseStays ==
  ASSUME text' = text, NEW u8 \in BOOLEAN, NEW st, NEW s, NEW o, NEW v, NEW t, NEW ans,
         validateUtf8' = u8, step' = st, src' = s, out' = o, validator' = v, tailStart' = t, answer' = ans,
         ans = "none" => Going(u8, st, s, o, v, t),
         Right3(Meaning, u8, s, o, ans)
  PROVE  Sound'
<1>1. Meaning' = Meaning /\ SourceEnd' = SourceEnd  BY CharStays, MeaningStays
<1>6. Marked(s)' <=> Marked(s)  BY StrayStays DEF Marked
<1>2. Going(u8, st, s, o, v, t)' <=> Going(u8, st, s, o, v, t)
  BY <1>1, <1>6, AnchoredStays DEF Going, Narrowest
<1>3. Right3(Meaning, u8, s, o, ans)' <=> Right3(Meaning, u8, s, o, ans)
  <2>1. PICK m : m = Meaning  OBVIOUS
  <2>2. HasControl(m)' <=> HasControl(m)  BY DEF HasControl
  <2>3. Source(m)' = Source(m)  BY DEF Source
  <2> QED  BY <1>1, <1>6, <2>1, <2>2, <2>3 DEF Right3
<1>4. Going(validateUtf8, step, src, out, validator, tailStart)' <=> Going(u8, st, s, o, v, t)'  OBVIOUS
<1>5. Right3(Meaning, validateUtf8, src, out, answer)' <=> Right3(Meaning, u8, s, o, ans)'  OBVIOUS
<1> QED  BY <1>2, <1>3, <1>4, <1>5 DEF Sound

\* What is known is that control characters have marks, too.
LEMMA GoingMarked == ASSUME Sound, Running PROVE Marked(src)
BY DEF Sound, Running, Going

\* The register in use is one of them.
LEMMA WidthIs == ASSUME InDocument, InRegisters PROVE step \in DOMAIN Widths /\ Width = Widths[step]
<1>1. step \in Nat /\ step > 0 /\ step <= Len(Widths)  BY DEF InDocument, InRegisters
<1>2. step \in DOMAIN Widths  BY <1>1, WidthsAssumption, LenProperties
<1> QED  BY <1>2 DEF Width

\* A register, and what stands before the first quote or backslash in it.
LEMMA RegisterIs ==
  ASSUME text \in Seq(Byte), InDocument, InRegisters
  PROVE  \E w \in Nat, s \in Nat :
           /\ w = Width /\ s = src /\ w >= 3 /\ s + w < SourceEnd /\ ~(step > Len(Widths))
           /\ Plain = -1 => \A k \in 0..(w - 1) : At(s + k) \notin {Quote, Backslash}
           /\ Plain # -1 => Plain \in 0..(w - 1) /\ \A k \in 0..(Plain - 1) : At(s + k) \notin {Quote, Backslash}
           /\ \A n \in Nat : Load(n) = Run(s, n)
<1>1. PICK z \in Nat : z = SourceEnd  BY AtIs DEF InDocument
<1>2. PICK w \in Nat : w = Width /\ w >= 3
  <2>1. step \in Nat /\ step > 0 /\ step <= Len(Widths)  BY DEF InDocument, InRegisters
  <2>2. step \in DOMAIN Widths  BY <2>1, WidthsAssumption, LenProperties
  <2>3. Widths[step] \in Nat /\ Widths[step] >= 3  BY <2>2, WidthsAssumption
  <2> QED  BY <2>3 DEF Width
<1>3. PICK s \in Nat : s = src /\ s + w < z
  <2>1. src \in Nat  BY DEF InDocument
  <2>2. src < z - w  BY <1>1, <1>2 DEF InRegisters
  <2> QED  BY <2>1, <2>2
<1>4. \A n \in Nat : Load(n) = Run(s, n)  BY <1>3 DEF Load, Run
<1>5. PICK b : b = Load(Width) /\ Len(b) = w /\ \A i \in 1..w : b[i] = At(s + i - 1)
  <2>1. PICK b : b = Run(s, w)  OBVIOUS
  <2>2. Len(b) = w /\ \A i \in 1..w : b[i] = At(s + i - 1)  BY <2>1, RunIs
  <2> QED  BY <1>2, <1>4, <2>1, <2>2
<1>6. PICK I : I = {k \in 1..w : b[k] \in {Quote, Backslash}}  OBVIOUS
<1>7. Plain = (IF I # {} THEN Min(I) ELSE 0) - 1  BY <1>5, <1>6 DEF Plain, SelectInSeq
<1>8. ~(step > Len(Widths))
  <2>1. Len(Widths) \in Nat /\ step \in Nat  BY WidthsAssumption, LenProperties DEF InDocument
  <2> QED  BY <2>1 DEF InRegisters
<1>9. CASE I = {}
  <2>1. Plain = -1  BY <1>7, <1>9
  <2>2. ASSUME NEW k \in 0..(w - 1) PROVE At(s + k) \notin {Quote, Backslash}
    <3>1. k + 1 \in 1..w /\ s + (k + 1) - 1 = s + k  BY <1>3
    <3>2. b[k + 1] \notin {Quote, Backslash}  BY <1>6, <1>9, <3>1
    <3>3. b[k + 1] = At(s + k)  BY <1>5, <3>1
    <3> QED  BY <3>2, <3>3
  <2> QED  BY <1>1, <1>2, <1>3, <1>4, <1>8, <2>1, <2>2
<1>10. CASE I # {}
  <2>1. I \subseteq Nat  BY <1>6
  <2>2. PICK m \in 1..w : m = Min(I) /\ \A y \in I : m <= y  BY <1>6, <1>10, <2>1, MinOf
  <2>3. PICK q \in 0..(w - 1) : q = m - 1 /\ Plain = q  BY <1>7, <1>10, <2>2
  <2>4. ASSUME NEW k \in 0..(q - 1) PROVE At(s + k) \notin {Quote, Backslash}
    <3>1. k + 1 \in 1..w /\ s + (k + 1) - 1 = s + k /\ ~(m <= k + 1)  BY <1>3, <2>3
    <3>2. b[k + 1] \notin {Quote, Backslash}
      <4>1. k + 1 \notin I  BY <2>2, <3>1
      <4> QED  BY <1>6, <3>1, <4>1
    <3>3. b[k + 1] = At(s + k)  BY <1>5, <3>1
    <3> QED  BY <3>2, <3>3
  <2>5. q # -1  OBVIOUS
  <2> QED  BY <1>1, <1>2, <1>3, <1>4, <1>8, <2>3, <2>4, <2>5
<1> QED  BY <1>9, <1>10

\* What is known at a place in the registers.
LEMMA GoingIs ==
  ASSUME Sound, Running, ~(step > Len(Widths))
  PROVE  \E p \in Seq(Byte) : /\ Continues(out, p, src)
                              /\ validateUtf8 = TRUE => Anchored(validator, src, src, p)
<1>1. PICK a \in Nat, p \in Seq(Byte) :
         /\ Continues(out, p, src) /\ (validateUtf8 = TRUE => Anchored(validator, a, src, p))
         /\ a = src
  BY DEF Sound, Running, Going
<1> QED  BY <1>1

\* A character below a space before the end of the string.
LEMMA ControlIs ==
  ASSUME text \in Seq(Byte), NEW o, NEW p, NEW s, Continues(o, p, s), NEW k \in Nat, k < s, At(k) < 32
  PROVE  Meaning.ok = FALSE \/ HasControl(Meaning)
<1>1. text \in Seq(Nat)  BY RunIs
<1>2. PICK m : m = Meaning  OBVIOUS
<1>3. m.ok \in BOOLEAN /\ m.end \in Nat /\ (m.ok = TRUE => s <= m.end) /\ s \in Nat /\ s <= SourceEnd
  BY <1>1, <1>2, ContinuesBehind DEF Continues
<1>4. ASSUME m.ok = TRUE PROVE HasControl(m)
  <2>1. PICK e \in Nat : e = m.end /\ k + 1 \in 1..e  BY <1>3, <1>4
  <2>2. k < Len(text)
    <3>1. SourceEnd \in Nat  BY <1>1, AtIs
    <3> QED  BY <1>3, <3>1 DEF SourceEnd
  <2>3. text[k + 1] < 32  BY <2>2 DEF At
  <2> QED  BY <2>1, <2>3 DEF HasControl
<1> QED  BY <1>2, <1>3, <1>4

\* The string up to its end.
LEMMA SourceIs ==
  ASSUME text \in Seq(Byte), NEW m, m.end \in Nat, m.end <= SourceEnd
  PROVE  Source(m) = Run(0, m.end)
<1>1. PICK n \in Nat : n = m.end  OBVIOUS
<1>2. SubSeq(text, 0 + 1, 0 + n) = Run(0, n)
  <2>1. 0 + n <= SourceEnd /\ 0 \in Nat  BY <1>1
  <2> QED  BY <2>1, PartIs
<1>3. 0 + 1 = 1 /\ 0 + n = n  OBVIOUS
<1> QED  BY <1>1, <1>2, <1>3 DEF Source

\* A quote in a register ends the string.
LEMMA CloseQuoteParse ==
  ASSUME text \in Seq(Byte), InDocument, Sound, CloseQuote
  PROVE  Sound'
<1>1. /\ Running /\ InRegisters /\ Found(Quote)
      /\ src' = src + Plain /\ out' = out \o PlainBytes /\ Validates(Partial)
      /\ Answers(IF validateUtf8 /\ errors(Partial) THEN "refused" ELSE "done")
      /\ UNCHANGED <<text, validateUtf8, step, tailStart>>
  BY DEF CloseQuote, InRegisters
<1>2. PICK w \in Nat, s \in Nat :
           /\ w = Width /\ s = src /\ w >= 3 /\ s + w < SourceEnd /\ ~(step > Len(Widths))
           /\ Plain # -1 => Plain \in 0..(w - 1) /\ \A k \in 0..(Plain - 1) : At(s + k) \notin {Quote, Backslash}
           /\ \A n \in Nat : Load(n) = Run(s, n)
  BY <1>1, RegisterIs
<1>3. PICK k \in 0..(w - 1) : k = Plain /\ At(s + k) = Quote /\ \A i \in 0..(k - 1) : At(s + i) \notin {Quote, Backslash}
  <2>1. Plain >= 0 /\ At(src + Plain) = Quote  BY <1>1 DEF Found
  <2>2. Plain # -1  BY <2>1
  <2> QED  BY <1>2, <2>1, <2>2
<1>4. PICK b \in Seq(Byte) : b = Run(s, k) /\ b = PlainBytes
  <2>1. PlainBytes = Run(s, k)  BY <1>2, <1>3 DEF PlainBytes
  <2> QED  BY <2>1, RunIs
<1>5. PICK t \in Nat, z \in Nat : t = s + k /\ z = SourceEnd /\ t < z /\ t - s = k
  <2>1. PICK z \in Nat : z = SourceEnd  BY AtIs DEF InDocument
  <2>2. k \in Nat /\ k < w  BY <1>2
  <2>3. s + k \in Nat /\ s + k < z /\ (s + k) - s = k  BY <1>2, <2>1, <2>2
  <2> QED  BY <2>1, <2>3
<1>6. PICK p \in Seq(Byte) : Continues(out, p, s) /\ (validateUtf8 = TRUE => Anchored(validator, s, s, p))
  BY <1>1, <1>2, GoingIs
<1>7. text \in Seq(Nat)  BY RunIs
<1>20. Marked(t)
  <2>1. Marked(s)  BY <1>1, <1>2, GoingMarked
  <2>2. PICK j \in DOMAIN Widths : w = Widths[j]  BY <1>1, <1>2, WidthIs
  <2>3. At(s + k) \in {Quote, Backslash}  BY <1>3
  <2>4. Marked(s + k)  BY <1>7, <2>1, <2>2, <2>3, MarkedRegister
  <2> QED  BY <1>5, <2>4
<1>8. PICK o : o = out \o b  OBVIOUS
<1>9. Continues(o, p \o b, t)
  <2>1. s + k <= SourceEnd  BY <1>5
  <2>3. k \in Nat  BY <1>2
  <2>2. Continues(out \o Run(s, k), p \o Run(s, k), s + k)  BY <1>3, <1>6, <1>7, <2>1, <2>3, ContinuesPlain
  <2> QED  BY <1>4, <1>5, <1>8, <2>2
<1>10. Meaning.ok = TRUE /\ Meaning.end = t /\ Meaning.value = o /\ Meaning.plain = p \o b
  <2>1. At(t) = Quote  BY <1>3, <1>5
  <2> QED  BY <1>7, <1>9, <2>1, ContinuesEnd
<1>11. PICK u8 \in BOOLEAN : u8 = validateUtf8  BY DEF Sound
<1>12. u8 = TRUE => /\ errors(Partial) => ~WellFormed(Source(Meaning))
                    /\ ~errors(Partial) => WellFormed(Meaning.plain)
  <2>1. SUFFICES ASSUME u8 = TRUE
                 PROVE  /\ errors(Partial) => ~WellFormed(Source(Meaning))
                        /\ ~errors(Partial) => WellFormed(Meaning.plain)
    OBVIOUS
  <2>2. Anchored(validator, s, t, p \o b)
    <3>1. Anchored(validator, s, s, p)  BY <1>6, <1>11, <2>1
    <3>2. Anchored(validator, s, s + k, p \o Run(s, k))  BY <3>1, AnchoredPlain
    <3> QED  BY <1>4, <1>5, <3>2
  <2>3. Partial = checkPartial(validator, Run(s, k), w)  BY <1>2, <1>4 DEF Partial
  <2>4. k < w /\ k = t - s  BY <1>5
  <2>5. /\ errors(checkPartial(validator, Run(s, k), w)) => ~WellFormed(Run(0, t))
        /\ ~errors(checkPartial(validator, Run(s, k), w)) => WellFormed(p \o b)
    BY <1>2, <2>2, <2>4, AnchoredEnd
  <2>6. Source(Meaning) = Run(0, t)
    <3>1. Meaning.end \in Nat /\ Meaning.end <= SourceEnd  BY <1>5, <1>10
    <3> QED  BY <1>10, <3>1, SourceIs
  <2> QED  BY <1>10, <2>3, <2>5, <2>6
<1>13. PICK ans : ans = (IF u8 /\ errors(Partial) THEN "refused" ELSE "done")  OBVIOUS
<1>14. ans # "none" /\ answer' = ans  BY <1>1, <1>11, <1>13 DEF Answers
<1>15. Right3(Meaning, u8, t, o, ans)
  <2>1. errors(Partial) \in BOOLEAN  BY DEF errors
  <2>2. CASE u8 = TRUE /\ errors(Partial)
    <3>1. ans = "refused"  BY <1>13, <2>2
    <3> QED  BY <1>12, <2>2, <3>1 DEF Right3
  <2>3. CASE ~(u8 = TRUE /\ errors(Partial))
    <3>1. ans = "done"  BY <1>13, <2>3
    <3> QED  BY <1>10, <1>12, <1>20, <2>3, <3>1 DEF Right3
  <2> QED  BY <2>2, <2>3
<1>16. PICK v, st, ts : v = validator' /\ st = step' /\ ts = tailStart'  OBVIOUS
<1>17. /\ text' = text /\ validateUtf8' = u8 /\ step' = st /\ src' = t /\ out' = o /\ validator' = v
       /\ tailStart' = ts /\ answer' = ans /\ (ans = "none" => Going(u8, st, t, o, v, ts))
  BY <1>1, <1>2, <1>3, <1>4, <1>5, <1>8, <1>11, <1>14, <1>16
<1> QED  BY <1>15, <1>17, ParseStays

\* An escape in a register stands for its character, or there is no string.
LEMMA TakeEscapeParse ==
  ASSUME text \in Seq(Byte), InDocument, Sound, TakeEscape
  PROVE  Sound' \/ Stray'
<1>1. /\ Running /\ InRegisters /\ Found(Backslash) /\ Validates(Partial)
      /\ UNCHANGED <<text, validateUtf8, step, tailStart>>
  BY DEF TakeEscape, InRegisters
<1>2. PICK w \in Nat, s \in Nat :
           /\ w = Width /\ s = src /\ w >= 3 /\ s + w < SourceEnd /\ ~(step > Len(Widths))
           /\ Plain # -1 => Plain \in 0..(w - 1) /\ \A k \in 0..(Plain - 1) : At(s + k) \notin {Quote, Backslash}
           /\ \A n \in Nat : Load(n) = Run(s, n)
  BY <1>1, RegisterIs
<1>3. PICK k \in 0..(w - 1) : k = Plain /\ At(s + k) = Backslash /\ \A i \in 0..(k - 1) : At(s + i) \notin {Quote, Backslash}
  <2>1. Plain >= 0 /\ At(src + Plain) = Backslash  BY <1>1 DEF Found
  <2>2. Plain # -1  BY <2>1
  <2> QED  BY <1>2, <2>1, <2>2
<1>4. PICK b \in Seq(Byte) : b = Run(s, k) /\ b = PlainBytes
  <2>1. PlainBytes = Run(s, k)  BY <1>2, <1>3 DEF PlainBytes
  <2> QED  BY <2>1, RunIs
<1>5. PICK t \in Nat, z \in Nat : t = s + k /\ z = SourceEnd /\ t < z /\ t - s = k
  <2>1. PICK z \in Nat : z = SourceEnd  BY AtIs DEF InDocument
  <2>2. k \in Nat /\ k < w  BY <1>2
  <2>3. s + k \in Nat /\ s + k < z /\ (s + k) - s = k  BY <1>2, <2>1, <2>2
  <2> QED  BY <2>1, <2>3
<1>6. PICK p \in Seq(Byte) : Continues(out, p, s) /\ (validateUtf8 = TRUE => Anchored(validator, s, s, p))
  BY <1>1, <1>2, GoingIs
<1>7. text \in Seq(Nat)  BY RunIs
<1>20. Marked(t)
  <2>1. Marked(s)  BY <1>1, <1>2, GoingMarked
  <2>2. PICK j \in DOMAIN Widths : w = Widths[j]  BY <1>1, <1>2, WidthIs
  <2>3. At(s + k) \in {Quote, Backslash}  BY <1>3
  <2>4. Marked(s + k)  BY <1>7, <2>1, <2>2, <2>3, MarkedRegister
  <2> QED  BY <1>5, <2>4
<1>8. PICK o : o = out \o b  OBVIOUS
<1>9. Continues(o, p \o b, t)
  <2>1. s + k <= SourceEnd  BY <1>5
  <2>3. k \in Nat  BY <1>2
  <2>2. Continues(out \o Run(s, k), p \o Run(s, k), s + k)  BY <1>3, <1>6, <1>7, <2>1, <2>3, ContinuesPlain
  <2> QED  BY <1>4, <1>5, <1>8, <2>2
<1>21. At(t) = Backslash /\ At(t) # Quote
  <2>1. At(t) = Backslash  BY <1>3, <1>5
  <2> QED  BY <2>1 DEF Quote, Backslash
<1>22. CASE IsStray(t) /\ CharAt(t) = NoChar
  <2>1. text' = text  BY <1>1
  <2> QED  BY <1>7, <1>9, <1>21, <1>22, <2>1, StrayBreaks
<1>23. SUFFICES ASSUME ~(IsStray(t) /\ CharAt(t) = NoChar) PROVE Sound'  BY <1>22
<1>10. PICK e : e = EscapeAt(t) /\ e = CharAt(t)  BY <1>7, <1>21, <1>23, EscapeIsChar
<1>11. PICK u8 \in BOOLEAN : u8 = validateUtf8  BY DEF Sound
<1>12. NoChar = Refused /\ At(t) # Quote /\ At(t) = Backslash
  <2>1. NoChar = Refused  BY DEF NoChar, Char, Refused
  <2> QED  BY <1>3, <1>5, <2>1 DEF Quote, Backslash
<1>13. PICK v, st, ts : v = validator' /\ st = step' /\ ts = tailStart'  OBVIOUS
<1>14. IF e = Refused THEN answer' = "refused" /\ UNCHANGED <<src, out>>
       ELSE src' = t + e.length /\ out' = o \o e.bytes /\ answer' = answer
  <2>1. EscapeAt(src + Plain) = e /\ src + Plain = t  BY <1>2, <1>3, <1>5, <1>10
  <2> QED  BY <1>4, <1>8, <2>1 DEF TakeEscape, Answers
<1>15. CASE e = Refused
  <2>1. Meaning.ok = FALSE  BY <1>7, <1>9, <1>10, <1>12, <1>15, ContinuesNone
  <2>2. PICK s2, o2 : s2 = src' /\ o2 = out'  OBVIOUS
  <2>3. Right3(Meaning, u8, s2, o2, "refused")  BY <2>1 DEF Right3
  <2>4. /\ text' = text /\ validateUtf8' = u8 /\ step' = st /\ src' = s2 /\ out' = o2 /\ validator' = v
        /\ tailStart' = ts /\ answer' = "refused"
        /\ ("refused" = "none" => Going(u8, st, s2, o2, v, ts))
    BY <1>1, <1>11, <1>13, <1>14, <1>15, <2>2
  <2> QED  BY <2>3, <2>4, ParseStays
<1>16. CASE e # Refused
  <2>1. e.length \in Nat /\ e.length > 1  BY <1>7, <1>10, <1>12, <1>16, EscapeAscii
  <2>2. PICK n \in Nat : n = t + e.length /\ n <= SourceEnd
    <3>1. Takes(t, e)  BY <1>7, <1>10, CharTakes
    <3> QED  BY <1>16, <2>1, <3>1 DEF Takes
  <2>3. PICK q : q = o \o e.bytes  OBVIOUS
  <2>4. Continues(q, p \o b, n)
    <3>1. Continues(o \o e.bytes, IF e.length = 1 THEN (p \o b) \o e.bytes ELSE p \o b, t + e.length)
      BY <1>7, <1>9, <1>10, <1>12, <1>16, ContinuesChar
    <3>2. ~(e.length = 1)  BY <2>1
    <3> QED  BY <2>2, <2>3, <3>1, <3>2
  <2>5. u8 = TRUE => Anchored(v, n, n, p \o b)
    <3>1. SUFFICES ASSUME u8 = TRUE PROVE Anchored(v, n, n, p \o b)  OBVIOUS
    <3>2. Anchored(validator, s, t, p \o b)
      <4>1. Anchored(validator, s, s, p)  BY <1>6, <1>11, <3>1
      <4>2. Anchored(validator, s, s + k, p \o Run(s, k))  BY <4>1, AnchoredPlain
      <4> QED  BY <1>4, <1>5, <4>2
    <3>3. v = checkPartial(validator, Run(s, k), w)
      <4>1. v = Partial  BY <1>1, <1>11, <1>13, <3>1 DEF Validates
      <4> QED  BY <1>2, <1>4, <4>1 DEF Partial
    <3>4. k < w /\ k = t - s  BY <1>5
    <3>5. Anchored(checkPartial(validator, Run(s, k), w), t + e.length, t + e.length, p \o b)
      BY <1>2, <1>10, <1>12, <1>16, <3>2, <3>4, AnchoredPartial
    <3> QED  BY <2>2, <3>3, <3>5
  <2>9. Marked(n)
    <3>1. \A i \in t..(t + e.length - 1) : 32 <= At(i)  BY <1>7, <1>10, <1>12, <1>16, EscapeAscii
    <3>2. \A i \in Nat : t <= i /\ i < n /\ At(i) < 32 => MarkNear(i)
      <4>1. SUFFICES ASSUME NEW i \in Nat, t <= i, i < n PROVE ~(At(i) < 32)  OBVIOUS
      <4>2. i \in t..(t + e.length - 1)  BY <2>1, <2>2, <4>1
      <4>3. At(i) \in Nat  BY <1>7, AtIs
      <4> QED  BY <3>1, <4>2, <4>3
    <3> QED  BY <1>20, <2>2, <3>2, MarkedMore
  <2>6. Going(u8, st, n, q, v, ts)
    <3>1. p \o b \in Seq(Byte)  BY <1>4, <1>6, ConcatProperties
    <3>2. ~(st > Len(Widths))  BY <1>1, <1>2, <1>13
    <3> QED  BY <2>4, <2>5, <2>9, <3>1, <3>2 DEF Going
  <2>7. Right3(Meaning, u8, n, q, "none")  BY DEF Right3
  <2>8. /\ text' = text /\ validateUtf8' = u8 /\ step' = st /\ src' = n /\ out' = q /\ validator' = v
        /\ tailStart' = ts /\ answer' = "none"
    BY <1>1, <1>11, <1>13, <1>14, <1>16, <2>2, <2>3 DEF Running
  <2> QED  BY <2>6, <2>7, <2>8, ParseStays
<1> QED  BY <1>15, <1>16

\* A register of plain bytes is taken whole, or has a control character.
LEMMA TakeRegisterParse ==
  ASSUME text \in Seq(Byte), InDocument, Sound, TakeRegister
  PROVE  Sound'
<1>1. /\ Running /\ InRegisters /\ Plain = -1
      /\ UNCHANGED <<text, validateUtf8, step, tailStart>>
      /\ IF \E i \in 1..Width : Load(Width)[i] < 32
         THEN Answers("refused") /\ UNCHANGED <<src, out, validator>>
         ELSE /\ src' = src + Width /\ out' = out \o Load(Width)
              /\ Validates(checkRegister(validator, Load(Width))) /\ UNCHANGED answer
  BY DEF TakeRegister, InRegisters
<1>2. PICK w \in Nat, s \in Nat :
           /\ w = Width /\ s = src /\ w >= 3 /\ s + w < SourceEnd /\ ~(step > Len(Widths))
           /\ Plain = -1 => \A k \in 0..(w - 1) : At(s + k) \notin {Quote, Backslash}
           /\ \A n \in Nat : Load(n) = Run(s, n)
  BY <1>1, RegisterIs
<1>3. PICK b \in Seq(Byte) : b = Run(s, w) /\ b = Load(Width) /\ \A i \in 1..w : b[i] = At(s + i - 1)
  <2>1. Run(s, w) \in Seq(Byte) /\ \A i \in 1..w : Run(s, w)[i] = At(s + i - 1)  BY RunIs
  <2>2. Run(s, w) = Load(Width)  BY <1>2
  <2> QED  BY <2>1, <2>2
<1>4. PICK p \in Seq(Byte) : Continues(out, p, s) /\ (validateUtf8 = TRUE => Anchored(validator, s, s, p))
  BY <1>1, <1>2, GoingIs
<1>5. text \in Seq(Nat)  BY RunIs
<1>12. PICK o : o = out \o b  OBVIOUS
<1>6. PICK t \in Nat : o = out \o b /\ t = s + w /\ t <= SourceEnd
  <2>1. PICK z \in Nat : z = SourceEnd  BY <1>5, AtIs
  <2>2. s + w \in Nat /\ s + w <= z  BY <1>2, <2>1
  <2> QED  BY <1>12, <2>1, <2>2
<1>7. Continues(o, p \o b, t)
  <2>1. \A k \in 0..(w - 1) : At(s + k) \notin {Quote, Backslash}  BY <1>1, <1>2
  <2>2. Continues(out \o Run(s, w), p \o Run(s, w), s + w)  BY <1>4, <1>5, <1>6, <2>1, ContinuesPlain
  <2> QED  BY <1>3, <1>6, <2>2
<1>8. PICK u8 \in BOOLEAN : u8 = validateUtf8  BY DEF Sound
<1>9. PICK v, st, ts : v = validator' /\ st = step' /\ ts = tailStart'  OBVIOUS
<1>10. CASE \E i \in 1..Width : Load(Width)[i] < 32
  <2>1. PICK i \in 1..w : b[i] < 32  BY <1>2, <1>3, <1>10
  <2>2. PICK k \in Nat : k = s + i - 1 /\ k < t  BY <1>6
  <2>3. At(k) < 32  BY <1>3, <2>1, <2>2
  <2>4. Meaning.ok = FALSE \/ HasControl(Meaning)  BY <1>7, <2>2, <2>3, ControlIs
  <2>5. PICK s2, o2 : s2 = src' /\ o2 = out'  OBVIOUS
  <2>6. Right3(Meaning, u8, s2, o2, "refused")  BY <2>4 DEF Right3
  <2>7. /\ text' = text /\ validateUtf8' = u8 /\ step' = st /\ src' = s2 /\ out' = o2 /\ validator' = v
        /\ tailStart' = ts /\ answer' = "refused"
        /\ ("refused" = "none" => Going(u8, st, s2, o2, v, ts))
    BY <1>1, <1>8, <1>9, <1>10, <2>5 DEF Answers
  <2> QED  BY <2>6, <2>7, ParseStays
<1>11. CASE ~ \E i \in 1..Width : Load(Width)[i] < 32
  <2>1. src' = t /\ out' = o /\ answer' = "none" /\ Validates(checkRegister(validator, b))
    BY <1>1, <1>2, <1>3, <1>6, <1>11 DEF Running
  <2>2. u8 = TRUE => Anchored(v, t, t, p \o b)
    <3>1. SUFFICES ASSUME u8 = TRUE PROVE Anchored(v, t, t, p \o b)  OBVIOUS
    <3>2. Anchored(validator, s, t, p \o b)
      <4>1. Anchored(validator, s, s, p)  BY <1>4, <1>8, <3>1
      <4>2. Anchored(validator, s, s + w, p \o Run(s, w))  BY <4>1, AnchoredPlain
      <4> QED  BY <1>3, <1>6, <4>2
    <3>3. v = checkRegister(validator, Run(s, w))  BY <1>3, <1>8, <1>9, <2>1, <3>1 DEF Validates
    <3>4. w = t - s  BY <1>6
    <3>5. Anchored(checkRegister(validator, Run(s, w)), t, t, p \o b)  BY <1>2, <3>2, <3>4, AnchoredRegister
    <3> QED  BY <3>3, <3>5
  <2>6. Marked(t)
    <3>1. Marked(s)  BY <1>1, <1>2, GoingMarked
    <3>2. \A k \in Nat : s <= k /\ k < t /\ At(k) < 32 => MarkNear(k)
      <4>1. SUFFICES ASSUME NEW k \in Nat, s <= k, k < t PROVE ~(At(k) < 32)  OBVIOUS
      <4>2. PICK i \in 1..w : s + i - 1 = k
        <5>1. k - s + 1 \in 1..w /\ s + (k - s + 1) - 1 = k  BY <1>6, <4>1
        <5> QED  BY <5>1
      <4>3. ~(b[i] < 32)  BY <1>2, <1>3, <1>11
      <4> QED  BY <1>3, <4>2, <4>3
    <3> QED  BY <3>1, <3>2, MarkedMore
  <2>3. Going(u8, st, t, o, v, ts)
    <3>1. p \o b \in Seq(Byte)  BY <1>3, <1>4, ConcatProperties
    <3>2. ~(st > Len(Widths))  BY <1>1, <1>2, <1>9
    <3> QED  BY <1>7, <2>2, <2>6, <3>1, <3>2 DEF Going
  <2>4. Right3(Meaning, u8, t, o, "none")  BY DEF Right3
  <2>5. /\ text' = text /\ validateUtf8' = u8 /\ step' = st /\ src' = t /\ out' = o /\ validator' = v
        /\ tailStart' = ts /\ answer' = "none"
    BY <1>1, <1>8, <1>9, <2>1
  <2> QED  BY <2>3, <2>4, <2>5, ParseStays
<1> QED  BY <1>10, <1>11

\* On to the registers of the next width, or to the last bytes, which fit in the narrowest.
LEMMA NextWidthParse ==
  ASSUME text \in Seq(Byte), InDocument, Sound, NextWidth
  PROVE  Sound'
<1>1. /\ Running /\ step <= Len(Widths) /\ ~InRegisters
      /\ step' = step + 1 /\ tailStart' = src /\ Validates(flush(validator))
      /\ UNCHANGED <<text, validateUtf8, src, out, stored, answer>>
  BY DEF NextWidth
<1>2. PICK l \in Nat, n \in Nat, s \in Nat : l = Len(Widths) /\ n = step /\ n > 0 /\ n <= l /\ s = src /\ s <= SourceEnd
  <2>1. Len(Widths) \in Nat /\ step \in Nat /\ step > 0 /\ src \in Nat /\ src <= SourceEnd
    BY WidthsAssumption, LenProperties DEF InDocument
  <2> QED  BY <1>1, <2>1
<1>3. PICK p \in Seq(Byte) : Continues(out, p, s) /\ (validateUtf8 = TRUE => Anchored(validator, s, s, p))
  <2>1. ~(step > Len(Widths))  BY <1>2
  <2> QED  BY <1>1, <1>2, <2>1, GoingIs
<1>4. PICK u8 \in BOOLEAN : u8 = validateUtf8  BY DEF Sound
<1>5. PICK v, o, st : v = validator' /\ o = out' /\ st = step'  OBVIOUS
<1>6. u8 = TRUE => Anchored(v, s, s, p)
  <2>1. SUFFICES ASSUME u8 = TRUE PROVE Anchored(v, s, s, p)  OBVIOUS
  <2>2. v = flush(validator)  BY <1>1, <1>4, <1>5, <2>1 DEF Validates
  <2>3. Anchored(validator, s, s, p)  BY <1>3, <1>4, <2>1
  <2> QED  BY <2>2, <2>3, AnchoredFlush
<1>7. st > l => SourceEnd <= s + Narrowest
  <2>1. SUFFICES ASSUME st > l PROVE SourceEnd <= s + Narrowest  OBVIOUS
  <2>2. n = l  BY <1>1, <1>2, <1>5, <2>1
  <2>3. Width = Narrowest  BY <1>2, <2>2 DEF Width, Narrowest
  <2>4. PICK w \in Nat : w = Narrowest
    <3>1. l \in DOMAIN Widths  BY <1>2, WidthsAssumption, LenProperties
    <3>2. Widths[l] \in Nat  BY <3>1, WidthsAssumption
    <3> QED  BY <1>2, <3>2 DEF Narrowest
  <2>5. PICK z \in Nat : z = SourceEnd  BY AtIs DEF InDocument
  <2>6. ~(s < z - w)  BY <1>1, <1>2, <2>3, <2>4, <2>5 DEF InRegisters
  <2> QED  BY <2>4, <2>5, <2>6
<1>8. Going(u8, st, s, o, v, s)
  <2>1. Continues(o, p, s)  BY <1>1, <1>3, <1>5
  <2>2. IF st > Len(Widths) THEN s = s /\ s <= s /\ SourceEnd <= s + Narrowest ELSE s = s  BY <1>2, <1>7
  <2>3. Marked(s)  BY <1>1, <1>2, GoingMarked
  <2> QED  BY <1>6, <2>1, <2>2, <2>3 DEF Going
<1>9. Right3(Meaning, u8, s, o, "none")  BY DEF Right3
<1>10. /\ text' = text /\ validateUtf8' = u8 /\ step' = st /\ src' = s /\ out' = o /\ validator' = v
       /\ tailStart' = s /\ answer' = "none"
  BY <1>1, <1>2, <1>4, <1>5 DEF Running
<1> QED  BY <1>8, <1>9, <1>10, ParseStays

\* What is known at a place among the last bytes.
LEMMA TailIs3 ==
  ASSUME text \in Seq(Byte), InDocument, Sound, InTail
  PROVE  \E a \in Nat, s \in Nat, w \in Nat, p \in Seq(Byte) :
           /\ a = tailStart /\ s = src /\ w = Narrowest /\ w >= 3
           /\ a <= s /\ SourceEnd <= a + w
           /\ Continues(out, p, s) /\ Marked(s) /\ (validateUtf8 = TRUE => Anchored(validator, a, s, p))
<1>1. step > Len(Widths) /\ answer = "none"  BY DEF InTail, Running
<1>2. PICK a \in Nat, p \in Seq(Byte) :
         /\ Continues(out, p, src) /\ Marked(src) /\ (validateUtf8 = TRUE => Anchored(validator, a, src, p))
         /\ a = tailStart /\ a <= src /\ SourceEnd <= a + Narrowest
  BY <1>1 DEF Sound, Going
<1>3. PICK w \in Nat : w = Narrowest /\ w >= 3
  <2>1. PICK l \in Nat : l = Len(Widths) /\ l > 0  BY WidthsAssumption, EmptySeq, LenProperties
  <2>2. l \in DOMAIN Widths  BY <2>1, WidthsAssumption, LenProperties
  <2>3. Widths[l] \in Nat /\ Widths[l] >= 3  BY <2>2, WidthsAssumption
  <2> QED  BY <2>1, <2>3 DEF Narrowest
<1>4. PICK s \in Nat : s = src  BY DEF InDocument
<1> QED  BY <1>2, <1>3, <1>4

\* A quote among the last bytes ends the string.
LEMMA CloseQuoteInTailParse ==
  ASSUME text \in Seq(Byte), InDocument, Sound, CloseQuoteInTail
  PROVE  Sound'
<1>1. PICK v2 : /\ InTail /\ At(src) = Quote
                /\ v2 = checkPartial(validator, SubSeq(text, tailStart + 1, src), Narrowest)
                /\ Answers(IF validateUtf8 /\ errors(v2) THEN "refused" ELSE "done")
                /\ UNCHANGED <<text, validateUtf8, step, src, out, tailStart>>
  BY DEF CloseQuoteInTail
<1>2. PICK a \in Nat, s \in Nat, w \in Nat, p \in Seq(Byte) :
           /\ a = tailStart /\ s = src /\ w = Narrowest /\ w >= 3
           /\ a <= s /\ SourceEnd <= a + w
           /\ Continues(out, p, s) /\ Marked(s) /\ (validateUtf8 = TRUE => Anchored(validator, a, s, p))
  BY <1>1, TailIs3
<1>3. text \in Seq(Nat)  BY RunIs
<1>4. PICK z \in Nat : z = SourceEnd /\ s < z
  <2>1. At(s) # 0  BY <1>1, <1>2 DEF Quote
  <2> QED  BY <1>3, <2>1, AtIs
<1>5. PICK n \in Nat : n = s - a /\ n < w /\ a + n = s  BY <1>2, <1>4
<1>6. v2 = checkPartial(validator, Run(a, n), w)
  <2>1. a + n <= SourceEnd  BY <1>4, <1>5
  <2>2. SubSeq(text, a + 1, a + n) = Run(a, n)  BY <2>1, PartIs
  <2> QED  BY <1>1, <1>2, <1>5, <2>2
<1>7. PICK o : o = out  OBVIOUS
<1>8. Meaning.ok = TRUE /\ Meaning.end = s /\ Meaning.value = o /\ Meaning.plain = p
  BY <1>1, <1>2, <1>3, <1>7, ContinuesEnd
<1>9. PICK u8 \in BOOLEAN : u8 = validateUtf8  BY DEF Sound
<1>10. u8 = TRUE => /\ errors(v2) => ~WellFormed(Source(Meaning))
                    /\ ~errors(v2) => WellFormed(Meaning.plain)
  <2>1. SUFFICES ASSUME u8 = TRUE
                 PROVE  /\ errors(v2) => ~WellFormed(Source(Meaning))
                        /\ ~errors(v2) => WellFormed(Meaning.plain)
    OBVIOUS
  <2>2. Anchored(validator, a, s, p)  BY <1>2, <1>9, <2>1
  <2>3. /\ errors(checkPartial(validator, Run(a, n), w)) => ~WellFormed(Run(0, s))
        /\ ~errors(checkPartial(validator, Run(a, n), w)) => WellFormed(p)
    BY <1>2, <1>5, <2>2, AnchoredEnd
  <2>4. Source(Meaning) = Run(0, s)
    <3>1. Meaning.end \in Nat /\ Meaning.end <= SourceEnd  BY <1>4, <1>8
    <3> QED  BY <1>8, <3>1, SourceIs
  <2> QED  BY <1>6, <1>8, <2>3, <2>4
<1>11. PICK ans : ans = (IF u8 /\ errors(v2) THEN "refused" ELSE "done")  OBVIOUS
<1>12. ans # "none" /\ answer' = ans  BY <1>1, <1>9, <1>11 DEF Answers
<1>13. Right3(Meaning, u8, s, o, ans)
  <2>1. errors(v2) \in BOOLEAN  BY DEF errors
  <2>2. CASE u8 = TRUE /\ errors(v2)
    <3>1. ans = "refused"  BY <1>11, <2>2
    <3> QED  BY <1>10, <2>2, <3>1 DEF Right3
  <2>3. CASE ~(u8 = TRUE /\ errors(v2))
    <3>1. ans = "done"  BY <1>11, <2>3
    <3> QED  BY <1>2, <1>8, <1>10, <2>3, <3>1 DEF Right3
  <2> QED  BY <2>2, <2>3
<1>14. PICK v, st, ts : v = validator' /\ st = step' /\ ts = tailStart'  OBVIOUS
<1>15. /\ text' = text /\ validateUtf8' = u8 /\ step' = st /\ src' = s /\ out' = o /\ validator' = v
       /\ tailStart' = ts /\ answer' = ans /\ (ans = "none" => Going(u8, st, s, o, v, ts))
  BY <1>1, <1>2, <1>7, <1>9, <1>12, <1>14
<1> QED  BY <1>13, <1>15, ParseStays

\* An escape among the last bytes.
LEMMA TakeEscapeInTailParse ==
  ASSUME text \in Seq(Byte), InDocument, Sound, TakeEscapeInTail
  PROVE  Sound' \/ Stray'
<1>1. /\ InTail /\ At(src) = Backslash
      /\ UNCHANGED <<text, validateUtf8, step, validator, tailStart>>
  BY DEF TakeEscapeInTail
<1>2. PICK a \in Nat, s \in Nat, w \in Nat, p \in Seq(Byte) :
           /\ a = tailStart /\ s = src /\ w = Narrowest /\ w >= 3
           /\ a <= s /\ SourceEnd <= a + w
           /\ Continues(out, p, s) /\ Marked(s) /\ (validateUtf8 = TRUE => Anchored(validator, a, s, p))
  BY <1>1, TailIs3
<1>3. text \in Seq(Nat)  BY RunIs
<1>11. At(s) = Backslash /\ At(s) # Quote  BY <1>1, <1>2 DEF Quote, Backslash
<1>12. CASE IsStray(s) /\ CharAt(s) = NoChar
  <2>1. text' = text  BY <1>1
  <2> QED  BY <1>2, <1>3, <1>11, <1>12, <2>1, StrayBreaks
<1>13. SUFFICES ASSUME ~(IsStray(s) /\ CharAt(s) = NoChar) PROVE Sound'  BY <1>12
<1>4. PICK e : e = EscapeAt(s) /\ e = CharAt(s)  BY <1>3, <1>11, <1>13, EscapeIsChar
<1>5. NoChar = Refused /\ At(s) # Quote /\ At(s) = Backslash
  <2>1. NoChar = Refused  BY DEF NoChar, Char, Refused
  <2> QED  BY <1>1, <1>2, <2>1 DEF Quote, Backslash
<1>6. PICK u8 \in BOOLEAN : u8 = validateUtf8  BY DEF Sound
<1>7. PICK v, st, o : v = validator /\ st = step /\ o = out  OBVIOUS
<1>8. IF e = Refused THEN answer' = "refused" /\ UNCHANGED <<src, out>>
      ELSE src' = s + e.length /\ out' = o \o e.bytes /\ answer' = answer
  BY <1>2, <1>4, <1>7 DEF TakeEscapeInTail, Answers
<1>9. CASE e = Refused
  <2>1. Meaning.ok = FALSE  BY <1>2, <1>3, <1>4, <1>5, <1>9, ContinuesNone
  <2>2. Right3(Meaning, u8, s, o, "refused")  BY <2>1 DEF Right3
  <2>3. /\ text' = text /\ validateUtf8' = u8 /\ step' = st /\ src' = s /\ out' = o /\ validator' = v
        /\ tailStart' = a /\ answer' = "refused"
        /\ ("refused" = "none" => Going(u8, st, s, o, v, a))
    BY <1>1, <1>2, <1>6, <1>7, <1>8, <1>9
  <2> QED  BY <2>2, <2>3, ParseStays
<1>10. CASE e # Refused
  <2>1. e.length \in Nat /\ e.length > 1  BY <1>3, <1>4, <1>5, <1>10, EscapeAscii
  <2>2. PICK n \in Nat : n = s + e.length /\ a <= n  BY <1>2, <2>1
  <2>3. PICK q : q = o \o e.bytes  OBVIOUS
  <2>4. Continues(q, p, n)
    <3>1. Continues(o \o e.bytes, IF e.length = 1 THEN p \o e.bytes ELSE p, s + e.length)
      BY <1>2, <1>3, <1>4, <1>5, <1>7, <1>10, ContinuesChar
    <3>2. ~(e.length = 1)  BY <2>1
    <3> QED  BY <2>2, <2>3, <3>1, <3>2
  <2>5. u8 = TRUE => Anchored(v, a, n, p)
    <3>1. SUFFICES ASSUME u8 = TRUE PROVE Anchored(v, a, n, p)  OBVIOUS
    <3>2. Anchored(v, a, s, p)  BY <1>2, <1>6, <1>7, <3>1
    <3>3. Anchored(v, a, s + e.length, p)  BY <1>4, <1>5, <1>10, <3>2, AnchoredEscape
    <3> QED  BY <2>2, <3>3
  <2>9. Marked(n)
    <3>1. \A i \in s..(s + e.length - 1) : 32 <= At(i)  BY <1>3, <1>4, <1>5, <1>10, EscapeAscii
    <3>2. \A i \in Nat : s <= i /\ i < n /\ At(i) < 32 => MarkNear(i)
      <4>1. SUFFICES ASSUME NEW i \in Nat, s <= i, i < n PROVE ~(At(i) < 32)  OBVIOUS
      <4>2. i \in s..(s + e.length - 1)  BY <2>1, <2>2, <4>1
      <4>3. At(i) \in Nat  BY <1>3, AtIs
      <4> QED  BY <3>1, <4>2, <4>3
    <3> QED  BY <1>2, <2>2, <3>2, MarkedMore
  <2>6. Going(u8, st, n, q, v, a)
    <3>1. st > Len(Widths)  BY <1>1, <1>7 DEF InTail
    <3>2. SourceEnd <= a + Narrowest  BY <1>2
    <3> QED  BY <1>2, <2>2, <2>4, <2>5, <2>9, <3>1, <3>2 DEF Going
  <2>7. Right3(Meaning, u8, n, q, "none")  BY DEF Right3
  <2>8. /\ text' = text /\ validateUtf8' = u8 /\ step' = st /\ src' = n /\ out' = q /\ validator' = v
        /\ tailStart' = a /\ answer' = "none"
    BY <1>1, <1>2, <1>6, <1>7, <1>8, <1>10, <2>2, <2>3 DEF InTail, Running
  <2> QED  BY <2>6, <2>7, <2>8, ParseStays
<1> QED  BY <1>9, <1>10

\* A plain byte among the last ones, or the end of the document.
LEMMA TakeByteInTailParse ==
  ASSUME text \in Seq(Byte), InDocument, Sound, TakeByteInTail
  PROVE  Sound'
<1>1. /\ InTail /\ At(src) \notin {Quote, Backslash}
      /\ IF At(src) < 32 THEN Answers("refused") /\ UNCHANGED <<src, out>>
         ELSE src' = src + 1 /\ out' = Append(out, At(src)) /\ UNCHANGED answer
      /\ UNCHANGED <<text, validateUtf8, step, validator, tailStart>>
  BY DEF TakeByteInTail
<1>2. PICK a \in Nat, s \in Nat, w \in Nat, p \in Seq(Byte) :
           /\ a = tailStart /\ s = src /\ w = Narrowest /\ w >= 3
           /\ a <= s /\ SourceEnd <= a + w
           /\ Continues(out, p, s) /\ Marked(s) /\ (validateUtf8 = TRUE => Anchored(validator, a, s, p))
  BY <1>1, TailIs3
<1>3. text \in Seq(Nat)  BY RunIs
<1>4. PICK u8 \in BOOLEAN : u8 = validateUtf8  BY DEF Sound
<1>5. PICK v, st : v = validator /\ st = step  OBVIOUS
<1>6. PICK o \in Seq(Int), b \in Byte : o = out /\ b = At(s)
  <2>1. At(s) \in Byte  BY <1>2, RunIs
  <2> QED  BY <2>1 DEF InDocument
<1>7. PICK z \in Nat : z = SourceEnd /\ s <= z
  BY <1>2, <1>3, AtIs DEF InDocument
<1>8. s < z => Continues(o \o Run(s, 1), p \o Run(s, 1), s + 1)
  <2>1. SUFFICES ASSUME s < z PROVE Continues(o \o Run(s, 1), p \o Run(s, 1), s + 1)  OBVIOUS
  <2>2. s + 1 <= SourceEnd  BY <1>7, <2>1
  <2>3. \A k \in 0..(1 - 1) : At(s + k) \notin {Quote, Backslash}
    <3>1. \A k \in 0..(1 - 1) : s + k = s  OBVIOUS
    <3> QED  BY <1>1, <1>2, <3>1
  <2> QED  BY <1>2, <1>3, <1>6, <2>2, <2>3, ContinuesPlain
<1>9. CASE b < 32
  <2>1. Meaning.ok = FALSE \/ HasControl(Meaning)
    <3>1. CASE s < z
      <4>1. s < s + 1 /\ At(s) < 32  BY <1>6, <1>9
      <4>2. Continues(o \o Run(s, 1), p \o Run(s, 1), s + 1)  BY <1>8, <3>1
      <4> QED  BY <4>1, <4>2, ControlIs
    <3>2. CASE ~(s < z)
      <4>1. CharAt(s) = NoChar
        <5>1. s >= SourceEnd  BY <1>7, <3>2
        <5> QED  BY <1>3, <5>1, CharTakes
      <4>2. At(s) # Quote  BY <1>1, <1>2
      <4> QED  BY <1>2, <1>3, <4>1, <4>2, ContinuesNone
    <3> QED  BY <3>1, <3>2
  <2>2. Right3(Meaning, u8, s, o, "refused")  BY <2>1 DEF Right3
  <2>3. /\ text' = text /\ validateUtf8' = u8 /\ step' = st /\ src' = s /\ out' = o /\ validator' = v
        /\ tailStart' = a /\ answer' = "refused"
        /\ ("refused" = "none" => Going(u8, st, s, o, v, a))
    BY <1>1, <1>2, <1>4, <1>5, <1>6, <1>9 DEF Answers
  <2> QED  BY <2>2, <2>3, ParseStays
<1>10. CASE ~(b < 32)
  <2>1. s < z
    <3>1. At(s) # 0  BY <1>6, <1>10
    <3> QED  BY <1>3, <1>7, <3>1, AtIs
  <2>2. PICK d \in Seq(Byte) : d = Run(s, 1) /\ Len(d) = 1  BY RunIs
  <2>3. d = <<b>>
    <3>1. Run(s, 0 + 1) = Run(s, 0) \o <<At(s + 0)>> /\ Run(s, 0) = <<>>  BY <1>3, RunMore
    <3>2. s + 0 = s /\ 0 + 1 = 1  OBVIOUS
    <3>3. <<b>> \in Seq(Byte)  OBVIOUS
    <3>4. <<>> \o <<b>> = <<b>>  BY <3>3, ConcatEmptySeq
    <3> QED  BY <1>6, <2>2, <3>1, <3>2, <3>4
  <2>4. PICK q : q = o \o d  OBVIOUS
  <2>5. src' = s + 1 /\ out' = q /\ answer' = "none"
    <3>1. Append(o, b) = o \o <<b>>  BY <1>6, AppendIsConcat
    <3> QED  BY <1>1, <1>2, <1>6, <1>10, <2>3, <2>4, <3>1 DEF InTail, Running
  <2>6. PICK n \in Nat : n = s + 1 /\ a <= n  BY <1>2
  <2>7. Continues(q, p \o d, n)  BY <1>8, <2>1, <2>2, <2>4, <2>6
  <2>8. u8 = TRUE => Anchored(v, a, n, p \o d)
    <3>1. SUFFICES ASSUME u8 = TRUE PROVE Anchored(v, a, n, p \o d)  OBVIOUS
    <3>2. Anchored(v, a, s, p)  BY <1>2, <1>4, <1>5, <3>1
    <3>3. Anchored(v, a, s + 1, p \o Run(s, 1))  BY <3>2, AnchoredPlain
    <3> QED  BY <2>2, <2>6, <3>3
  <2>12. Marked(n)
    <3>1. \A i \in Nat : s <= i /\ i < n /\ At(i) < 32 => MarkNear(i)
      <4>1. SUFFICES ASSUME NEW i \in Nat, s <= i, i < n PROVE ~(At(i) < 32)  OBVIOUS
      <4>2. i = s  BY <2>6, <4>1
      <4> QED  BY <1>6, <1>10, <4>2
    <3> QED  BY <1>2, <2>6, <3>1, MarkedMore
  <2>9. Going(u8, st, n, q, v, a)
    <3>1. st > Len(Widths)  BY <1>1, <1>5 DEF InTail
    <3>2. SourceEnd <= a + Narrowest  BY <1>2
    <3>3. p \o d \in Seq(Byte)  BY <1>2, <2>2, ConcatProperties
    <3> QED  BY <2>6, <2>7, <2>8, <2>12, <3>1, <3>2, <3>3 DEF Going
  <2>10. Right3(Meaning, u8, n, q, "none")  BY DEF Right3
  <2>11. /\ text' = text /\ validateUtf8' = u8 /\ step' = st /\ src' = n /\ out' = q /\ validator' = v
         /\ tailStart' = a /\ answer' = "none"
    BY <1>1, <1>2, <1>4, <1>5, <2>5, <2>6
  <2> QED  BY <2>9, <2>10, <2>11, ParseStays
<1> QED  BY <1>9, <1>10

---------------------------------------------------------------------------------
\* Every action of the parser keeps it,
LEMMA SoundStep ==
  ASSUME text \in Seq(Byte), InDocument, Sound, Next
  PROVE  Sound' \/ Stray'
<1>1. CASE CloseQuote        BY <1>1, CloseQuoteParse
<1>2. CASE TakeEscape        BY <1>2, TakeEscapeParse
<1>3. CASE TakeRegister      BY <1>3, TakeRegisterParse
<1>4. CASE NextWidth         BY <1>4, NextWidthParse
<1>5. CASE CloseQuoteInTail  BY <1>5, CloseQuoteInTailParse
<1>6. CASE TakeEscapeInTail  BY <1>6, TakeEscapeInTailParse
<1>7. CASE TakeByteInTail    BY <1>7, TakeByteInTailParse
<1> QED  BY <1>1, <1>2, <1>3, <1>4, <1>5, <1>6, <1>7 DEF Next

\* or the string breaks off at a stray escape, and goes on doing so.
LEMMA ParseStep ==
  ASSUME text \in Seq(Byte), InDocument, ParseInv, Next
  PROVE  ParseInv'
<1>1. text' = text /\ validateUtf8' = validateUtf8
  BY DEF Next, CloseQuote, TakeEscape, TakeRegister, NextWidth, CloseQuoteInTail, TakeEscapeInTail, TakeByteInTail
<1>2. CASE Stray
  <2>1. Stray'  BY <1>1, <1>2, StrayStays
  <2> QED  BY <1>1, <2>1 DEF ParseInv
<1>3. CASE Sound
  <2>1. Sound' \/ Stray'  BY <1>3, SoundStep
  <2> QED  BY <1>1, <2>1 DEF ParseInv
<1> QED  BY <1>2, <1>3 DEF ParseInv

\* So does what leaves the parser alone.
LEMMA SoundUnchanged ==
  ASSUME Sound, UNCHANGED vars
  PROVE  Sound'
<1>1. PICK u8, st, s, o, v, t, ans :
         /\ u8 \in BOOLEAN /\ u8 = validateUtf8 /\ st = step /\ s = src /\ o = out /\ v = validator /\ t = tailStart
         /\ ans = answer
  BY DEF Sound
<1>2. /\ text' = text /\ validateUtf8' = u8 /\ step' = st /\ src' = s /\ out' = o /\ validator' = v
      /\ tailStart' = t /\ answer' = ans
  BY <1>1 DEF vars
<1>3. (ans = "none" => Going(u8, st, s, o, v, t)) /\ Right3(Meaning, u8, s, o, ans)  BY <1>1 DEF Sound
<1>4. u8 \in BOOLEAN  BY <1>1
<1> QED  BY <1>2, <1>3, <1>4, ParseStays

\* What leaves the parser alone keeps its invariant.
LEMMA ParseUnchanged ==
  ASSUME ParseInv, UNCHANGED vars
  PROVE  ParseInv'
<1>1. text' = text /\ validateUtf8' = validateUtf8  BY DEF vars
<1>2. CASE Stray
  <2>1. Stray'  BY <1>1, <1>2, StrayStays
  <2> QED  BY <1>1, <2>1 DEF ParseInv
<1>3. CASE Sound
  <2>1. Sound'  BY <1>3, SoundUnchanged
  <2> QED  BY <1>1, <2>1 DEF ParseInv
<1> QED  BY <1>2, <1>3 DEF ParseInv

\* The parser is called: with a text of its own, or with what was written.
Called ==
  /\ text \in Seq(Byte) /\ validateUtf8 \in BOOLEAN /\ step = 1 /\ src = 0 /\ out = <<>>
  /\ validator = NewChecker /\ answer = "none"
NotCalled == phase = "serialize" => Called

\* Then it begins.
LEMMA CalledParses == Called => ParseInv
<1>1. SUFFICES ASSUME Called PROVE ParseInv  OBVIOUS
<1>2. Sound  BY <1>1, ParseBegins DEF Called
<1> QED  BY <1>1, <1>2 DEF ParseInv, Called

\* In all three phases it is called first,
LEMMA CalledInit == JsonTextInit => Called
<1>1. SUFFICES ASSUME JsonTextInit PROVE Called  OBVIOUS
<1>2. text \in Seq(Byte)  BY <1>1, TextsInit DEF TextsInv
<1>3. CASE Init  BY <1>2, <1>3 DEF Init, Called
<1>4. CASE IdleParser  BY <1>2, <1>4 DEF IdleParser, Called
<1> QED  BY <1>1, <1>3, <1>4 DEF JsonTextInit

\* and then it works, or is called after the writer is done.
LEMMA CalledStep ==
  TextsInv /\ TextsInv' /\ ParseInv /\ NotCalled /\ [JsonTextNext]_allVars
  => NotCalled' /\ (ParseInv' \/ Called')
<1>1. SUFFICES ASSUME TextsInv, TextsInv', ParseInv, NotCalled, [JsonTextNext]_allVars
               PROVE  NotCalled' /\ (ParseInv' \/ Called')
  OBVIOUS
<1>2. text \in Seq(Byte) /\ InDocument /\ text' \in Seq(Byte)  BY <1>1 DEF TextsInv
<1>3. ASSUME UNCHANGED vars, phase' = phase PROVE NotCalled' /\ ParseInv'
  <2>1. ParseInv'  BY <1>1, <1>3, ParseUnchanged
  <2>2. NotCalled'  BY <1>1, <1>3 DEF NotCalled, Called, vars
  <2> QED  BY <2>1, <2>2
<1>4. CASE Check
  <2>1. UNCHANGED vars /\ phase' = phase  BY <1>4 DEF Check, parserVars
  <2> QED  BY <1>3, <2>1
<1>5. CASE Parse
  <2>1. phase = "parse" /\ phase' = "parse" /\ Next  BY <1>5 DEF Parse
  <2>2. ParseInv'  BY <1>1, <1>2, <2>1, ParseStep
  <2>3. NotCalled'  BY <2>1 DEF NotCalled
  <2> QED  BY <2>2, <2>3
<1>6. CASE Serialize
  <2>1. UNCHANGED vars /\ phase' = phase  BY <1>6 DEF Serialize, parserVars
  <2> QED  BY <1>3, <2>1
<1>7. CASE ReadBack
  <2>1. /\ phase = "serialize" /\ phase' = "parse" /\ validateUtf8' \in BOOLEAN
        /\ UNCHANGED <<step, src, out, stored, validator, tailStart, answer>>
    BY <1>7 DEF ReadBack
  <2>2. Called  BY <1>1, <2>1 DEF NotCalled
  <2>3. Called'  BY <1>2, <2>1, <2>2 DEF Called
  <2>4. NotCalled'  BY <2>1 DEF NotCalled
  <2> QED  BY <2>3, <2>4
<1>8. CASE UNCHANGED allVars
  <2>1. UNCHANGED vars /\ phase' = phase  BY <1>8 DEF allVars, parserVars
  <2> QED  BY <1>3, <2>1
<1> QED  BY <1>1, <1>4, <1>5, <1>6, <1>7, <1>8 DEF JsonTextNext, Stopped

\* It holds always.
LEMMA ParseAlways == JsonTextSpec => []ParseInv
<1>1. JsonTextInit => ParseInv /\ NotCalled  BY CalledInit, CalledParses DEF NotCalled
<1>2. TextsInv /\ TextsInv' /\ ParseInv /\ NotCalled /\ [JsonTextNext]_allVars
      => NotCalled' /\ (ParseInv' \/ Called')
  BY CalledStep
<1> QED  BY <1>1, <1>2, CalledParses, TextsInit, TextsStep, PTL DEF JsonTextSpec

\* Decodes holds for every text, option, list of register widths and whatever is
\* before the digit tables: a text that string_parser accepts without a stray escape
\* has a closing quote and only escapes of RFC 8259, is decoded to what its
\* characters mean, and holds no control character but near before a quote or a
\* backslash, where string_parse_step does not look for them.
THEOREM DecodesAlways == JsonTextSpec => []Decodes
<1>1. ParseInv /\ TextsInv => Decodes  BY RightIs3 DEF TextsInv
<1>2. JsonTextSpec => []TextsInv  BY TextsInit, TextsStep, PTL DEF JsonTextSpec
<1> QED  BY <1>1, <1>2, ParseAlways, PTL

\* RefusesOnlyBad holds: what it refuses is no string, has a control character, or
\* is not UTF-8 where that was asked for.
THEOREM RefusesOnlyBadAlways == JsonTextSpec => []RefusesOnlyBad
<1>1. ParseInv /\ TextsInv => RefusesOnlyBad  BY RightIs3 DEF TextsInv
<1>2. JsonTextSpec => []TextsInv  BY TextsInit, TextsStep, PTL DEF JsonTextSpec
<1> QED  BY <1>1, <1>2, ParseAlways, PTL

\* ValidatesUtf8 holds: with validation, what it accepts without a stray escape is
\* UTF-8 besides its escapes.
THEOREM ValidatesUtf8Always == JsonTextSpec => []ValidatesUtf8
<1>1. ParseInv /\ TextsInv => ValidatesUtf8  BY RightIs3 DEF TextsInv
<1>2. JsonTextSpec => []TextsInv  BY TextsInit, TextsStep, PTL DEF JsonTextSpec
<1> QED  BY <1>1, <1>2, ParseAlways, PTL

---------------------------------------------------------------------------------
(* What the writer writes for a value, and what a reader makes of it. *)

\* What is written for a byte.
Escaped(c) == IF Writer!escapeTable(c) = <<>> THEN <<c>> ELSE Writer!escapeTable(c)

\* The bytes that are written so that they can be read.
Writable == Byte \ NotEscaped

\* w is what is written for v: nothing for nothing, and for each byte more what
\* stands for it.
Pairs == Seq(Byte) \X Seq(Byte)
Closed(R) ==
  /\ <<<<>>, <<>>>> \in R
  /\ \A w \in Seq(Byte), v \in Seq(Byte), c \in Writable :
       <<w, v>> \in R => <<w \o Escaped(c), v \o <<c>>>> \in R
Encodes(w, v) == w \in Seq(Byte) /\ v \in Seq(Byte) /\ \A R \in SUBSET Pairs : Closed(R) => <<w, v>> \in R

\* For nothing nothing is written.
LEMMA EncodesNothing == Encodes(<<>>, <<>>)
BY DEF Encodes, Closed

\* What is written for a byte is bytes.
LEMMA EscapedIs ==
  ASSUME NEW c \in Byte
  PROVE  Escaped(c) \in Seq(Byte) /\ <<c>> \in Seq(Byte)
<1>1. Writer!escapeTable(c) \in Seq(Byte)  BY EscapesAre
<1>2. <<c>> \in Seq(Byte)  OBVIOUS
<1> QED  BY <1>1, <1>2 DEF Escaped

\* One byte more.
LEMMA EncodesByte ==
  ASSUME NEW w, NEW v, Encodes(w, v), NEW c \in Writable
  PROVE  Encodes(w \o Escaped(c), v \o <<c>>)
<1>1. w \in Seq(Byte) /\ v \in Seq(Byte)  BY DEF Encodes
<1>2. PICK b \in Seq(Byte), d \in Seq(Byte) : b = Escaped(c) /\ d = <<c>>
  <2>1. c \in Byte  BY DEF Writable
  <2> QED  BY <2>1, EscapedIs
<1>3. w \o b \in Seq(Byte) /\ v \o d \in Seq(Byte)  BY <1>1, <1>2, ConcatProperties
<1>4. ASSUME NEW R \in SUBSET Pairs, Closed(R) PROVE <<w \o b, v \o d>> \in R
  <2>1. <<w, v>> \in R  BY <1>4 DEF Encodes
  <2>2. <<w, v>> \in R => <<w \o Escaped(c), v \o <<c>>>> \in R  BY <1>1, <1>4 DEF Closed
  <2> QED  BY <1>2, <2>1, <2>2
<1> QED  BY <1>2, <1>3, <1>4 DEF Encodes

\* What is appended can be joined first, of bytes too.
LEMMA JoinedBytes ==
  ASSUME NEW a \in Seq(Byte), NEW b \in Seq(Byte), NEW c \in Seq(Byte)
  PROVE  (a \o b) \o c = a \o (b \o c)
BY ConcatAssociative

\* The first bytes of a sequence, and one more.
LEMMA FirstBytes ==
  ASSUME NEW bs \in Seq(Byte), NEW n \in Nat, n = Len(bs), NEW k \in Nat, k < n
  PROVE  /\ SubSeq(bs, 1, k) \in Seq(Byte) /\ SubSeq(bs, 1, k + 1) = SubSeq(bs, 1, k) \o <<bs[k + 1]>>
         /\ SubSeq(bs, 1, 0) = <<>> /\ SubSeq(bs, 1, n) = bs /\ bs[k + 1] \in Byte
<1>1. \A i \in 1..n : bs[i] \in Byte  BY ElementOfSeq
<1>2. k + 1 \in 1..n  OBVIOUS
<1>3. PICK c \in Byte : c = bs[k + 1]  BY <1>1, <1>2
<1>4. PICK a : a = SubSeq(bs, 1, k)  OBVIOUS
<1>5. a \in Seq(Byte) /\ Len(a) = k /\ \A i \in 1..k : a[i] = bs[i]
  <2>1. \A i \in 1..k : i \in 1..n  OBVIOUS
  <2> QED  BY <1>1, <1>4, <2>1
<1>6. PICK d : d = SubSeq(bs, 1, k + 1)  OBVIOUS
<1>7. d \in Seq(Byte) /\ Len(d) = k + 1 /\ \A i \in 1..(k + 1) : d[i] = bs[i]
  <2>1. \A i \in 1..(k + 1) : i \in 1..n  OBVIOUS
  <2> QED  BY <1>1, <1>6, <2>1
<1>8. d = a \o <<c>>
  <2>1. PICK l : l = <<c>> /\ l \in Seq(Byte) /\ Len(l) = 1 /\ l[1] = c
    <3>1. <<c>> \in Seq(Byte) /\ Len(<<c>>) = 1 /\ <<c>>[1] = c  OBVIOUS
    <3> QED  BY <3>1
  <2>2. PICK e : /\ e = a \o l /\ e \in Seq(Byte) /\ Len(e) = k + 1
                 /\ \A i \in 1..(k + 1) : e[i] = IF i <= k THEN a[i] ELSE l[i - k]
    <3>1. /\ a \o l \in Seq(Byte) /\ Len(a \o l) = Len(a) + Len(l)
          /\ \A i \in 1..(Len(a) + Len(l)) : (a \o l)[i] = IF i <= Len(a) THEN a[i] ELSE l[i - Len(a)]
      BY <1>5, <2>1, ConcatProperties
    <3>2. Len(a) = k /\ Len(l) = 1  BY <1>5, <2>1
    <3> QED  BY <3>1, <3>2
  <2>3. \A i \in 1..(k + 1) : d[i] = e[i]
    <3>1. ASSUME NEW i \in 1..(k + 1) PROVE d[i] = e[i]
      <4>1. CASE i <= k  BY <1>5, <1>7, <2>2, <4>1
      <4>2. CASE i = k + 1
        <5>1. i - k = 1 /\ ~(i <= k)  BY <4>2
        <5> QED  BY <1>3, <1>7, <2>1, <2>2, <4>2, <5>1
      <4> QED  BY <4>1, <4>2
    <3> QED  BY <3>1
  <2> QED  BY <1>7, <2>1, <2>2, <2>3, SeqEqual
<1>9. SubSeq(bs, 1, 0) = <<>>  OBVIOUS
<1>10. SubSeq(bs, 1, n) = bs
  <2>1. PICK f : f = SubSeq(bs, 1, n)  OBVIOUS
  <2>2. f \in Seq(Byte) /\ Len(f) = n /\ \A i \in 1..n : f[i] = bs[i]  BY <1>1, <2>1
  <2> QED  BY <2>1, <2>2, SeqEqual
<1> QED  BY <1>3, <1>4, <1>5, <1>6, <1>8, <1>9, <1>10

\* Bytes that need no escape are written as they are.
LEMMA EncodesPlain ==
  ASSUME NEW w, NEW v, Encodes(w, v), NEW bs \in Seq(Byte), NEW n \in Nat, n = Len(bs),
         \A i \in 1..n : bs[i] \in Writable /\ Writer!escapeTable(bs[i]) = <<>>
  PROVE  Encodes(w \o bs, v \o bs)
<1> DEFINE T == {k \in Nat : k <= n => Encodes(w \o SubSeq(bs, 1, k), v \o SubSeq(bs, 1, k))}
<1>1. w \in Seq(Byte) /\ v \in Seq(Byte)  BY DEF Encodes
<1>2. 0 \in T
  <2>1. SubSeq(bs, 1, 0) = <<>>  OBVIOUS
  <2>2. w \o <<>> = w /\ v \o <<>> = v  BY <1>1, ConcatEmptySeq
  <2> QED  BY <2>1, <2>2
<1>3. ASSUME NEW k \in T PROVE k + 1 \in T
  <2>1. SUFFICES ASSUME k + 1 <= n PROVE Encodes(w \o SubSeq(bs, 1, k + 1), v \o SubSeq(bs, 1, k + 1))
    OBVIOUS
  <2>2. PICK a \in Seq(Byte), c \in Byte :
          a = SubSeq(bs, 1, k) /\ c = bs[k + 1] /\ SubSeq(bs, 1, k + 1) = a \o <<c>>
    <3>1. k \in Nat /\ k < n  BY <2>1
    <3>2. /\ SubSeq(bs, 1, k) \in Seq(Byte) /\ SubSeq(bs, 1, k + 1) = SubSeq(bs, 1, k) \o <<bs[k + 1]>>
          /\ bs[k + 1] \in Byte
      BY <3>1, FirstBytes
    <3> QED  BY <3>2
  <2>3. Encodes(w \o a, v \o a)  BY <1>3, <2>1, <2>2
  <2>4. c \in Writable /\ Writer!escapeTable(c) = <<>>  BY <2>1, <2>2
  <2>5. Escaped(c) = <<c>>  BY <2>4 DEF Escaped
  <2>6. Encodes((w \o a) \o <<c>>, (v \o a) \o <<c>>)
    <3>1. Encodes((w \o a) \o Escaped(c), (v \o a) \o <<c>>)  BY <2>3, <2>4, EncodesByte
    <3> QED  BY <2>5, <3>1
  <2>7. (w \o a) \o <<c>> = w \o (a \o <<c>>) /\ (v \o a) \o <<c>> = v \o (a \o <<c>>)
    <3>1. PICK l \in Seq(Byte) : l = <<c>>
      <4>1. <<c>> \in Seq(Byte)  BY EscapedIs
      <4> QED  BY <4>1
    <3>2. (w \o a) \o l = w \o (a \o l) /\ (v \o a) \o l = v \o (a \o l)
      <4>1. a \in Seq(Byte) /\ w \in Seq(Byte) /\ v \in Seq(Byte) /\ l \in Seq(Byte)  BY <1>1, <2>2, <3>1
      <4>2. (w \o a) \o l = w \o (a \o l)  BY <4>1, JoinedBytes, SMTT(40)
      <4>3. (v \o a) \o l = v \o (a \o l)  BY <4>1, JoinedBytes, SMTT(40)
      <4> QED  BY <4>2, <4>3
    <3> QED  BY <3>1, <3>2
  <2> QED  BY <2>2, <2>6, <2>7
<1> HIDE DEF T
<1>4. T = Nat  BY <1>2, <1>3, Induction DEF T
<1>5. n \in T /\ n <= n  BY <1>4
<1>6. SubSeq(bs, 1, n) = bs
  <2>1. \A i \in 1..n : bs[i] \in Byte  BY ElementOfSeq
  <2>2. PICK f : f = SubSeq(bs, 1, n)  OBVIOUS
  <2>3. f \in Seq(Byte) /\ Len(f) = n /\ \A i \in 1..n : f[i] = bs[i]  BY <2>1, <2>2
  <2> QED  BY <2>2, <2>3, SeqEqual
<1> QED  BY <1>5, <1>6 DEF T

\* A byte is written as it is, as an escape of one letter, or by its code.
AsItIs(c)   == Escaped(c) = <<c>> /\ Writer!escapeTable(c) = <<>> /\ c >= 32 /\ c # Quote /\ c # Backslash
ByLetter(c) == \E l \in Byte : /\ Escaped(c) = <<Backslash, l>> /\ c < 128 /\ 32 <= l /\ l < 128
                               /\ l \in DOMAIN ShortEscape /\ ShortEscape[l] = c
ByCode(c)   ==
  \E h \in Byte, l \in Byte :
    /\ Escaped(c) = <<Backslash, u, 48, 48, h, l>> /\ c < 32 /\ 32 <= h /\ h < 128 /\ 32 <= l /\ l < 128
    /\ h \in DOMAIN Hex /\ l \in DOMAIN Hex /\ c = Hex[h] * 16 + Hex[l]

\* The digits of the serializer are those of the parser.
LEMMA DigitsAgree ==
  /\ \A q \in 0..1 : 48 + q \in DOMAIN Hex /\ Hex[48 + q] = q
  /\ \A r \in 0..15 : /\ Writer!HexDigit(r) \in DOMAIN Hex /\ Hex[Writer!HexDigit(r)] = r
                      /\ Writer!HexDigit(r) \in 48..70
  /\ 48 \in DOMAIN Hex /\ Hex[48] = 0
<1>1. \A q \in 0..1 : 48 + q \in DOMAIN Hex /\ Hex[48 + q] = q  BY DEF Hex
<1>2. ASSUME NEW r \in 0..15
      PROVE  /\ Writer!HexDigit(r) \in DOMAIN Hex /\ Hex[Writer!HexDigit(r)] = r
             /\ Writer!HexDigit(r) \in 48..70
  <2>1. CASE r < 10
    <3>1. PICK d \in 48..57 : d = Writer!HexDigit(r) /\ d = 48 + r  BY <2>1 DEF Writer!HexDigit
    <3>2. d \in DOMAIN Hex /\ Hex[d] = d - 48  BY DEF Hex
    <3> QED  BY <3>1, <3>2
  <2>2. CASE r >= 10
    <3>1. PICK d \in 65..70 : d = Writer!HexDigit(r) /\ d = 55 + r  BY <2>2 DEF Writer!HexDigit
    <3>2. d \in DOMAIN Hex /\ Hex[d] = d - 55  BY DEF Hex
    <3> QED  BY <3>1, <3>2
  <2> QED  BY <2>1, <2>2
<1>3. 48 \in DOMAIN Hex /\ Hex[48] = 0  BY DEF Hex
<1> QED  BY <1>1, <1>2, <1>3

\* That is so of every byte that can be read.
LEMMA EscapedShape == ASSUME NEW c \in Writable PROVE AsItIs(c) \/ ByLetter(c) \/ ByCode(c)
<1> DEFINE L == DOMAIN Writer!Letters
<1>1. c \in Byte /\ c # 0 /\ c # 7 /\ c # 11  BY DEF Writable, NotEscaped
<1>2. CASE c \in L
  <2>1. c \in {8, 9, 10, 12, 13, 34, 92}  BY <1>1, <1>2 DEF Writer!Letters
  <2>2. PICK l : l = Writer!Letters[c]  BY SMTT(40)
  <2>3. /\ l \in Byte /\ 32 <= l /\ l < 128 /\ l \in DOMAIN ShortEscape /\ ShortEscape[l] = c
    <3>1. <<c, l>> \in {<<8, 98>>, <<9, 116>>, <<10, 110>>, <<12, 102>>, <<13, 114>>, <<34, 34>>, <<92, 92>>}
      BY <2>1, <2>2 DEF Writer!Letters
    <3>2. l \in {98, 116, 110, 102, 114, 34, 92}  BY <3>1
    <3>3. l \in DOMAIN ShortEscape /\ l \in Byte /\ 32 <= l /\ l < 128  BY <3>2 DEF ShortEscape, Byte
    <3>4. ShortEscape[l] = c  BY <3>1 DEF ShortEscape
    <3> QED  BY <3>3, <3>4
  <2>4. Writer!escapeTable(c) = <<92, l>>  BY <1>2, <2>2 DEF Writer!escapeTable, Writer!Backslash
  <2>5. <<92, l>> # <<>>  BY TailIs
  <2>6. Escaped(c) = <<Backslash, l>>  BY <2>4, <2>5 DEF Escaped, Backslash
  <2>7. c < 128  BY <2>1
  <2> QED  BY <2>3, <2>6, <2>7 DEF ByLetter
<1>3. CASE c \notin L /\ c \in 1..31
  <2>1. PICK q \in 0..1, r \in 0..15 : q = c \div 16 /\ r = c % 16 /\ c = q * 16 + r
    BY <1>3
  <2>2. PICK h \in 48..49, l \in 48..70 : h = 48 + q /\ l = Writer!HexDigit(r)  BY DigitsAgree
  <2>3. h \in DOMAIN Hex /\ Hex[h] = q /\ l \in DOMAIN Hex /\ Hex[l] = r  BY <2>2, DigitsAgree
  <2>4. Writer!escapeTable(c) = <<92, 117, 48, 48, h, l>>
    <3>1. ~(c \in DOMAIN Writer!Letters) /\ c \in 1..31 \ DOMAIN Writer!Letters  BY <1>3
    <3> QED  BY <2>1, <2>2, <3>1 DEF Writer!escapeTable, Writer!Backslash
  <2>5. <<92, 117, 48, 48, h, l>> # <<>>  OBVIOUS
  <2>6. Escaped(c) = <<Backslash, u, 48, 48, h, l>>  BY <2>4, <2>5 DEF Escaped, Backslash, u
  <2>7. h \in Byte /\ l \in Byte  BY DEF Byte
  <2>8. c < 32 /\ 32 <= h /\ h < 128 /\ 32 <= l /\ l < 128  BY <1>3, <2>2
  <2>9. c = Hex[h] * 16 + Hex[l]  BY <2>1, <2>3
  <2> QED  BY <2>3, <2>6, <2>7, <2>8, <2>9 DEF ByCode
<1>4. CASE c \notin L /\ c \notin 1..31
  <2>1. Writer!escapeTable(c) = <<>>
    <3>1. ~(c \in DOMAIN Writer!Letters) /\ ~(c \in 1..31 \ DOMAIN Writer!Letters)  BY <1>4
    <3> QED  BY <3>1 DEF Writer!escapeTable
  <2>2. c >= 32  BY <1>1, <1>4 DEF Byte
  <2>3. c # 34 /\ c # 92  BY <1>4 DEF Writer!Letters
  <2> QED  BY <2>1, <2>2, <2>3 DEF AsItIs, Escaped, Quote, Backslash
<1> QED  BY <1>2, <1>3, <1>4

\* What is written for a byte is printable and reads as UTF-8 as the byte does.
LEMMA EscapedReads ==
  ASSUME NEW c \in Writable, NEW e, Asks(e), NEW b, b = Escaped(c)
  PROVE  /\ ReadsAll(e, b) = ReadsAll(e, <<c>>)
         /\ b \in Seq(Byte) /\ \A i \in 1..Len(b) : b[i] >= 32
<1>1. c \in Byte  BY DEF Writable
<1>2. b \in Seq(Byte) /\ <<c>> \in Seq(Byte)  BY <1>1, EscapedIs
<1>3. CASE AsItIs(c)
  <2>1. b = <<c>> /\ c >= 32  BY <1>3 DEF AsItIs
  <2>2. Len(<<c>>) = 1 /\ <<c>>[1] = c  OBVIOUS
  <2>3. \A i \in 1..Len(b) : b[i] >= 32  BY <2>1, <2>2
  <2> QED  BY <1>2, <2>1, <2>3
<1>4. ASSUME b # <<>>, isAscii(b), c < 128 PROVE ReadsAll(e, b) = ReadsAll(e, <<c>>)
  <2>1. isAscii(<<c>>) /\ <<c>> # <<>>
    <3>1. DOMAIN <<c>> = {1} /\ <<c>>[1] = c /\ <<c>> # <<>>  OBVIOUS
    <3> QED  BY <1>4, <3>1 DEF isAscii
  <2>2. ReadsAll(e, <<c>>) = IF e = <<>> THEN <<>> ELSE Bad  BY <1>2, <2>1, AsksAll
  <2>3. ReadsAll(e, b) = IF e = <<>> THEN <<>> ELSE Bad  BY <1>2, <1>4, AsksAll
  <2> QED  BY <2>2, <2>3
<1>5. CASE ByLetter(c)
  <2>1. PICK l \in Byte : b = <<92, l>> /\ c < 128 /\ 32 <= l /\ l < 128  BY <1>5 DEF ByLetter, Backslash
  <2>2. Len(b) = 2 /\ b[1] = 92 /\ b[2] = l /\ DOMAIN b = 1..2  BY <2>1
  <2>3. \A i \in 1..2 : b[i] >= 32 /\ b[i] < 128
    <3>1. ASSUME NEW i \in 1..2 PROVE b[i] >= 32 /\ b[i] < 128
      <4>1. i = 1 \/ i = 2  OBVIOUS
      <4> QED  BY <2>1, <2>2, <4>1
    <3> QED  BY <3>1
  <2>4. isAscii(b) /\ b # <<>>
    <3>1. isAscii(b)  BY <2>2, <2>3 DEF isAscii
    <3>2. b # <<>>  BY <2>1
    <3> QED  BY <3>1, <3>2
  <2> QED  BY <1>2, <1>4, <2>1, <2>2, <2>3, <2>4
<1>6. CASE ByCode(c)
  <2>1. PICK h \in Byte, l \in Byte :
          /\ b = <<92, 117, 48, 48, h, l>> /\ c < 32 /\ 32 <= h /\ h < 128 /\ 32 <= l /\ l < 128
    BY <1>6 DEF ByCode, Backslash, u
  <2>2. /\ Len(b) = 6 /\ b[1] = 92 /\ b[2] = 117 /\ b[3] = 48 /\ b[4] = 48 /\ b[5] = h /\ b[6] = l
        /\ DOMAIN b = 1..6
    BY <2>1
  <2>3. \A i \in 1..6 : b[i] >= 32 /\ b[i] < 128
    <3>1. ASSUME NEW i \in 1..6 PROVE b[i] >= 32 /\ b[i] < 128
      <4>1. i = 1 \/ i = 2 \/ i = 3 \/ i = 4 \/ i = 5 \/ i = 6  OBVIOUS
      <4> QED  BY <2>1, <2>2, <4>1
    <3> QED  BY <3>1
  <2>4. isAscii(b) /\ b # <<>> /\ c < 128
    <3>1. isAscii(b)  BY <2>2, <2>3 DEF isAscii
    <3>2. b # <<>>  BY <2>1
    <3>3. c < 128  BY <1>1, <2>1 DEF Byte
    <3> QED  BY <3>1, <3>2, <3>3
  <2> QED  BY <1>2, <1>4, <2>2, <2>3, <2>4
<1> QED  BY <1>3, <1>5, <1>6, EscapedShape

\* What is written for a byte, where it stands in a text, is the character that means the byte.
LEMMA EncodedChar ==
  ASSUME text \in Seq(Byte), NEW s \in Nat, NEW c \in Writable, NEW n \in Nat, n = Len(Escaped(c)),
         s + n <= SourceEnd, \A k \in 1..n : At(s + k - 1) = Escaped(c)[k]
  PROVE  /\ At(s) # Quote /\ CharAt(s) # NoChar /\ CharAt(s).length = n /\ CharAt(s).bytes = <<c>>
<1>1. text \in Seq(Nat) /\ c \in Byte  BY RunIs DEF Writable
<1>2. PICK z \in Nat : z = SourceEnd  BY <1>1, AtIs
<1>3. PICK b : b = Escaped(c) /\ n = Len(b)  OBVIOUS
<1>4. CASE AsItIs(c)
  <2>1. b = <<c>> /\ c # Quote /\ c # Backslash  BY <1>3, <1>4 DEF AsItIs
  <2>2. n = 1 /\ b[1] = c
    <3>1. Len(<<c>>) = 1 /\ <<c>>[1] = c  OBVIOUS
    <3> QED  BY <1>3, <2>1, <3>1
  <2>3. At(s) = c /\ s < z
    <3>1. 1 \in 1..n /\ s + 1 - 1 = s  BY <2>2
    <3>2. At(s + 1 - 1) = b[1]  BY <1>3, <3>1
    <3> QED  BY <1>2, <2>2, <3>1, <3>2
  <2>4. CharAt(s).length = 1 /\ CharAt(s).bytes = <<At(s)>> /\ CharAt(s) # NoChar
    BY <1>1, <1>2, <2>1, <2>3, CharTakes
  <2> QED  BY <2>1, <2>2, <2>3, <2>4
<1>5. CASE ByLetter(c)
  <2>1. PICK l \in Byte : b = <<92, l>> /\ l \in DOMAIN ShortEscape /\ ShortEscape[l] = c
    BY <1>3, <1>5 DEF ByLetter, Backslash
  <2>2. n = 2 /\ b[1] = 92 /\ b[2] = l  BY <1>3, <2>1
  <2>3. At(s) = 92 /\ At(s + 1) = l /\ s < z
    <3>1. 1 \in 1..n /\ s + 1 - 1 = s /\ 2 \in 1..n /\ s + 2 - 1 = s + 1  BY <2>2
    <3>2. At(s + 1 - 1) = b[1] /\ At(s + 2 - 1) = b[2]  BY <1>3, <3>1
    <3> QED  BY <1>2, <2>2, <3>1, <3>2
  <2>4. l # u
    <3>1. DOMAIN ShortEscape = {34, 47, 92, 98, 102, 110, 114, 116}  BY DEF ShortEscape
    <3>2. 117 \notin {34, 47, 92, 98, 102, 110, 114, 116}  OBVIOUS
    <3> QED  BY <2>1, <3>1, <3>2 DEF u
  <2>5. ~IsUnicode(s) /\ ~IsHigh(s)  BY <2>3, <2>4 DEF IsUnicode, IsHigh
  <2>6. CharAt(s) = Char(2, <<c>>)
    <3>1. ~(s >= SourceEnd) /\ ~(At(s) # Backslash) /\ At(s + 1) \in DOMAIN ShortEscape
      BY <1>2, <2>1, <2>3 DEF Backslash
    <3>2. ShortEscape[At(s + 1)] = c  BY <2>1, <2>3
    <3> QED  BY <2>5, <3>1, <3>2 DEF CharAt
  <2>7. CharAt(s).length = 2 /\ CharAt(s).bytes = <<c>> /\ CharAt(s) # NoChar  BY <2>6 DEF Char, NoChar
  <2>8. At(s) # Quote  BY <2>3 DEF Quote
  <2> QED  BY <2>2, <2>7, <2>8
<1>6. CASE ByCode(c)
  <2>1. PICK h \in Byte, l \in Byte :
          /\ b = <<92, 117, 48, 48, h, l>> /\ c < 32
          /\ h \in DOMAIN Hex /\ l \in DOMAIN Hex /\ c = Hex[h] * 16 + Hex[l]
    BY <1>3, <1>6 DEF ByCode, Backslash, u
  <2>2. n = 6 /\ b[1] = 92 /\ b[2] = 117 /\ b[3] = 48 /\ b[4] = 48 /\ b[5] = h /\ b[6] = l
    BY <1>3, <2>1
  <2>3. /\ At(s) = 92 /\ At(s + 1) = 117 /\ At(s + 2) = 48 /\ At(s + 3) = 48 /\ At(s + 4) = h /\ At(s + 5) = l
        /\ s < z
    <3>1. \A k \in 1..6 : At(s + k - 1) = b[k]  BY <1>3, <2>2
    <3>2. /\ At(s + 1 - 1) = b[1] /\ At(s + 2 - 1) = b[2] /\ At(s + 3 - 1) = b[3]
          /\ At(s + 4 - 1) = b[4] /\ At(s + 5 - 1) = b[5] /\ At(s + 6 - 1) = b[6]
      BY <3>1
    <3>3. /\ s + 1 - 1 = s /\ s + 2 - 1 = s + 1 /\ s + 3 - 1 = s + 2
          /\ s + 4 - 1 = s + 3 /\ s + 5 - 1 = s + 4 /\ s + 6 - 1 = s + 5
      OBVIOUS
    <3> QED  BY <1>2, <2>2, <3>2, <3>3
  <2>4. FourHex(s + 2)
    <3>1. 48 \in DOMAIN Hex  BY DigitsAgree
    <3>2. ASSUME NEW k \in (s + 2)..(s + 2 + 3) PROVE At(k) \in DOMAIN Hex
      <4>1. k = s + 2 \/ k = s + 3 \/ k = s + 4 \/ k = s + 5  OBVIOUS
      <4> QED  BY <2>1, <2>3, <3>1, <4>1, SMTT(40)
    <3> QED  BY <3>2 DEF FourHex
  <2>5. Unit(s) = c
    <3>1. Hex[48] = 0  BY DigitsAgree
    <3>2. Hex[h] \in 0..15 /\ Hex[l] \in 0..15  BY <2>1, HexDigit
    <3>3. ((0 * 16 + 0) * 16 + Hex[h]) * 16 + Hex[l] = Hex[h] * 16 + Hex[l]  BY <3>2, SMTT(40)
    <3> QED  BY <2>1, <2>3, <3>1, <3>3 DEF Unit
  <2>6. IsUnicode(s) /\ ~IsHigh(s) /\ ~IsLow(s)
    <3>1. IsUnicode(s)  BY <2>3, <2>4 DEF IsUnicode, Backslash, u
    <3>2. c \notin 55296..56319 /\ c \notin 56320..57343
      <4>1. c \in Int  BY <1>1 DEF Byte
      <4>2. PICK k \in Int : k = c /\ k < 32  BY <2>1, <4>1
      <4>3. k \notin 55296..56319  BY <4>2, SMTT(40)
      <4>4. k \notin 56320..57343  BY <4>2, SMTT(40)
      <4> QED  BY <4>2, <4>3, <4>4
    <3> QED  BY <2>5, <3>1, <3>2 DEF IsHigh, IsLow
  <2>7. Utf8Of(c) = <<c>>
    <3>1. c < 128 /\ ~(128 <= c)  BY <1>1, <2>1, SMTT(40) DEF Byte
    <3>2. ~(128 <= c /\ c < 2048) /\ ~(2048 <= c /\ c < 65536)  BY <1>1, <2>1, SMTT(40) DEF Byte
    <3> QED  BY <3>1, <3>2 DEF Utf8Of
  <2>8. CharAt(s) = Char(6, <<c>>)
    <3>1. ~(s >= SourceEnd) /\ ~(At(s) # Backslash) /\ At(s + 1) \notin DOMAIN ShortEscape
      <4>1. 117 \notin DOMAIN ShortEscape  BY DEF ShortEscape
      <4>2. At(s + 1) = 117 /\ At(s) = Backslash  BY <2>3 DEF Backslash, u
      <4>3. ~(s >= SourceEnd)  BY <1>2, <2>3
      <4> QED  BY <4>1, <4>2, <4>3
    <3> QED  BY <2>5, <2>6, <2>7, <3>1 DEF CharAt
  <2>9. CharAt(s).length = 6 /\ CharAt(s).bytes = <<c>> /\ CharAt(s) # NoChar  BY <2>8 DEF Char, NoChar
  <2>10. At(s) # Quote  BY <2>3 DEF Quote
  <2> QED  BY <2>2, <2>9, <2>10
<1> QED  BY <1>4, <1>5, <1>6, EscapedShape

\* A text begins with w.
Begins(w) == Len(w) <= SourceEnd /\ \A i \in 1..Len(w) : At(i - 1) = w[i]

\* It has meant v then, w has no control character and reads as UTF-8 as v does.
Says(w, v) ==
  /\ \E p : Continues(v, p, Len(w))
  /\ \A i \in 1..Len(w) : w[i] >= 32
  /\ ReadsAll(<<>>, w) = ReadsAll(<<>>, v)

\* So it does before anything is written,
LEMMA SaysNothing == ASSUME text \in Seq(Byte) PROVE Says(<<>>, <<>>)
<1>1. text \in Seq(Nat)  BY RunIs
<1>2. Len(<<>>) = 0  OBVIOUS
<1> QED  BY <1>1, <1>2, ContinuesFirst DEF Says

\* and after each byte more.
LEMMA SaysByte ==
  ASSUME text \in Seq(Byte), NEW w \in Seq(Byte), NEW v \in Seq(Byte), NEW c \in Writable,
         Begins(w) => Says(w, v), Begins(w \o Escaped(c))
  PROVE  Says(w \o Escaped(c), v \o <<c>>)
<1>1. text \in Seq(Nat) /\ c \in Byte  BY RunIs DEF Writable
<1>2. PICK b \in Seq(Byte), l \in Seq(Byte) : b = Escaped(c) /\ l = <<c>>  BY <1>1, EscapedIs
<1>3. PICK m \in Nat, n \in Nat : m = Len(w) /\ n = Len(b)  BY LenProperties
<1>4. PICK d \in Seq(Byte) : /\ d = w \o b /\ Len(d) = m + n
                             /\ \A i \in 1..(m + n) : d[i] = IF i <= m THEN w[i] ELSE b[i - m]
  <2>1. w \o b \in Seq(Byte) /\ Len(w \o b) = m + n  BY <1>3, ConcatProperties
  <2>2. \A i \in 1..(m + n) : (w \o b)[i] = IF i <= m THEN w[i] ELSE b[i - m]  BY <1>3, ConcatProperties
  <2> QED  BY <2>1, <2>2
<1>5. PICK z \in Nat : z = SourceEnd  BY <1>1, AtIs
<1>6. m + n <= z /\ \A i \in 1..(m + n) : At(i - 1) = d[i]  BY <1>2, <1>4, <1>5 DEF Begins
<1>7. Begins(w)
  <2>1. \A i \in 1..m : i \in 1..(m + n)  OBVIOUS
  <2>2. ASSUME NEW i \in 1..m PROVE At(i - 1) = w[i]
    <3>1. i \in 1..(m + n) /\ i <= m  OBVIOUS
    <3>2. At(i - 1) = d[i] /\ d[i] = w[i]  BY <1>4, <1>6, <3>1
    <3> QED  BY <3>2
  <2>3. m <= z  BY <1>6
  <2> QED  BY <1>3, <1>5, <2>2, <2>3 DEF Begins
<1>8. Says(w, v)  BY <1>7
<1>9. \A k \in 1..n : At(m + k - 1) = b[k]
  <2>1. ASSUME NEW k \in 1..n PROVE At(m + k - 1) = b[k]
    <3>1. m + k \in 1..(m + n) /\ ~(m + k <= m) /\ (m + k) - m = k  OBVIOUS
    <3>2. At((m + k) - 1) = d[m + k] /\ d[m + k] = b[k]  BY <1>4, <1>6, <3>1
    <3> QED  BY <3>2
  <2> QED  BY <2>1
<1>10. PICK e : /\ e = CharAt(m) /\ At(m) # Quote /\ e # NoChar /\ e.length = n /\ e.bytes = l
  <2>1. \A k \in 1..n : At(m + k - 1) = Escaped(c)[k]  BY <1>2, <1>9
  <2>2. m + n <= SourceEnd /\ n = Len(Escaped(c))  BY <1>2, <1>3, <1>5, <1>6
  <2>3. /\ At(m) # Quote /\ CharAt(m) # NoChar /\ CharAt(m).length = n /\ CharAt(m).bytes = <<c>>
    BY <2>1, <2>2, EncodedChar
  <2> QED  BY <1>2, <2>3
<1>11. PICK p : Continues(v, p, m)  BY <1>3, <1>8 DEF Says
<1>12. \E q : Continues(v \o l, q, m + n)
  <2>1. Continues(v \o e.bytes, IF e.length = 1 THEN p \o e.bytes ELSE p, m + e.length)
    BY <1>1, <1>10, <1>11, ContinuesChar
  <2> QED  BY <1>10, <2>1
<1>13. \A i \in 1..(m + n) : d[i] >= 32
  <2>1. \A i \in 1..m : w[i] >= 32  BY <1>3, <1>8 DEF Says
  <2>2. \A i \in 1..n : b[i] >= 32  BY <1>2, <1>3, EscapedReads, AsksSome
  <2>3. ASSUME NEW i \in 1..(m + n) PROVE d[i] >= 32
    <3>1. CASE i <= m  BY <1>4, <2>1, <3>1
    <3>2. CASE ~(i <= m)
      <4>1. i - m \in 1..n  BY <3>2
      <4> QED  BY <1>4, <2>2, <3>2, <4>1
    <3> QED  BY <3>1, <3>2
  <2> QED  BY <2>3
<1>14. ReadsAll(<<>>, d) = ReadsAll(<<>>, v \o l)
  <2>1. PICK a : a = ReadsAll(<<>>, w) /\ a = ReadsAll(<<>>, v)  BY <1>8 DEF Says
  <2>2. Asks(a)  BY <2>1, AsksSome, AsksAll
  <2>3. ReadsAll(a, b) = ReadsAll(a, l)  BY <1>2, <2>2, EscapedReads
  <2>4. ReadsAll(<<>>, w \o b) = ReadsAll(a, b)  BY <2>1, ReadsJoin
  <2>5. ReadsAll(<<>>, v \o l) = ReadsAll(a, l)  BY <2>1, ReadsJoin
  <2> QED  BY <1>4, <2>3, <2>4, <2>5
<1> QED  BY <1>2, <1>4, <1>12, <1>13, <1>14 DEF Says

\* So a text that begins with what was written for v means v then.
LEMMA EncodedSays ==
  ASSUME text \in Seq(Byte), NEW w, NEW v, Encodes(w, v), Begins(w)
  PROVE  Says(w, v)
<1> DEFINE R == {q \in Pairs : Begins(q[1]) => Says(q[1], q[2])}
<1>1. R \in SUBSET Pairs  OBVIOUS
<1>2. <<<<>>, <<>>>> \in R
  <2>1. Says(<<>>, <<>>)  BY SaysNothing
  <2>2. PICK x \in Seq(Byte) : x = <<>>
    <3>1. <<>> \in Seq(Byte)  OBVIOUS
    <3> QED  BY <3>1
  <2>3. Says(x, x)  BY <2>1, <2>2
  <2>4. <<x, x>> \in R  BY <2>3 DEF Pairs
  <2> QED  BY <2>2, <2>4
<1>3. ASSUME NEW x \in Seq(Byte), NEW y \in Seq(Byte), NEW c \in Writable, <<x, y>> \in R
      PROVE  <<x \o Escaped(c), y \o <<c>>>> \in R
  <2>1. Begins(x) => Says(x, y)  BY <1>3
  <2>2. Begins(x \o Escaped(c)) => Says(x \o Escaped(c), y \o <<c>>)  BY <2>1, SaysByte
  <2>3. x \o Escaped(c) \in Seq(Byte) /\ y \o <<c>> \in Seq(Byte)
    <3>1. c \in Byte  BY DEF Writable
    <3>2. PICK b \in Seq(Byte), l \in Seq(Byte) : b = Escaped(c) /\ l = <<c>>  BY <3>1, EscapedIs
    <3>3. x \o b \in Seq(Byte) /\ y \o l \in Seq(Byte)  BY ConcatProperties
    <3> QED  BY <3>2, <3>3
  <2>4. PICK xx \in Seq(Byte), yy \in Seq(Byte) : xx = x \o Escaped(c) /\ yy = y \o <<c>>  BY <2>3
  <2>5. <<xx, yy>> \in R  BY <2>2, <2>4 DEF Pairs
  <2> QED  BY <2>4, <2>5
<1>4. Closed(R)
  <2> HIDE DEF R
  <2> QED  BY <1>2, <1>3 DEF Closed
<1>5. <<w, v>> \in R
  <2> HIDE DEF R
  <2> QED  BY <1>1, <1>4 DEF Encodes
<1> QED  BY <1>5

\* A text that begins with what was written for v and a quote is v.
LEMMA EncodedMeans ==
  ASSUME text \in Seq(Byte), NEW w, NEW v, Encodes(w, v), Begins(w \o <<Quote>>)
  PROVE  /\ Meaning.ok = TRUE /\ Meaning.value = v /\ ~HasControl(Meaning)
         /\ WellFormed(v) => WellFormed(Source(Meaning))
<1>1. text \in Seq(Nat) /\ w \in Seq(Byte) /\ v \in Seq(Byte)  BY RunIs DEF Encodes
<1>2. PICK n \in Nat, z \in Nat : n = Len(w) /\ z = SourceEnd
  <2>1. Len(w) \in Nat  BY <1>1, LenProperties
  <2>2. SourceEnd \in Nat  BY <1>1, AtIs
  <2> QED  BY <2>1, <2>2
<1>3. PICK l \in Seq(Byte) : l = <<Quote>> /\ Len(l) = 1 /\ l[1] = Quote
  <2>1. PICK q \in Byte : q = Quote  BY DEF Quote, Byte
  <2>2. <<q>> \in Seq(Byte) /\ Len(<<q>>) = 1 /\ <<q>>[1] = q  OBVIOUS
  <2> QED  BY <2>1, <2>2
<1>4. PICK d \in Seq(Byte) : /\ d = w \o l /\ Len(d) = n + 1
                             /\ \A i \in 1..(n + 1) : d[i] = IF i <= n THEN w[i] ELSE l[i - n]
  <2>1. /\ w \o l \in Seq(Byte) /\ Len(w \o l) = Len(w) + Len(l)
        /\ \A i \in 1..(Len(w) + Len(l)) : (w \o l)[i] = IF i <= Len(w) THEN w[i] ELSE l[i - Len(w)]
    BY <1>1, <1>3, ConcatProperties
  <2> QED  BY <1>2, <1>3, <2>1
<1>5. n + 1 <= z /\ \A i \in 1..(n + 1) : At(i - 1) = d[i]  BY <1>2, <1>3, <1>4 DEF Begins
<1>6. \A i \in 1..n : At(i - 1) = w[i]
  <2>1. ASSUME NEW i \in 1..n PROVE At(i - 1) = w[i]
    <3>1. i \in 1..(n + 1) /\ i <= n  OBVIOUS
    <3>2. At(i - 1) = d[i] /\ d[i] = w[i]  BY <1>4, <1>5, <3>1
    <3> QED  BY <3>2
  <2> QED  BY <2>1
<1>7. At(n) = Quote
  <2>1. n + 1 \in 1..(n + 1) /\ ~(n + 1 <= n) /\ (n + 1) - n = 1 /\ (n + 1) - 1 = n  OBVIOUS
  <2>2. At((n + 1) - 1) = d[n + 1] /\ d[n + 1] = l[1]  BY <1>4, <1>5, <2>1
  <2> QED  BY <1>3, <2>1, <2>2
<1>8. Begins(w)  BY <1>2, <1>5, <1>6 DEF Begins
<1>9. Says(w, v)  BY <1>8, EncodedSays
<1>10. PICK p : Continues(v, p, n)  BY <1>2, <1>9 DEF Says
<1>11. PICK m : m = Meaning /\ m.ok = TRUE /\ m.end = n /\ m.value = v
  <2>1. Meaning.ok = TRUE /\ Meaning.end = n /\ Meaning.value = v  BY <1>1, <1>7, <1>10, ContinuesEnd
  <2> QED  BY <2>1
<1>12. ~HasControl(m)
  <2>1. SUFFICES ASSUME NEW i \in 1..m.end, text[i] < 32 PROVE FALSE  BY DEF HasControl
  <2>2. PICK k \in Nat : k = i - 1 /\ k < n /\ i \in 1..n  BY <1>11, <2>1
  <2>3. At(k) = text[i]
    <3>1. k < Len(text) /\ k + 1 = i  BY <1>2, <1>5, <2>2 DEF SourceEnd
    <3> QED  BY <3>1 DEF At
  <2>4. At(k) = w[i] /\ w[i] >= 32  BY <1>2, <1>6, <1>9, <2>2 DEF Says
  <2>5. PICK x \in Byte : x = w[i]  BY <1>1, <1>2, <2>2, ElementOfSeq
  <2> QED  BY <2>1, <2>3, <2>4, <2>5 DEF Byte
<1>13. Source(m) = w
  <2>1. Source(m) = Run(0, n)  BY <1>2, <1>5, <1>11, SourceIs
  <2>2. PICK r \in Seq(Byte) : r = Run(0, n) /\ Len(r) = n /\ \A i \in 1..n : r[i] = At(0 + i - 1)
    BY RunIs
  <2>3. \A i \in 1..n : r[i] = w[i]
    <3>1. ASSUME NEW i \in 1..n PROVE r[i] = w[i]
      <4>1. 0 + i - 1 = i - 1  OBVIOUS
      <4> QED  BY <1>6, <2>2, <4>1
    <3> QED  BY <3>1
  <2>4. r = w  BY <1>1, <1>2, <2>2, <2>3, SeqEqual
  <2> QED  BY <2>1, <2>2, <2>4
<1>14. WellFormed(v) => WellFormed(w)  BY <1>9 DEF Says, WellFormed
<1> QED  BY <1>11, <1>12, <1>13, <1>14

\* Of a value that can be written so that it is read back.
Clean(v) == \A i \in DOMAIN v : v[i] \notin NotEscaped

\* While the writer works, what stands behind the first quote is what is written
\* for what it has read; when it is done, all of it between quotes.
Wrote(v, r, wr, d) ==
  \E w : /\ Encodes(w, SubSeq(v, 1, r))
         /\ IF d = Len(Widths) + 2 THEN r = Len(v) /\ wr = (<<Quote>> \o w) \o <<Quote>>
            ELSE wr = <<Quote>> \o w
WritesInv == Clean(value) => Wrote(value, read, written, width)

\* What follows what has been read.
LEMMA ReadMore ==
  ASSUME NEW v \in Seq(Byte), NEW r \in Nat, NEW n \in Nat, r + n <= Len(v)
  PROVE  /\ SubSeq(v, 1, r) \in Seq(Byte) /\ SubSeq(v, r + 1, r + n) \in Seq(Byte)
         /\ Len(SubSeq(v, r + 1, r + n)) = n /\ \A i \in 1..n : SubSeq(v, r + 1, r + n)[i] = v[r + i]
         /\ SubSeq(v, 1, r + n) = SubSeq(v, 1, r) \o SubSeq(v, r + 1, r + n)
<1>1. PICK l \in Nat : l = Len(v) /\ r + n <= l /\ \A i \in 1..l : v[i] \in Byte
  BY LenProperties, ElementOfSeq
<1>2. PICK a : a = SubSeq(v, 1, r)  OBVIOUS
<1>3. a \in Seq(Byte) /\ Len(a) = r /\ \A i \in 1..r : a[i] = v[i]
  <2>1. \A i \in 1..r : i \in 1..l  BY <1>1
  <2> QED  BY <1>1, <1>2, <2>1
<1>4. PICK b : b = SubSeq(v, r + 1, r + n)  OBVIOUS
<1>5. b \in Seq(Byte) /\ Len(b) = n /\ \A i \in 1..n : b[i] = v[r + i]
  <2>1. \A i \in 1..n : r + i \in 1..l  BY <1>1
  <2>2. \A i \in (r + 1)..(r + n) : i \in 1..l  BY <1>1
  <2>3. b = [i \in 1..n |-> v[r + i]]
    <3>1. (r + n) - (r + 1) + 1 = n /\ \A i \in 1..n : i + (r + 1) - 1 = r + i  OBVIOUS
    <3>2. b = [i \in 1..((r + n) - (r + 1) + 1) |-> v[i + (r + 1) - 1]]  BY <1>4
    <3> QED  BY <3>1, <3>2
  <2>4. \A i \in 1..n : v[r + i] \in Byte  BY <1>1, <2>1
  <2> QED  BY <2>3, <2>4
<1>6. PICK d : d = SubSeq(v, 1, r + n)  OBVIOUS
<1>7. d \in Seq(Byte) /\ Len(d) = r + n /\ \A i \in 1..(r + n) : d[i] = v[i]
  <2>1. \A i \in 1..(r + n) : i \in 1..l  BY <1>1
  <2> QED  BY <1>1, <1>6, <2>1
<1>8. d = a \o b
  <2>1. PICK e : /\ e = a \o b /\ e \in Seq(Byte) /\ Len(e) = r + n
                 /\ \A i \in 1..(r + n) : e[i] = IF i <= r THEN a[i] ELSE b[i - r]
    <3>1. /\ a \o b \in Seq(Byte) /\ Len(a \o b) = Len(a) + Len(b)
          /\ \A i \in 1..(Len(a) + Len(b)) : (a \o b)[i] = IF i <= Len(a) THEN a[i] ELSE b[i - Len(a)]
      BY <1>3, <1>5, ConcatProperties
    <3> QED  BY <1>3, <1>5, <3>1
  <2>2. \A i \in 1..(r + n) : d[i] = e[i]
    <3>1. ASSUME NEW i \in 1..(r + n) PROVE d[i] = e[i]
      <4>1. d[i] = v[i]  BY <1>7
      <4>2. CASE i <= r
        <5>1. i \in 1..r  BY <4>2
        <5>2. e[i] = a[i] /\ a[i] = v[i]  BY <1>3, <2>1, <4>2, <5>1
        <5> QED  BY <4>1, <5>2
      <4>3. CASE ~(i <= r)
        <5>1. i - r \in 1..n /\ r + (i - r) = i  BY <4>3
        <5>2. e[i] = b[i - r] /\ b[i - r] = v[r + (i - r)]  BY <1>5, <2>1, <4>3, <5>1
        <5> QED  BY <4>1, <5>1, <5>2
      <4> QED  BY <4>2, <4>3
    <3> QED  BY <3>1
  <2> QED  BY <1>7, <2>1, <2>2, SeqEqual
<1> QED  BY <1>2, <1>3, <1>4, <1>5, <1>6, <1>8

\* More is written for what has been read more.
LEMMA WroteMore ==
  ASSUME NEW v \in Seq(Byte), NEW r, NEW wr, NEW d, d # Len(Widths) + 2, Wrote(v, r, wr, d),
         NEW b \in Seq(Byte), NEW more,
         \A w : Encodes(w, SubSeq(v, 1, r)) => Encodes(w \o b, SubSeq(v, 1, more))
  PROVE  Wrote(v, more, wr \o b, d)
<1>1. PICK w : Encodes(w, SubSeq(v, 1, r)) /\ wr = <<Quote>> \o w  BY DEF Wrote
<1>2. w \in Seq(Byte)  BY <1>1 DEF Encodes
<1>3. PICK l \in Seq(Byte) : l = <<Quote>>
  <2>1. PICK q \in Byte : q = Quote  BY DEF Quote, Byte
  <2>2. <<q>> \in Seq(Byte)  OBVIOUS
  <2> QED  BY <2>1, <2>2
<1>4. (l \o w) \o b = l \o (w \o b)  BY <1>2, JoinedBytes
<1>5. Encodes(w \o b, SubSeq(v, 1, more))  BY <1>1
<1>6. wr \o b = <<Quote>> \o (w \o b)  BY <1>1, <1>3, <1>4
<1> QED  BY <1>5, <1>6 DEF Wrote

\* What findSerialize finds in a register.
Needs(b) == b < 32 \/ b \in {34, 92}

\* A register finds its first byte that needs an escape, or none.
LEMMA WriterFinds ==
  ASSUME WriterInv, Writer!InRegisters
  PROVE  \E w \in Nat, l \in Nat :
            /\ w = Widths[width] /\ l = Len(value) /\ read + w < l
            /\ \/ Writer!Plain = -1 /\ \A i \in 1..w : ~Needs(value[read + i])
               \/ /\ Writer!Plain \in Nat /\ Writer!Plain < w /\ Needs(value[read + Writer!Plain + 1])
                  /\ \A i \in 1..Writer!Plain : ~Needs(value[read + i])
<1>1. PICK w \in Nat, l \in Nat : w = Widths[width] /\ l = Len(value) /\ read + w < l  BY WriterPlain
<1>2. PICK r \in Nat : r = read /\ r + w < l  BY <1>1 DEF WriterInv
<1>3. PICK s : s = Writer!Bytes(w) /\ s = SubSeq(value, r + 1, r + w)  BY <1>2 DEF Writer!Bytes
<1>4. Len(s) = w /\ \A i \in 1..w : s[i] = value[r + i]
  <2>1. value \in Seq(Byte)  BY DEF WriterInv
  <2>2. r + w <= Len(value)  BY <1>1, <1>2
  <2> QED  BY <1>3, <2>1, <2>2, ReadMore
<1>5. PICK I : I = {k \in 1..w : Needs(s[k])}  OBVIOUS
<1>6. Writer!Plain = (IF I # {} THEN Writer!Min(I) ELSE 0) - 1
  <2>1. I = {k \in 1..w : s[k] < 32 \/ s[k] \in {34, 92}}  BY <1>5 DEF Needs
  <2>2. s = Writer!Bytes(w) /\ w = Widths[width] /\ Len(s) = w  BY <1>1, <1>3, <1>4
  <2> QED  BY <2>1, <2>2 DEF Writer!Plain, Writer!SelectInSeq, Writer!Quote, Writer!Backslash
<1>7. CASE I = {}
  <2>1. Writer!Plain = -1  BY <1>6, <1>7
  <2>2. \A i \in 1..w : ~Needs(value[r + i])
    <3>1. ASSUME NEW i \in 1..w PROVE ~Needs(value[r + i])
      <4>1. ~Needs(s[i])  BY <1>5, <1>7
      <4> QED  BY <1>4, <4>1
    <3> QED  BY <3>1
  <2> QED  BY <1>1, <1>2, <2>1, <2>2
<1>8. CASE I # {}
  <2>1. PICK m \in 1..w : m = Writer!Min(I) /\ m \in I /\ \A y \in I : m <= y
    <3>1. I \subseteq Nat /\ I \subseteq 1..w  BY <1>5
    <3>2. \E x \in I : \A y \in I : x <= y  BY <1>8, <3>1, LeastNat
    <3>3. Writer!Min(I) \in I /\ \A y \in I : Writer!Min(I) <= y  BY <3>2 DEF Writer!Min
    <3> QED  BY <3>1, <3>3
  <2>2. PICK p \in Nat : p = Writer!Plain /\ p = m - 1 /\ p < w  BY <1>6, <1>8, <2>1
  <2>3. Needs(value[r + p + 1])
    <3>1. Needs(s[m]) /\ r + m = r + p + 1  BY <1>5, <2>1, <2>2
    <3> QED  BY <1>4, <3>1
  <2>4. \A i \in 1..p : ~Needs(value[r + i])
    <3>1. ASSUME NEW i \in 1..p PROVE ~Needs(value[r + i])
      <4>1. i \in 1..w /\ ~(m <= i)  BY <2>1, <2>2
      <4>2. ~Needs(s[i])  BY <1>5, <2>1, <4>1
      <4> QED  BY <1>4, <4>1, <4>2
    <3> QED  BY <3>1
  <2> QED  BY <1>1, <1>2, <2>2, <2>3, <2>4
<1> QED  BY <1>7, <1>8

\* What it finds is escaped, and the rest is not.
LEMMA NeedsIs ==
  ASSUME NEW c \in Writable
  PROVE  IF Needs(c) THEN Escaped(c) = Writer!escapeTable(c) ELSE Writer!escapeTable(c) = <<>>
<1>1. c \in Byte  BY DEF Writable
<1>2. CASE Needs(c)
  <2>1. ~AsItIs(c)
    <3>1. c < 32 => ~(c >= 32)  BY <1>1 DEF Byte
    <3> QED  BY <1>2, <3>1 DEF AsItIs, Needs, Quote, Backslash
  <2>2. Escaped(c) # <<c>>
    <3>1. CASE ByLetter(c)
      <4>1. PICK l : Escaped(c) = <<Backslash, l>>  BY <3>1 DEF ByLetter
      <4>2. Len(<<Backslash, l>>) = 2 /\ Len(<<c>>) = 1  OBVIOUS
      <4> QED  BY <4>1, <4>2
    <3>2. CASE ByCode(c)
      <4>1. PICK h, l : Escaped(c) = <<Backslash, u, 48, 48, h, l>>  BY <3>2 DEF ByCode
      <4>2. Len(<<Backslash, u, 48, 48, h, l>>) = 6 /\ Len(<<c>>) = 1  OBVIOUS
      <4> QED  BY <4>1, <4>2
    <3> QED  BY <2>1, <3>1, <3>2, EscapedShape
  <2> QED  BY <1>2, <2>2 DEF Escaped
<1>3. CASE ~Needs(c)
  <2>1. c \in Byte /\ ~(c < 32) /\ c # 34 /\ c # 92  BY <1>1, <1>3 DEF Needs
  <2>2. ~(c \in DOMAIN Writer!Letters) /\ ~(c \in 1..31 \ DOMAIN Writer!Letters)
    BY <2>1 DEF Writer!Letters, Byte
  <2>3. Writer!escapeTable(c) = <<>>  BY <2>2 DEF Writer!escapeTable
  <2> QED  BY <1>3, <2>3
<1> QED  BY <1>2, <1>3

\* The bytes of a value up to the first that needs an escape.
LEMMA PlainEncodes ==
  ASSUME NEW v \in Seq(Byte), Clean(v), NEW r \in Nat, NEW n \in Nat, r + n <= Len(v),
         \A i \in 1..n : ~Needs(v[r + i]), NEW b, b = SubSeq(v, r + 1, r + n),
         NEW w, Encodes(w, SubSeq(v, 1, r))
  PROVE  Encodes(w \o b, SubSeq(v, 1, r + n)) /\ b \in Seq(Byte)
<1>1. /\ b \in Seq(Byte) /\ Len(b) = n /\ \A i \in 1..n : b[i] = v[r + i]
      /\ SubSeq(v, 1, r + n) = SubSeq(v, 1, r) \o b
  BY ReadMore
<1>2. ASSUME NEW i \in 1..n PROVE b[i] \in Writable /\ Writer!escapeTable(b[i]) = <<>>
  <2>1. r + i \in DOMAIN v
    <3>1. PICK l \in Nat : l = Len(v) /\ r + n <= l  BY LenProperties
    <3>2. r + i \in 1..l  BY <3>1
    <3>3. DOMAIN v = 1..l  BY <3>1, LenProperties
    <3> QED  BY <3>2, <3>3
  <2>2. b[i] \notin NotEscaped /\ ~Needs(b[i])  BY <1>1, <2>1 DEF Clean
  <2>3. b[i] \in Byte  BY <1>1, ElementOfSeq
  <2>4. b[i] \in Writable  BY <2>2, <2>3 DEF Writable
  <2> QED  BY <2>2, <2>4, NeedsIs
<1>3. PICK a : a = SubSeq(v, 1, r)  OBVIOUS
<1>4. Encodes(w \o b, a \o b)  BY <1>1, <1>2, <1>3, EncodesPlain
<1> QED  BY <1>1, <1>3, <1>4

\* The next byte.
LEMMA ByteEncodes ==
  ASSUME NEW v \in Seq(Byte), Clean(v), NEW r \in Nat, r + 1 <= Len(v),
         NEW w, Encodes(w, SubSeq(v, 1, r))
  PROVE  v[r + 1] \in Writable /\ Encodes(w \o Escaped(v[r + 1]), SubSeq(v, 1, r + 1))
<1>1. PICK l \in Nat : l = Len(v) /\ r + 1 <= l /\ DOMAIN v = 1..l  BY LenProperties
<1>2. r + 1 \in 1..l  BY <1>1
<1>3. PICK c \in Byte : c = v[r + 1]  BY <1>1, <1>2, ElementOfSeq
<1>4. c \in Writable  BY <1>1, <1>2, <1>3 DEF Writable, Clean
<1>5. SubSeq(v, 1, r + 1) = SubSeq(v, 1, r) \o <<c>>
  <2>1. r < l  BY <1>1
  <2>2. SubSeq(v, 1, r + 1) = SubSeq(v, 1, r) \o <<v[r + 1]>>  BY <1>1, <2>1, FirstBytes
  <2> QED  BY <1>3, <2>2
<1>6. Encodes(w \o Escaped(c), SubSeq(v, 1, r) \o <<c>>)  BY <1>4, EncodesByte
<1> QED  BY <1>3, <1>4, <1>5, <1>6

\* At first nothing is written but a quote.
LEMMA WritesInit == Writer!Init => WritesInv
<1> SUFFICES ASSUME Writer!Init PROVE Wrote(value, read, written, width)  BY DEF WritesInv
<1>1. width = 1 /\ read = 0 /\ written = <<Quote>>  BY DEF Writer!Init, Writer!Quote, Quote
<1>2. value \in Seq(Byte)
  <2>1. value \in Values  BY DEF Writer!Init
  <2> QED  BY <2>1, ValuesAssumption DEF Byte
<1>3. SubSeq(value, 1, 0) = <<>>  OBVIOUS
<1>4. Encodes(<<>>, SubSeq(value, 1, 0))  BY <1>3, EncodesNothing
<1>5. <<Quote>> = <<Quote>> \o <<>>
  <2>1. PICK q \in Byte : q = Quote  BY DEF Quote, Byte
  <2>2. <<q>> \in Seq(Byte)  OBVIOUS
  <2>3. <<q>> \o <<>> = <<q>>  BY <2>2, ConcatEmptySeq
  <2> QED  BY <2>1, <2>3
<1>6. width # Len(Widths) + 2
  <2>1. PICK z \in Nat : z = Len(Widths)  BY WidthsAssumption, LenProperties
  <2> QED  BY <1>1, <2>1
<1> QED  BY <1>1, <1>4, <1>5, <1>6 DEF Wrote

\* Every action of the writer keeps it.
LEMMA WritesStep == WriterInv /\ WritesInv /\ Writer!Next => WritesInv'
<1> SUFFICES ASSUME WriterInv, WritesInv, Writer!Next, Clean(value'), value' = value
             PROVE  Wrote(value, read', written', width')
  <2>1. Writer!Next => value' = value
    BY DEF Writer!Next, Writer!WriteRegister, Writer!WriteEscape, Writer!NextWidth, Writer!WriteByte,
           Writer!CloseString
  <2> QED  BY <2>1 DEF WritesInv
<1>1. PICK v \in Seq(Byte), r \in Nat, l \in Nat, d \in Nat, z \in Nat :
        v = value /\ r = read /\ l = Len(v) /\ d = width /\ z = Len(Widths) /\ r <= l
  <2>1. Len(value) \in Nat /\ Len(Widths) \in Nat  BY WidthsAssumption, LenProperties DEF WriterInv
  <2> QED  BY <2>1 DEF WriterInv
<1>2. PICK wr \in Seq(Byte) : wr = written  BY DEF WriterInv
<1>3. Clean(v) /\ Wrote(v, r, wr, d)  BY <1>1, <1>2 DEF WritesInv
<1> SUFFICES Wrote(v, read', written', width')  BY <1>1
<1>4. ASSUME Writer!InRegisters PROVE d # Len(Widths) + 2  BY <1>1, <1>4 DEF Writer!InRegisters
<1>5. CASE Writer!WriteRegister
  <2>1. Writer!InRegisters /\ Writer!Plain = -1  BY <1>5 DEF Writer!WriteRegister
  <2>2. PICK w \in Nat : w = Widths[width] /\ r + w <= l /\ \A i \in 1..w : ~Needs(v[r + i])
    <3>1. PICK w \in Nat, m \in Nat :
            /\ w = Widths[width] /\ m = Len(value) /\ read + w < m
            /\ \/ Writer!Plain = -1 /\ \A i \in 1..w : ~Needs(value[read + i])
               \/ Writer!Plain \in Nat
      BY <2>1, WriterFinds
    <3>2. Writer!Plain \notin Nat  BY <2>1
    <3>3. r + w <= l  BY <1>1, <3>1
    <3> QED  BY <1>1, <3>1, <3>2, <3>3
  <2>3. PICK b : b = SubSeq(v, r + 1, r + w)  OBVIOUS
  <2>4. read' = r + w /\ written' = wr \o b /\ width' = d
    BY <1>1, <1>2, <1>5, <2>2, <2>3 DEF Writer!WriteRegister, Writer!Bytes
  <2>5. b \in Seq(Byte) /\ \A x : Encodes(x, SubSeq(v, 1, r)) => Encodes(x \o b, SubSeq(v, 1, r + w))
    <3>1. b \in Seq(Byte)  BY <1>1, <2>2, <2>3, ReadMore
    <3>2. ASSUME NEW x, Encodes(x, SubSeq(v, 1, r)) PROVE Encodes(x \o b, SubSeq(v, 1, r + w))
      BY <1>1, <1>3, <2>2, <2>3, <3>2, PlainEncodes
    <3> QED  BY <3>1, <3>2
  <2>6. Wrote(v, r + w, wr \o b, d)  BY <1>3, <1>4, <2>1, <2>5, WroteMore
  <2> QED  BY <2>4, <2>6
<1>6. CASE Writer!WriteEscape
  <2>1. Writer!InRegisters /\ Writer!Plain >= 0  BY <1>6 DEF Writer!WriteEscape
  <2>2. PICK k \in Nat : /\ k = Writer!Plain /\ r + k + 1 <= l
                         /\ Needs(v[r + k + 1]) /\ \A i \in 1..k : ~Needs(v[r + i])
    <3>1. PICK w \in Nat, m \in Nat :
            /\ m = Len(value) /\ read + w < m
            /\ \/ Writer!Plain = -1
               \/ /\ Writer!Plain \in Nat /\ Writer!Plain < w /\ Needs(value[read + Writer!Plain + 1])
                  /\ \A i \in 1..Writer!Plain : ~Needs(value[read + i])
      BY <2>1, WriterFinds
    <3>2. Writer!Plain # -1  BY <2>1
    <3>3. PICK k \in Nat : k = Writer!Plain /\ k < w  BY <3>1, <3>2
    <3>4. r + k + 1 <= l  BY <1>1, <3>1, <3>3
    <3> QED  BY <1>1, <3>1, <3>2, <3>3, <3>4
  <2>3. PICK b : b = SubSeq(v, r + 1, r + k)  OBVIOUS
  <2>4. PICK s \in Nat : s = r + k /\ s + 1 = r + k + 1 /\ s + 1 <= l  BY <2>2
  <2>5. PICK c : c = v[s + 1]  OBVIOUS
  <2>6. read' = s + 1 /\ written' = (wr \o b) \o Writer!escapeTable(c) /\ width' = d
    BY <1>1, <1>2, <1>6, <2>2, <2>3, <2>4, <2>5 DEF Writer!WriteEscape, Writer!Bytes
  <2>7. b \in Seq(Byte) /\ \A x : Encodes(x, SubSeq(v, 1, r)) => Encodes(x \o b, SubSeq(v, 1, s))
    <3>0. r + k <= Len(v)  BY <1>1, <2>4
    <3>1. b \in Seq(Byte)  BY <2>3, <3>0, ReadMore
    <3>2. ASSUME NEW x, Encodes(x, SubSeq(v, 1, r)) PROVE Encodes(x \o b, SubSeq(v, 1, r + k))
      BY <1>3, <2>2, <2>3, <3>0, <3>2, PlainEncodes
    <3> QED  BY <2>4, <3>1, <3>2
  <2>8. Wrote(v, s, wr \o b, d)  BY <1>3, <1>4, <2>1, <2>7, WroteMore
  <2>9. \A x : Encodes(x, SubSeq(v, 1, s)) => c \in Writable /\ Encodes(x \o Escaped(c), SubSeq(v, 1, s + 1))
    <3>1. ASSUME NEW x, Encodes(x, SubSeq(v, 1, s))
          PROVE  c \in Writable /\ Encodes(x \o Escaped(c), SubSeq(v, 1, s + 1))
      <4>1. s + 1 <= Len(v)  BY <1>1, <2>4
      <4> QED  BY <1>3, <2>5, <3>1, <4>1, ByteEncodes
    <3> QED  BY <3>1
  <2>10. c \in Writable  BY <2>8, <2>9 DEF Wrote
  <2>11. Escaped(c) = Writer!escapeTable(c) /\ Escaped(c) \in Seq(Byte)
    <3>1. Needs(c)  BY <2>2, <2>4, <2>5
    <3>2. c \in Byte  BY <2>10 DEF Writable
    <3>3. Escaped(c) = Writer!escapeTable(c)  BY <2>10, <3>1, NeedsIs
    <3> QED  BY <3>2, <3>3, EscapedIs
  <2>12. Wrote(v, s + 1, (wr \o b) \o Escaped(c), d)
    <3>1. PICK e \in Seq(Byte) : e = Escaped(c)  BY <2>11
    <3>2. \A x : Encodes(x, SubSeq(v, 1, s)) => Encodes(x \o e, SubSeq(v, 1, s + 1))  BY <2>9, <3>1
    <3>3. Wrote(v, s + 1, (wr \o b) \o e, d)  BY <1>4, <2>1, <2>8, <3>2, WroteMore
    <3> QED  BY <3>1, <3>3
  <2> QED  BY <2>6, <2>11, <2>12
<1>7. CASE Writer!NextWidth
  <2>1. width' = d + 1 /\ d <= z /\ read' = r /\ written' = wr  BY <1>1, <1>2, <1>7 DEF Writer!NextWidth
  <2>2. width' # Len(Widths) + 2 /\ d # Len(Widths) + 2  BY <1>1, <2>1
  <2> QED  BY <1>3, <2>1, <2>2 DEF Wrote
<1>8. CASE Writer!WriteByte
  <2>1. PICK c : c = v[r + 1]  OBVIOUS
  <2>2. r + 1 <= l /\ width' = d /\ read' = r + 1 /\ d # Len(Widths) + 2 /\ r + 1 <= Len(v)
    BY <1>1, <1>8 DEF Writer!WriteByte
  <2>3. written' = wr \o Escaped(c)  BY <1>1, <1>2, <1>8, <2>1 DEF Writer!WriteByte, Escaped
  <2>4. \A x : Encodes(x, SubSeq(v, 1, r)) => c \in Writable /\ Encodes(x \o Escaped(c), SubSeq(v, 1, r + 1))
    <3>1. ASSUME NEW x, Encodes(x, SubSeq(v, 1, r))
          PROVE  c \in Writable /\ Encodes(x \o Escaped(c), SubSeq(v, 1, r + 1))
      BY <1>3, <2>1, <2>2, <3>1, ByteEncodes
    <3> QED  BY <3>1
  <2>5. c \in Writable  BY <1>3, <2>4 DEF Wrote
  <2>6. PICK e \in Seq(Byte) : e = Escaped(c)
    <3>1. c \in Byte  BY <2>5 DEF Writable
    <3> QED  BY <3>1, EscapedIs
  <2>7. \A x : Encodes(x, SubSeq(v, 1, r)) => Encodes(x \o e, SubSeq(v, 1, r + 1))  BY <2>4, <2>6
  <2>8. Wrote(v, r + 1, wr \o e, d)  BY <1>3, <2>2, <2>7, WroteMore
  <2> QED  BY <2>2, <2>3, <2>6, <2>8
<1>9. CASE Writer!CloseString
  <2>1. d = z + 1 /\ width' = z + 2 /\ r = l /\ read' = r /\ written' = Append(wr, Quote)
    BY <1>1, <1>2, <1>9 DEF Writer!CloseString, Writer!Quote, Quote
  <2>2. width' = Len(Widths) + 2 /\ d # Len(Widths) + 2 /\ read' = Len(v)  BY <1>1, <2>1
  <2>3. PICK w : Encodes(w, SubSeq(v, 1, r)) /\ wr = <<Quote>> \o w  BY <1>3, <2>2 DEF Wrote
  <2>4. Append(wr, Quote) = wr \o <<Quote>>
    <3>1. PICK q \in Byte : q = Quote  BY DEF Quote, Byte
    <3>2. Append(wr, q) = wr \o <<q>>  BY AppendIsConcat
    <3> QED  BY <3>1, <3>2
  <2>5. written' = (<<Quote>> \o w) \o <<Quote>>  BY <2>1, <2>3, <2>4
  <2> QED  BY <2>1, <2>2, <2>3, <2>5 DEF Wrote
<1> QED  BY <1>5, <1>6, <1>7, <1>8, <1>9 DEF Writer!Next

\* What follows the first quote, when the writer is done, begins the text.
LEMMA ReadBackBegins ==
  ASSUME NEW w \in Seq(Byte), written = (<<Quote>> \o w) \o <<Quote>>,
         NEW rest \in Rests, text' = Tail(written) \o rest
  PROVE  Begins(w \o <<Quote>>)'
<1>1. PICK l \in Seq(Byte) : l = <<Quote>> /\ Len(l) = 1
  <2>1. PICK q \in Byte : q = Quote  BY DEF Quote, Byte
  <2>2. <<q>> \in Seq(Byte) /\ Len(<<q>>) = 1  OBVIOUS
  <2> QED  BY <2>1, <2>2
<1>2. PICK d \in Seq(Byte) : d = w \o l  BY ConcatProperties
<1>3. PICK n \in Nat, m \in Nat : n = Len(d) /\ m = Len(rest) /\ rest \in Seq(Byte)
  <2>1. rest \in Seq(Byte)  BY ValuesAssumption DEF Byte
  <2> QED  BY <2>1, LenProperties
<1>4. written = l \o d
  <2>1. (l \o w) \o l = l \o (w \o l)  BY JoinedBytes
  <2> QED  BY <1>1, <1>2, <2>1
<1>5. Tail(l \o d) = d
  <2>1. PICK e : /\ e = l \o d /\ e \in Seq(Byte) /\ Len(e) = n + 1
                 /\ \A i \in 1..(n + 1) : e[i] = IF i <= 1 THEN l[i] ELSE d[i - 1]
    <3>1. /\ l \o d \in Seq(Byte) /\ Len(l \o d) = Len(l) + Len(d)
          /\ \A i \in 1..(Len(l) + Len(d)) : (l \o d)[i] = IF i <= Len(l) THEN l[i] ELSE d[i - Len(l)]
      BY ConcatProperties
    <3>2. Len(l) = 1 /\ Len(d) = n /\ Len(l) + Len(d) = n + 1  BY <1>1, <1>3
    <3>3. \A i \in 1..(n + 1) : (l \o d)[i] = IF i <= 1 THEN l[i] ELSE d[i - 1]  BY <3>1, <3>2
    <3>4. PICK e : e = l \o d  OBVIOUS
    <3> QED  BY <3>1, <3>2, <3>3, <3>4
  <2>2. e # <<>>
    <3>1. Len(e) # 0  BY <2>1
    <3> QED  BY <2>1, <3>1, EmptySeq
  <2>3. PICK t : t = Tail(e) /\ t \in Seq(Byte) /\ Len(t) = n /\ \A i \in 1..n : t[i] = e[i + 1]
    <3>1. Tail(e) \in Seq(Byte) /\ Len(Tail(e)) = Len(e) - 1 /\ \A i \in 1..Len(Tail(e)) : Tail(e)[i] = e[i + 1]
      BY <2>1, <2>2, HeadTailProperties
    <3>2. PICK t : t = Tail(e)  OBVIOUS
    <3>3. t \in Seq(Byte) /\ Len(t) = n  BY <2>1, <3>1, <3>2
    <3>4. \A i \in 1..n : t[i] = e[i + 1]  BY <3>1, <3>2, <3>3
    <3> QED  BY <3>2, <3>3, <3>4
  <2>4. \A i \in 1..n : t[i] = d[i]
    <3>1. ASSUME NEW i \in 1..n PROVE t[i] = d[i]
      <4>1. i + 1 \in 1..(n + 1) /\ ~(i + 1 <= 1) /\ (i + 1) - 1 = i  OBVIOUS
      <4>2. t[i] = e[i + 1] /\ e[i + 1] = d[(i + 1) - 1]  BY <2>1, <2>3, <4>1
      <4> QED  BY <4>1, <4>2
    <3> QED  BY <3>1
  <2> QED  BY <1>3, <2>1, <2>3, <2>4, SeqEqual
<1>6. PICK x : x = text' /\ x = d \o rest  BY <1>4, <1>5
<1>7. Len(x) = n + m /\ \A i \in 1..n : x[i] = d[i]
  <2>1. /\ Len(d \o rest) = Len(d) + Len(rest)
        /\ \A i \in 1..(Len(d) + Len(rest)) : (d \o rest)[i] = IF i <= Len(d) THEN d[i] ELSE rest[i - Len(d)]
    BY <1>3, ConcatProperties
  <2>2. ASSUME NEW i \in 1..n PROVE x[i] = d[i]
    <3>1. i \in 1..(n + m) /\ i <= n  OBVIOUS
    <3> QED  BY <1>3, <1>6, <2>1, <3>1
  <2> QED  BY <1>3, <1>6, <2>1, <2>2
<1>8. n <= SourceEnd'  BY <1>6, <1>7 DEF SourceEnd
<1>9. ASSUME NEW i \in 1..n PROVE At(i - 1)' = d[i]
  <2>1. i - 1 < n + m /\ (i - 1) + 1 = i  OBVIOUS
  <2> QED  BY <1>6, <1>7, <2>1 DEF At
<1>10. Begins(d)'  BY <1>3, <1>8, <1>9 DEF Begins
<1> QED  BY <1>1, <1>2, <1>10

\* While the writer works it has written what it has read; when the parser is
\* called for what was written, that is what its text begins with.
Answered == answer \in {"none", "refused", "done"}
BackInv ==
  /\ phase \in {"check", "parse", "serialize"} /\ Answered
  /\ phase = "check" => value = <<>>
  /\ phase = "serialize" => WritesInv
  /\ phase = "parse" /\ value # <<>> /\ Clean(value) => \E w : Encodes(w, value) /\ Begins(w \o <<Quote>>)

\* That is so at first,
LEMMA BackInit == JsonTextInit => BackInv
<1> SUFFICES ASSUME JsonTextInit PROVE BackInv  OBVIOUS
<1>1. answer = "none"  BY DEF JsonTextInit, IdleParser, Init
<1>2. CASE phase = "check" /\ IdleWriter  BY <1>1, <1>2 DEF BackInv, Answered, IdleWriter
<1>3. CASE phase = "parse" /\ IdleWriter  BY <1>1, <1>3 DEF BackInv, Answered, IdleWriter
<1>4. CASE phase = "serialize" /\ Writer!Init  BY <1>1, <1>4, WritesInit DEF BackInv, Answered
<1> QED  BY <1>2, <1>3, <1>4 DEF JsonTextInit

\* The parser answers, if it does.
LEMMA AnsweredStep == Answered /\ Next => Answered'
BY DEF Answered, Next, CloseQuote, TakeEscape, TakeRegister, NextWidth, CloseQuoteInTail, TakeEscapeInTail,
       TakeByteInTail, Answers

\* and after each step.
LEMMA BackStep == TextsInv /\ BackInv /\ [JsonTextNext]_allVars => BackInv'
<1> SUFFICES ASSUME TextsInv, BackInv, [JsonTextNext]_allVars PROVE BackInv'  OBVIOUS
<1>1. ASSUME text' = text, value' = value, phase' = phase, phase # "serialize", Answered'
      PROVE  BackInv'
  <2>1. ASSUME NEW w, Begins(w \o <<Quote>>) PROVE Begins(w \o <<Quote>>)'
    <3>1. PICK d : d = w \o <<Quote>>  OBVIOUS
    <3>2. Begins(d)'  BY <1>1, <2>1, <3>1, CharStays DEF Begins
    <3> QED  BY <3>1, <3>2
  <2>2. Clean(value') = Clean(value)  BY <1>1
  <2>3. phase = "parse" /\ value # <<>> /\ Clean(value)
        => \E w : Encodes(w, value) /\ Begins(w \o <<Quote>>)'
    BY <2>1 DEF BackInv
  <2> QED  BY <1>1, <2>2, <2>3 DEF BackInv
<1>2. ASSUME UNCHANGED vars, UNCHANGED serializerVars, phase' = phase PROVE BackInv'
  <2>1. text' = text /\ value' = value /\ Answered'  BY <1>2 DEF vars, serializerVars, BackInv, Answered
  <2>2. CASE phase # "serialize"  BY <1>1, <1>2, <2>1, <2>2
  <2>3. CASE phase = "serialize"
    <3>1. WritesInv'  BY <1>2, <2>3 DEF BackInv, WritesInv, serializerVars
    <3> QED  BY <1>2, <2>1, <2>3, <3>1 DEF BackInv
  <2> QED  BY <2>2, <2>3
<1>3. CASE Check
  <2>1. UNCHANGED vars /\ UNCHANGED serializerVars /\ phase' = phase  BY <1>3 DEF Check, parserVars
  <2> QED  BY <1>2, <2>1
<1>4. CASE Parse
  <2>1. phase = "parse" /\ phase' = phase /\ Next /\ value' = value  BY <1>4 DEF Parse, serializerVars
  <2>2. text' = text /\ Answered'  BY <2>1, TextStays, AnsweredStep DEF BackInv
  <2> QED  BY <1>1, <2>1, <2>2
<1>5. CASE Serialize
  <2>1. phase = "serialize" /\ phase' = phase /\ Writer!Next /\ UNCHANGED vars  BY <1>5 DEF Serialize, parserVars
  <2>2. WritesInv'  BY <2>1, WritesStep DEF BackInv, TextsInv
  <2>3. Answered'  BY <2>1 DEF BackInv, Answered, vars
  <2> QED  BY <2>1, <2>2, <2>3 DEF BackInv
<1>6. CASE ReadBack
  <2>1. phase = "serialize" /\ Writer!Done /\ phase' = "parse" /\ value' = value /\ answer' = answer
    BY <1>6 DEF ReadBack, serializerVars
  <2>2. PICK rest \in Rests : text' = Tail(written) \o rest  BY <1>6 DEF ReadBack
  <2>3. Answered'  BY <2>1 DEF BackInv, Answered
  <2>4. ASSUME Clean(value) PROVE \E w : Encodes(w, value) /\ Begins(w \o <<Quote>>)'
    <3>1. Wrote(value, read, written, width)  BY <2>1, <2>4 DEF BackInv, WritesInv
    <3>2. width = Len(Widths) + 2  BY <2>1 DEF Writer!Done
    <3>3. PICK w : /\ Encodes(w, SubSeq(value, 1, read)) /\ read = Len(value)
                   /\ written = (<<Quote>> \o w) \o <<Quote>>
      BY <3>1, <3>2 DEF Wrote
    <3>4. SubSeq(value, 1, read) = value
      <4>1. PICK v \in Seq(Byte), l \in Nat : v = value /\ l = Len(v) /\ \A i \in 1..l : v[i] \in Byte
        <5>1. value \in Seq(Byte)  BY <2>1 DEF TextsInv, WriterInv
        <5> QED  BY <5>1, LenProperties, ElementOfSeq
      <4>2. PICK f : f = SubSeq(v, 1, l)  OBVIOUS
      <4>3. f \in Seq(Byte) /\ Len(f) = l /\ \A i \in 1..l : f[i] = v[i]  BY <4>1, <4>2
      <4>4. f = v  BY <4>1, <4>3, SeqEqual
      <4> QED  BY <3>3, <4>1, <4>2, <4>4
    <3>5. w \in Seq(Byte) /\ Encodes(w, value)  BY <3>3, <3>4 DEF Encodes
    <3>6. Begins(w \o <<Quote>>)'  BY <2>2, <3>3, <3>5, ReadBackBegins
    <3> QED  BY <3>5, <3>6
  <2>5. Clean(value') = Clean(value)  BY <2>1
  <2> QED  BY <2>1, <2>3, <2>4, <2>5 DEF BackInv
<1>7. CASE UNCHANGED allVars
  <2>1. UNCHANGED vars /\ UNCHANGED serializerVars /\ phase' = phase  BY <1>7 DEF allVars, parserVars
  <2> QED  BY <1>2, <2>1
<1> QED  BY <1>3, <1>4, <1>5, <1>6, <1>7 DEF JsonTextNext, Stopped

\* What is parsed then is the value, and the parser has no reason to refuse it.
LEMMA BackReads == TextsInv /\ ParseInv /\ NotCalled /\ BackInv => StringsReadBack
<1> SUFFICES ASSUME TextsInv, ParseInv, NotCalled, BackInv,
                    value # <<>>, answer # "none", validateUtf8 => WellFormed(value),
                    \A i \in DOMAIN value : value[i] \notin NotEscaped
             PROVE  answer = "done" /\ out = value
  BY DEF StringsReadBack
<1>1. text \in Seq(Byte)  BY DEF TextsInv
<1>2. phase = "parse"  BY DEF BackInv, NotCalled, Called
<1>3. Clean(value)  BY DEF Clean
<1>4. PICK w : Encodes(w, value) /\ Begins(w \o <<Quote>>)  BY <1>2, <1>3 DEF BackInv
<1>5. /\ Meaning.ok = TRUE /\ Meaning.value = value /\ ~HasControl(Meaning)
      /\ WellFormed(value) => WellFormed(Source(Meaning))
  BY <1>1, <1>4, EncodedMeans
<1>6. Decodes /\ RefusesOnlyBad  BY <1>1, RightIs3
<1>10. ~Stray  BY <1>5 DEF Stray
<1>7. answer # "refused"  BY <1>5, <1>6 DEF RefusesOnlyBad
<1>8. answer = "done"  BY <1>7 DEF BackInv, Answered
<1>9. out = value  BY <1>5, <1>6, <1>8, <1>10 DEF Decodes
<1> QED  BY <1>8, <1>9

\* StringsReadBack holds for every value, every width of the registers of either end
\* and whatever follows in the document: what string_serializer writes,
\* string_parser reads back as the same bytes.
THEOREM StringsReadBackAlways == JsonTextSpec => []StringsReadBack
<1>1. JsonTextInit => ParseInv /\ NotCalled  BY CalledInit, CalledParses DEF NotCalled
<1>2. TextsInv /\ TextsInv' /\ ParseInv /\ NotCalled /\ [JsonTextNext]_allVars
      => NotCalled' /\ (ParseInv' \/ Called')
  BY CalledStep
<1> QED  BY <1>1, <1>2, CalledParses, TextsInit, TextsStep, BackInit, BackStep, BackReads, PTL DEF JsonTextSpec
=================================================================================
