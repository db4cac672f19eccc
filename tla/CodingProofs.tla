----------------------------- MODULE CodingProofs -----------------------------
(***************************************************************************)
(* Proofs about the pure codings.  Base64: what Base64Encode writes,       *)
(* Base64Decode gives back, for data of any length.  JsonCoding, for       *)
(* numbers of any width and all of Unicode: what uintToString writes is    *)
(* read back by decodeNumber, and a number beyond the limit is always left *)
(* to decodeDouble, before the sum can wrap; every character is read back  *)
(* from its UTF-8 and its escape.                                          *)
(***************************************************************************)
EXTENDS Base64, JsonCoding, SequenceTheorems, WellFoundedInduction, TLAPS

-----------------------------------------------------------------------------
(* Base64.                                                                 *)

(* The two tables are inverse to each other, and no value is written as `='. *)
LEMMA AlphabetInverse ==
  ASSUME NEW v \in 0 .. 63
  PROVE  /\ Base64Value(Alphabet(v)) = v
         /\ Alphabet(v) # Pad
  BY DEF Base64Value, Alphabet, Pad

(* A byte of the data, or the zero behind its end.                          *)
LEMMA OctetType ==
  ASSUME NEW d \in Seq(Byte), NEW k \in Nat \ {0}
  PROVE  Octet(d, k) \in 0 .. 255
<1>1. CASE k <= Len(d)
  <2>1. d[k] \in Byte
    BY <1>1
  <2> QED BY <1>1, <2>1 DEF Octet, Byte
<1>2. CASE ~ (k <= Len(d))
  BY <1>2 DEF Octet
<1> QED BY <1>1, <1>2

(* Every character stands for six bits.                                     *)
LEMMA SextetType ==
  ASSUME NEW d \in Seq(Byte), NEW g \in Nat, NEW k \in 1 .. 4
  PROVE  Sextet(d, g, k) \in 0 .. 63
<1> DEFINE a == Octet(d, 3 * g + 1)
           b == Octet(d, 3 * g + 2)
           c == Octet(d, 3 * g + 3)
<1>1. a \in 0 .. 255 /\ b \in 0 .. 255 /\ c \in 0 .. 255
  BY OctetType, SMTT(60)
<1>2. Sextet(d, g, k) = CASE k = 1 -> a \div 4
                          [] k = 2 -> (a % 4) * 16 + (b \div 16)
                          [] k = 3 -> (b % 16) * 4 + (c \div 64)
                          [] OTHER -> c % 64
  BY DEF Sextet
<1> HIDE DEF a, b, c
<1>3. /\ a \div 4 \in 0 .. 63
      /\ (a % 4) * 16 + (b \div 16) \in 0 .. 63
      /\ (b % 16) * 4 + (c \div 64) \in 0 .. 63
      /\ c % 64 \in 0 .. 63
  BY <1>1
<1>4. CASE k = 1
  BY <1>2, <1>3, <1>4
<1>5. CASE k = 2
  BY <1>2, <1>3, <1>5
<1>6. CASE k = 3
  BY <1>2, <1>3, <1>6
<1>7. CASE k = 4
  BY <1>2, <1>3, <1>7
<1> QED BY <1>4, <1>5, <1>6, <1>7

(* The length of the text: four characters for each begun group of three.  *)
LEMMA LengthOfGroups ==
  ASSUME NEW n \in Nat
  PROVE  /\ EncodedLen(n) \in Nat
         /\ EncodedLen(n) % 4 = 0
         /\ EncodedLen(n) \div 4 = (n + 2) \div 3
         /\ (n + 2) \div 3 \in Nat
         /\ 3 * ((n + 2) \div 3) - n \in 0 .. 2
  BY SMT DEF EncodedLen

(* Every group of the text has a byte to stand for.                         *)
LEMMA BegunGroup ==
  ASSUME NEW d \in Seq(Byte), NEW g \in 0 .. ((Len(d) + 2) \div 3) - 1
  PROVE  Len(d) \in Nat /\ g \in Nat /\ 3 * g < Len(d)
<1>1. Len(d) \in Nat
  OBVIOUS
<1>2. \A n \in Nat : \A h \in 0 .. ((n + 2) \div 3) - 1 : h \in Nat /\ 3 * h < n
  OBVIOUS
<1> QED BY <1>1, <1>2

(* The text has the length announced, in whole groups.                      *)
LEMMA EncodeIsSeq ==
  ASSUME NEW d \in Seq(Byte)
  PROVE  /\ Len(Base64Encode(d)) = EncodedLen(Len(d))
         /\ Groups(Base64Encode(d)) = (Len(d) + 2) \div 3
<1>1. Len(d) \in Nat
  OBVIOUS
<1> QED BY <1>1, LengthOfGroups DEF Base64Encode, Groups

(* The characters of group g of the text.                                   *)
LEMMA CharOfGroup ==
  ASSUME NEW d \in Seq(Byte), NEW g \in 0 .. ((Len(d) + 2) \div 3) - 1, NEW k \in 1 .. 4
  PROVE  Char(Base64Encode(d), g, k)
           = IF IsPadding(d, g, k) THEN Pad ELSE Alphabet(Sextet(d, g, k))
<1>1. Len(d) \in Nat /\ g \in Nat
  BY LengthOfGroups
<1>2. 4 * g + k \in 1 .. EncodedLen(Len(d))
  BY <1>1, LengthOfGroups DEF EncodedLen
<1>3. (4 * g + k - 1) \div 4 = g /\ ((4 * g + k - 1) % 4) + 1 = k
  BY <1>1
<1> QED BY <1>2, <1>3 DEF Char, Base64Encode

(* A group that is begun has its first two characters, a padded character   *)
(* stands for zero bits: every value read is the value written.             *)
LEMMA ValueOfGroup ==
  ASSUME NEW d \in Seq(Byte), NEW g \in 0 .. ((Len(d) + 2) \div 3) - 1, NEW k \in 1 .. 4
  PROVE  Value(Base64Encode(d), g, k) = Sextet(d, g, k)
<1> DEFINE t == Base64Encode(d)
<1>1. Len(d) \in Nat /\ g \in Nat /\ 3 * g < Len(d)
  BY BegunGroup
<1>2. Char(t, g, k) = IF IsPadding(d, g, k) THEN Pad ELSE Alphabet(Sextet(d, g, k))
  BY CharOfGroup
<1>3. Sextet(d, g, k) \in 0 .. 63
  BY <1>1, SextetType
<1>4. CASE ~IsPadding(d, g, k)
  <2>1. Char(t, g, k) # Pad /\ Base64Value(Char(t, g, k)) = Sextet(d, g, k)
    BY <1>2, <1>3, <1>4, AlphabetInverse
  <2> QED BY <2>1 DEF Value
<1>5. CASE IsPadding(d, g, k)
  <2>1. k > 2
    BY <1>1, <1>5 DEF IsPadding
  <2>2. Octet(d, 3 * g + 3) = 0 /\ (k = 3 => Octet(d, 3 * g + 2) = 0)
    BY <1>1, <1>5, <2>1 DEF IsPadding, Octet
  <2>3. Sextet(d, g, k) = 0
    <3>1. CASE k = 3
      BY <2>2, <3>1 DEF Sextet
    <3>2. CASE k = 4
      BY <2>2, <3>2 DEF Sextet
    <3> QED BY <2>1, <3>1, <3>2
  <2>4. Char(t, g, k) = Pad
    BY <1>2, <1>5
  <2> QED BY <2>1, <2>3, <2>4 DEF Value
<1> QED BY <1>4, <1>5

(* The decoder accepts what the encoder writes.                             *)
LEMMA EncodedIsValid ==
  ASSUME NEW d \in Seq(Byte)
  PROVE  Valid(Base64Encode(d))
<1> DEFINE t == Base64Encode(d)
<1>1. Len(d) \in Nat
  OBVIOUS
<1>2. Len(t) % 4 = 0 /\ Groups(t) = (Len(d) + 2) \div 3
  BY <1>1, EncodeIsSeq, LengthOfGroups
<1>3. ASSUME NEW g \in 0 .. Groups(t) - 1
      PROVE  ValidGroup(t, g)
  <2>1. g \in 0 .. ((Len(d) + 2) \div 3) - 1 /\ g \in Nat /\ 3 * g < Len(d)
    BY <1>2, BegunGroup
  <2>2. ASSUME NEW k \in 1 .. 4
        PROVE  Value(t, g, k) >= 0
    <3>1. Value(t, g, k) = Sextet(d, g, k)
      BY <2>1, ValueOfGroup
    <3>2. Sextet(d, g, k) \in 0 .. 63
      BY <2>1, SextetType
    <3>3. \A x \in 0 .. 63 : x >= 0
      OBVIOUS
    <3> QED BY <3>1, <3>2, <3>3, Zenon
  <2>3. ASSUME NEW k \in 1 .. 4
        PROVE  Char(t, g, k) = Pad <=> IsPadding(d, g, k)
    <3>1. Sextet(d, g, k) \in 0 .. 63
      BY <2>1, SextetType
    <3> QED BY <2>1, <3>1, CharOfGroup, AlphabetInverse
  <2>4. Char(t, g, 3) = Pad => Char(t, g, 4) = Pad
    BY <1>1, <2>1, <2>3 DEF IsPadding
  <2>5. IsPadding(d, g, 4) => g + 1 = (Len(d) + 2) \div 3
    BY <1>1, <2>1 DEF IsPadding
  <2>6. Char(t, g, 4) = Pad => g + 1 = Groups(t)
    BY <1>2, <2>3, <2>5
  <2> QED BY <2>2, <2>4, <2>6 DEF ValidGroup
<1> QED BY <1>2, <1>3 DEF Valid

(* Padding counts the bytes missing in the last group.                      *)
LEMMA PaddingOfEncoded ==
  ASSUME NEW d \in Seq(Byte)
  PROVE  3 * Groups(Base64Encode(d)) - Padding(Base64Encode(d)) = Len(d)
<1> DEFINE t == Base64Encode(d)
           G == (Len(d) + 2) \div 3
<1>1. Len(d) \in Nat /\ G \in Nat /\ Len(t) = 4 * G /\ Groups(t) = G
  BY EncodeIsSeq, LengthOfGroups DEF EncodedLen
<1>2. CASE Len(d) = 0
  <2>1. t = <<>>
    BY <1>1, <1>2 DEF Base64Encode, EncodedLen
  <2> QED BY <1>1, <1>2, <2>1 DEF Padding
<1>3. CASE Len(d) > 0
  <2>1. G - 1 \in 0 .. G - 1 /\ G - 1 \in Nat
    BY <1>1, <1>3
  <2>2. ASSUME NEW k \in 3 .. 4
        PROVE  t[Len(t) - 4 + k] = Pad <=> IsPadding(d, G - 1, k)
    <3>0. k \in 1 .. 4
      OBVIOUS
    <3>1. Sextet(d, G - 1, k) \in 0 .. 63
      BY <2>1, <3>0, SextetType
    <3>2. Char(t, G - 1, k) = IF IsPadding(d, G - 1, k) THEN Pad ELSE Alphabet(Sextet(d, G - 1, k))
      BY <2>1, <3>0, CharOfGroup
    <3>4. Char(t, G - 1, k) = Pad <=> IsPadding(d, G - 1, k)
      BY <3>1, <3>2, AlphabetInverse
    <3>3. 4 * (G - 1) + k = Len(t) - 4 + k
      BY <1>1
    <3> QED BY <3>3, <3>4 DEF Char
  <2>3. t[Len(t) - 1] = Pad <=> 3 * G - 1 > Len(d)
    <3>1. Len(t) - 4 + 3 = Len(t) - 1 /\ 3 * (G - 1) + 3 - 1 = 3 * G - 1
      BY <1>1
    <3> QED BY <2>2, <3>1 DEF IsPadding
  <2>4. t[Len(t)] = Pad <=> 3 * G > Len(d)
    <3>1. Len(t) - 4 + 4 = Len(t) /\ 3 * (G - 1) + 4 - 1 = 3 * G
      BY <1>1
    <3> QED BY <2>2, <3>1 DEF IsPadding
  <2>5. t # <<>>
    BY <1>1, <1>3
  <2> HIDE DEF t, G
  <2>6. 3 * G - Len(d) \in 0 .. 2
    BY LengthOfGroups, <1>1 DEF G
  <2>7. Padding(t) = 3 * G - Len(d)
    BY <1>1, <2>3, <2>4, <2>5, <2>6 DEF Padding
  <2> QED BY <1>1, <2>7 DEF t
<1> QED BY <1>1, <1>2, <1>3

(* Byte k of group g comes back.                                            *)
LEMMA ByteOfGroup ==
  ASSUME NEW d \in Seq(Byte), NEW g \in 0 .. ((Len(d) + 2) \div 3) - 1, NEW k \in 1 .. 3
  PROVE  DecodedByte(Base64Encode(d), g, k) = Octet(d, 3 * g + k)
<1> DEFINE a == Octet(d, 3 * g + 1)
           b == Octet(d, 3 * g + 2)
           c == Octet(d, 3 * g + 3)
           V(j) == Value(Base64Encode(d), g, j)
<1>1. a \in 0 .. 255 /\ b \in 0 .. 255 /\ c \in 0 .. 255
  <2>1. 3 * g + 1 \in Nat \ {0} /\ 3 * g + 2 \in Nat \ {0} /\ 3 * g + 3 \in Nat \ {0}
    BY BegunGroup
  <2> QED BY <2>1, OctetType
<1>2. /\ V(1) = a \div 4
      /\ V(2) = (a % 4) * 16 + (b \div 16)
      /\ V(3) = (b % 16) * 4 + (c \div 64)
      /\ V(4) = c % 64
  BY ValueOfGroup DEF Sextet
<1>3. DecodedByte(Base64Encode(d), g, k)
        = CASE k = 1 -> V(1) * 4 + (V(2) \div 16)
            [] k = 2 -> (V(2) % 16) * 16 + (V(3) \div 4)
            [] OTHER -> (V(3) % 4) * 64 + V(4)
  BY DEF DecodedByte
<1> HIDE DEF a, b, c, V
<1>4. /\ V(1) * 4 + (V(2) \div 16) = a
      /\ (V(2) % 16) * 16 + (V(3) \div 4) = b
      /\ (V(3) % 4) * 64 + V(4) = c
  <2>1. (a \div 4) * 4 + (((a % 4) * 16 + (b \div 16)) \div 16) = a
    BY <1>1
  <2>2. (((a % 4) * 16 + (b \div 16)) % 16) * 16 + (((b % 16) * 4 + (c \div 64)) \div 4) = b
    BY <1>1
  <2>3. (((b % 16) * 4 + (c \div 64)) % 4) * 64 + (c % 64) = c
    BY <1>1
  <2> QED BY <1>2, <2>1, <2>2, <2>3
<1>5. CASE k = 1
  BY <1>3, <1>4, <1>5 DEF a
<1>6. CASE k = 2
  BY <1>3, <1>4, <1>6 DEF b
<1>7. CASE k = 3
  BY <1>3, <1>4, <1>7 DEF c
<1> QED BY <1>5, <1>6, <1>7

(* Data of any length and content come back as they were encoded: what the  *)
(* client sends as text is what the server appends to the file.             *)
THEOREM RoundTrip ==
  \A d \in Seq(Byte) : Base64Decode(Base64Encode(d)) = [ok |-> TRUE, data |-> d]
<1> SUFFICES ASSUME NEW d \in Seq(Byte)
             PROVE  Base64Decode(Base64Encode(d)) = [ok |-> TRUE, data |-> d]
  OBVIOUS
<1> DEFINE t == Base64Encode(d)
<1>1. Len(d) \in Nat
  OBVIOUS
<1>2. 3 * Groups(t) - Padding(t) = Len(d)
  BY PaddingOfEncoded
<1>3. ASSUME NEW i \in 1 .. Len(d)
      PROVE  DecodedByte(t, (i - 1) \div 3, ((i - 1) % 3) + 1) = d[i]
  <2>1. /\ (i - 1) \div 3 \in 0 .. ((Len(d) + 2) \div 3) - 1
        /\ ((i - 1) % 3) + 1 \in 1 .. 3
        /\ 3 * ((i - 1) \div 3) + ((i - 1) % 3) + 1 = i
    BY <1>1
  <2>2. DecodedByte(t, (i - 1) \div 3, ((i - 1) % 3) + 1)
          = Octet(d, 3 * ((i - 1) \div 3) + (((i - 1) % 3) + 1))
    BY <2>1, ByteOfGroup
  <2>3. 3 * ((i - 1) \div 3) + (((i - 1) % 3) + 1) = i
    BY <2>1
  <2> QED BY <2>2, <2>3 DEF Octet
<1>4. [i \in 1 .. Len(d) |-> DecodedByte(t, (i - 1) \div 3, ((i - 1) % 3) + 1)] = d
  BY <1>3
<1> QED BY <1>2, <1>4, EncodedIsValid DEF Base64Decode

(* The text of n bytes has four characters for three bytes, rounded up: a   *)
(* chunk of 2048 bytes becomes 2732 characters, within the 4096 bytes that  *)
(* a message of the server may have.                                        *)
THEOREM EncodedLength ==
  \A d \in Seq(Byte) : /\ Len(Base64Encode(d)) = EncodedLen(Len(d))
                       /\ Len(d) <= 2048 => Len(Base64Encode(d)) <= 2732
<1>1. ASSUME NEW d \in Seq(Byte)
      PROVE  /\ Len(Base64Encode(d)) = EncodedLen(Len(d))
             /\ Len(d) <= 2048 => EncodedLen(Len(d)) <= 2732
  <2>1. Len(d) \in Nat
    OBVIOUS
  <2>2. \A n \in Nat : n <= 2048 => EncodedLen(n) <= 2732
    BY DEF EncodedLen
  <2> QED BY <2>1, <2>2, EncodeIsSeq
<1>2. ASSUME NEW d \in Seq(Byte)
      PROVE  /\ Len(Base64Encode(d)) = EncodedLen(Len(d))
             /\ Len(d) <= 2048 => Len(Base64Encode(d)) <= 2732
  <2> HIDE DEF EncodedLen
  <2> QED BY <1>1
<1> QED BY <1>2

-----------------------------------------------------------------------------
(* JsonCoding.                                                             *)

(* Induction over the natural numbers, stated with a set. *)
LEMMA SetInduction ==
  ASSUME NEW S, 0 \in S, \A n \in Nat : n \in S => n + 1 \in S
  PROVE  Nat \subseteq S
<1>. DEFINE T == Nat \ S
            R == OpToRel(<, Nat)
<1>1. IsWellFoundedOn(R, Nat)
  BY NatLessThanWellFounded
<1>2. ASSUME NEW x \in Nat, NEW y \in Nat, x < y PROVE <<x, y>> \in R
  BY <1>2 DEF OpToRel
<1>3. SUFFICES ASSUME T # {} PROVE FALSE
  OBVIOUS
<1>. HIDE DEF R
<1>4. PICK n \in T : \A m \in T : ~ (<<m, n>> \in R)
  BY <1>1, <1>3, WFMin
<1>5. n \in Nat /\ n # 0 /\ n - 1 \in Nat /\ n - 1 < n /\ n - 1 + 1 = n
  OBVIOUS
<1>6. n - 1 \notin T
  BY <1>2, <1>4, <1>5
<1>. QED  BY <1>5, <1>6

LEMMA DigitsL ==
  ASSUME NEW d \in Seq(Digit)
  PROVE  Len(d) \in Nat /\ \A k \in 1 .. Len(d) : d[k] \in Nat /\ d[k] <= 9
BY LenProperties, ElementOfSeq DEF Digit

-----------------------------------------------------------------------------
(* The number of a sequence of digits. *)

(* The recursion of NumberOf has a solution. *)
IsValue(v, d, n) == v = [k \in 0 .. n |-> IF k = 0 THEN 0 ELSE 10 * v[k - 1] + d[k]]

LEMMA NumberOfL ==
  ASSUME NEW d \in Seq(Digit)
  PROVE  \E v : /\ NumberOf(d) = v[Len(d)] /\ v[0] = 0
                /\ \A k \in 0 .. Len(d) : v[k] \in Nat
                /\ \A k \in 1 .. Len(d) : v[k] = 10 * v[k - 1] + d[k]
<1>. DEFINE Good == {n \in Nat : \E v : IsValue(v, d, n)}
<1>1. 0 \in Good
  <2>1. IsValue([k \in 0 .. 0 |-> 0], d, 0)
    BY DEF IsValue
  <2>. QED  BY <2>1
<1>2. ASSUME NEW n \in Nat, n \in Good PROVE n + 1 \in Good
  <2>1. PICK f : IsValue(f, d, n)
    BY <1>2
  <2>. DEFINE g == [k \in 0 .. n + 1 |-> IF k = n + 1 THEN 10 * f[n] + d[n + 1] ELSE f[k]]
  <2>2. ASSUME NEW k \in 0 .. n + 1
        PROVE  g[k] = IF k = 0 THEN 0 ELSE 10 * g[k - 1] + d[k]
    BY <2>1 DEF IsValue
  <2>3. IsValue(g, d, n + 1)
    BY <2>2 DEF IsValue
  <2>. QED  BY <2>3
<1>3. \E v : IsValue(v, d, Len(d))
  <2>. HIDE DEF Good
  <2>1. Len(d) \in Good
    BY <1>1, <1>2, SetInduction, DigitsL
  <2>. QED  BY <2>1 DEF Good
<1>4. PICK v : IsValue(v, d, Len(d)) /\ NumberOf(d) = v[Len(d)]
  BY <1>3 DEF NumberOf, IsValue
<1>5. v[0] = 0 /\ \A k \in 1 .. Len(d) : v[k] = 10 * v[k - 1] + d[k]
  <2>1. Len(d) \in Nat
    BY DigitsL
  <2>. QED  BY <1>4, <2>1, SMTT(60) DEF IsValue
<1>. DEFINE Num == {k \in Nat : k <= Len(d) => v[k] \in Nat}
<1>6. \A k \in 0 .. Len(d) : v[k] \in Nat
  <2>1. 0 \in Num
    BY <1>5
  <2>2. ASSUME NEW k \in Nat, k \in Num PROVE k + 1 \in Num
    <3>. SUFFICES ASSUME k + 1 <= Len(d) PROVE v[k + 1] \in Nat
      OBVIOUS
    <3>1. v[k + 1] = 10 * v[(k + 1) - 1] + d[k + 1] /\ d[k + 1] \in Nat
      BY <1>5, DigitsL
    <3>2. (k + 1) - 1 = k /\ v[k] \in Nat
      BY <2>2, DigitsL
    <3>. QED  BY <3>1, <3>2
  <2>. HIDE DEF Num
  <2>3. Nat \subseteq Num
    BY <2>1, <2>2, SetInduction
  <2>. QED  BY <2>3, DigitsL DEF Num
<1>. QED  BY <1>4, <1>5, <1>6

LEMMA NumberOfAppend ==
  ASSUME NEW d \in Seq(Digit), NEW x \in Digit
  PROVE  /\ NumberOf(d) \in Nat /\ NumberOf(Append(d, x)) = 10 * NumberOf(d) + x
<1>. DEFINE e == Append(d, x)
<1>1. /\ e \in Seq(Digit) /\ Len(e) = Len(d) + 1 /\ e[Len(d) + 1] = x
      /\ \A k \in 1 .. Len(d) : e[k] = d[k]
  BY AppendProperties, LenProperties
<1>. HIDE DEF e
<1>2. PICK v : /\ NumberOf(d) = v[Len(d)] /\ v[0] = 0
               /\ \A k \in 0 .. Len(d) : v[k] \in Nat
               /\ \A k \in 1 .. Len(d) : v[k] = 10 * v[k - 1] + d[k]
  BY NumberOfL
<1>3. PICK w : /\ NumberOf(e) = w[Len(e)] /\ w[0] = 0
               /\ \A k \in 0 .. Len(e) : w[k] \in Nat
               /\ \A k \in 1 .. Len(e) : w[k] = 10 * w[k - 1] + e[k]
  BY <1>1, NumberOfL
<1>. DEFINE Good == {k \in Nat : k <= Len(d) => w[k] = v[k]}
<1>4. w[Len(d)] = v[Len(d)]
  <2>1. 0 \in Good
    BY <1>2, <1>3
  <2>2. ASSUME NEW k \in Nat, k \in Good PROVE k + 1 \in Good
    <3>. SUFFICES ASSUME k + 1 <= Len(d) PROVE w[k + 1] = v[k + 1]
      OBVIOUS
    <3>1. k + 1 \in 1 .. Len(d) /\ k + 1 \in 1 .. Len(e) /\ (k + 1) - 1 = k
      BY <1>1, DigitsL
    <3>2. w[k + 1] = 10 * w[k] + e[k + 1] /\ v[k + 1] = 10 * v[k] + d[k + 1]
      BY <1>2, <1>3, <3>1
    <3>. QED  BY <1>1, <2>2, <3>1, <3>2, DigitsL
  <2>. HIDE DEF Good
  <2>3. Len(d) \in Good
    BY <2>1, <2>2, SetInduction, DigitsL
  <2>. QED  BY <2>3 DEF Good
<1>5. Len(e) \in 1 .. Len(e) /\ Len(e) - 1 = Len(d) /\ Len(d) \in 0 .. Len(d)
  BY <1>1, DigitsL
<1>6. NumberOf(e) = 10 * NumberOf(d) + x
  BY <1>1, <1>2, <1>3, <1>4, <1>5
<1>. QED  BY <1>2, <1>5, <1>6 DEF e

LEMMA NumberOfOne ==
  ASSUME NEW x \in Digit
  PROVE  NumberOf(<<x>>) = x
<1>1. <<x>> \in Seq(Digit) /\ Len(<<x>>) = 1 /\ <<x>>[1] = x
  OBVIOUS
<1>. DEFINE d == <<x>>
<1>. HIDE DEF d
<1>2. PICK v : /\ NumberOf(d) = v[Len(d)] /\ v[0] = 0
               /\ \A k \in 0 .. Len(d) : v[k] \in Nat
               /\ \A k \in 1 .. Len(d) : v[k] = 10 * v[k - 1] + d[k]
  BY <1>1, NumberOfL DEF d
<1>3. Len(d) = 1 /\ d[1] = x
  BY <1>1 DEF d
<1>4. v[1] = 10 * v[1 - 1] + d[1]
  BY <1>2, <1>3
<1>. QED  BY <1>2, <1>3, <1>4 DEF d, Digit

-----------------------------------------------------------------------------
(* uintToString. *)

(* The recursion of Decimal has a solution. *)
IsDecimal(f, n) ==
    f = [m \in 0 .. n |-> IF m < 10 THEN <<m>> ELSE Append(f[m \div 10], m % 10)]

LEMMA DecimalSolution ==
  ASSUME NEW n \in Nat
  PROVE  \E f : IsDecimal(f, n)
<1>. DEFINE Good == {m \in Nat : \E f : IsDecimal(f, m)}
<1>1. 0 \in Good
  <2>1. IsDecimal([m \in 0 .. 0 |-> <<m>>], 0)
    BY DEF IsDecimal
  <2>. QED  BY <2>1
<1>2. ASSUME NEW m \in Nat, m \in Good PROVE m + 1 \in Good
  <2>1. PICK f : IsDecimal(f, m)
    BY <1>2
  <2>. DEFINE Next(h, i) == IF i < 10 THEN <<i>> ELSE Append(h[i \div 10], i % 10)
              g == [i \in 0 .. m + 1 |-> IF i = m + 1 THEN Next(f, i) ELSE f[i]]
  <2>2. ASSUME NEW i \in 0 .. m + 1 PROVE g[i] = Next(g, i)
    <3>1. ~ (i < 10) => i \div 10 \in 0 .. m
      BY SMTT(30)
    <3>2. ~ (i < 10) => g[i \div 10] = f[i \div 10]
      BY <3>1
    <3>3. \A j \in 0 .. m : f[j] = Next(f, j)
      BY <2>1, Zenon DEF IsDecimal
    <3>4. i = m + 1 \/ (i \in 0 .. m /\ i # m + 1)
      OBVIOUS
    <3>5. CASE i = m + 1
      BY <3>2, <3>5
    <3>6. CASE i \in 0 .. m /\ i # m + 1
      <4>1. g[i] = Next(f, i)
        BY <3>3, <3>6
      <4>. QED  BY <3>2, <4>1
    <3>. QED  BY <3>4, <3>5, <3>6
  <2>3. g = [i \in 0 .. m + 1 |-> Next(g, i)]
    <3>. DEFINE r == [i \in 0 .. m + 1 |-> Next(g, i)]
    <3>1. \A i \in 0 .. m + 1 : g[i] = r[i]
      BY <2>2
    <3>2. DOMAIN g = 0 .. m + 1 /\ DOMAIN r = 0 .. m + 1
      OBVIOUS
    <3>. QED  BY <3>1
  <2>4. IsDecimal(g, m + 1)
    BY <2>3 DEF IsDecimal
  <2>. HIDE DEF g
  <2>. QED  BY <2>4
<1>. HIDE DEF Good
<1>3. n \in Good
  BY <1>1, <1>2, SetInduction
<1>. QED  BY <1>3 DEF Good

(* What uintToString writes is a number without leading zeros, and the     *)
(* number it is given (jsoncpp.cpp:167).                                   *)
THEOREM DecimalDigits ==
  \A n \in Nat :
    /\ Decimal(n) \in Seq(Digit) /\ Decimal(n) # <<>>
    /\ NumberOf(Decimal(n)) = n
    /\ n # 0 => Decimal(n)[1] # 0
<1>. SUFFICES ASSUME NEW n \in Nat
     PROVE  /\ Decimal(n) \in Seq(Digit) /\ Decimal(n) # <<>>
            /\ NumberOf(Decimal(n)) = n
            /\ n # 0 => Decimal(n)[1] # 0
  OBVIOUS
<1>1. PICK f : IsDecimal(f, n) /\ Decimal(n) = f[n]
  BY DecimalSolution DEF Decimal, IsDecimal
<1>. DEFINE Right(m) == /\ f[m] \in Seq(Digit) /\ Len(f[m]) >= 1
                        /\ NumberOf(f[m]) = m
                        /\ m # 0 => f[m][1] # 0
            Good == {k \in Nat : \A m \in 0 .. k : m <= n => Right(m)}
<1>2. ASSUME NEW m \in 0 .. n, m < 10 PROVE Right(m)
  <2>1. f[m] = <<m>> /\ m \in Digit
    BY <1>1, <1>2 DEF IsDecimal, Digit
  <2>. QED  BY <2>1, NumberOfOne
<1>3. ASSUME NEW m \in 0 .. n, ~ (m < 10), Right(m \div 10) PROVE Right(m)
  <2>. DEFINE q == m \div 10
              x == m % 10
  <2>1. f[m] = Append(f[q], x)
    BY <1>1, <1>3 DEF IsDecimal
  <2>2. x \in Digit /\ q \in Nat /\ q # 0 /\ m = 10 * q + x
    BY <1>3 DEF Digit
  <2>. HIDE DEF q, x
  <2>3. f[q] \in Seq(Digit) /\ Len(f[q]) >= 1 /\ NumberOf(f[q]) = q /\ f[q][1] # 0
    BY <1>3, <2>2 DEF q
  <2>4. f[m] \in Seq(Digit) /\ Len(f[m]) >= 1 /\ f[m][1] = f[q][1]
    BY <2>1, <2>2, <2>3, AppendProperties, LenProperties
  <2>5. NumberOf(f[m]) = m
    BY <2>1, <2>2, <2>3, NumberOfAppend
  <2>. QED  BY <2>3, <2>4, <2>5
<1>. HIDE DEF Right
<1>4. n \in Good
  <2>1. 0 \in Good
    BY <1>2
  <2>2. ASSUME NEW k \in Nat, k \in Good PROVE k + 1 \in Good
    <3>. SUFFICES ASSUME k + 1 <= n PROVE Right(k + 1)
      BY <2>2
    <3>1. CASE k + 1 < 10
      BY <1>2, <3>1
    <3>2. CASE ~ (k + 1 < 10)
      <4>1. (k + 1) \div 10 \in 0 .. k /\ (k + 1) \div 10 <= n
        BY <3>2, SMTT(30)
      <4>2. Right((k + 1) \div 10)
        BY <2>2, <4>1
      <4>. QED  BY <1>3, <3>2, <4>2
    <3>. QED  BY <3>1, <3>2
  <2>. HIDE DEF Good
  <2>. QED  BY <2>1, <2>2, SetInduction
<1>5. Right(n)
  BY <1>4
<1>6. f[n] \in Seq(Digit) /\ Len(f[n]) >= 1 /\ NumberOf(f[n]) = n /\ (n # 0 => f[n][1] # 0)
  BY <1>5 DEF Right
<1>7. f[n] # <<>>
  BY <1>6, EmptySeq
<1>. QED  BY <1>1, <1>6, <1>7

-----------------------------------------------------------------------------
(* decodeNumber. *)

LEMMA Limits ==
  ASSUME NEW negative \in BOOLEAN
  PROVE  Limit(negative) \in 10 .. MaxUInt64 /\ MaxUInt64 \in Nat
BY WidthAssumption DEF Limit, MinInt64

(* The recursion of Accumulate has a solution. *)
NextValue(value, d, k, threshold, last) ==
    IF value = Double \/ PassesLimit(value, d, k, threshold, last)
    THEN Double ELSE (value * 10 + d[k]) % (MaxUInt64 + 1)

IsSum(a, d, threshold, last, n) ==
    a = [k \in 0 .. n |-> IF k = 0 THEN 0 ELSE NextValue(a[k - 1], d, k, threshold, last)]

LEMMA AccumulateL ==
  ASSUME NEW d \in Seq(Digit), NEW threshold, NEW last
  PROVE  \E a : /\ Accumulate(d, threshold, last) = a[Len(d)] /\ a[0] = 0
                /\ \A k \in 1 .. Len(d) : a[k] = NextValue(a[k - 1], d, k, threshold, last)
<1>. DEFINE Good == {n \in Nat : \E a : IsSum(a, d, threshold, last, n)}
<1>0. Len(d) \in Nat
  BY DigitsL
<1>1. 0 \in Good
  <2>1. IsSum([k \in 0 .. 0 |-> 0], d, threshold, last, 0)
    BY DEF IsSum
  <2>. QED  BY <2>1
<1>2. ASSUME NEW n \in Nat, n \in Good PROVE n + 1 \in Good
  <2>1. PICK f : IsSum(f, d, threshold, last, n)
    BY <1>2
  <2>. DEFINE g == [k \in 0 .. n + 1 |->
                      IF k = n + 1 THEN NextValue(f[n], d, n + 1, threshold, last) ELSE f[k]]
  <2>2. ASSUME NEW k \in 0 .. n + 1
        PROVE  g[k] = IF k = 0 THEN 0 ELSE NextValue(g[k - 1], d, k, threshold, last)
    BY <2>1 DEF IsSum
  <2>3. IsSum(g, d, threshold, last, n + 1)
    BY <2>2 DEF IsSum
  <2>. QED  BY <2>3
<1>3. \E a : IsSum(a, d, threshold, last, Len(d))
  <2>. HIDE DEF Good
  <2>1. Len(d) \in Good
    BY <1>0, <1>1, <1>2, SetInduction
  <2>. QED  BY <2>1 DEF Good
<1>4. PICK a : IsSum(a, d, threshold, last, Len(d)) /\ Accumulate(d, threshold, last) = a[Len(d)]
  BY <1>3 DEF Accumulate, IsSum, NextValue
<1>. QED  BY <1>0, <1>4 DEF IsSum

(* The test before each step of the loop is exact: digits that stay within *)
(* the limit give their number, all others a double, and the sum never     *)
(* wraps (jsoncpp.cpp:1809-1828).                                          *)
THEOREM LoopExact ==
  \A d \in Seq(Digit), negative \in BOOLEAN :
    Magnitude(negative, d) =
        IF NumberOf(d) <= Limit(negative) THEN NumberOf(d) ELSE Double
<1>. SUFFICES ASSUME NEW d \in Seq(Digit), NEW negative \in BOOLEAN
     PROVE  Magnitude(negative, d) =
                IF NumberOf(d) <= Limit(negative) THEN NumberOf(d) ELSE Double
  OBVIOUS
<1>. DEFINE limit == Limit(negative)
            threshold == limit \div 10
            last == limit % 10
<1>1. limit \in Nat /\ limit <= MaxUInt64 /\ limit >= 10 /\ MaxUInt64 \in Nat
  BY Limits
<1>. HIDE DEF limit
<1>2. /\ threshold \in Nat /\ last \in Nat /\ threshold >= 1 /\ last <= 9
      /\ limit = 10 * threshold + last
  BY <1>1
<1>. HIDE DEF threshold, last
<1>3. PICK v : /\ NumberOf(d) = v[Len(d)] /\ v[0] = 0
               /\ \A k \in 0 .. Len(d) : v[k] \in Nat
               /\ \A k \in 1 .. Len(d) : v[k] = 10 * v[k - 1] + d[k]
  BY NumberOfL
<1>4. PICK a : /\ Accumulate(d, threshold, last) = a[Len(d)] /\ a[0] = 0
               /\ \A k \in 1 .. Len(d) : a[k] = NextValue(a[k - 1], d, k, threshold, last)
  BY AccumulateL
<1>. DEFINE Inv(k) == \/ a[k] = v[k] /\ v[k] <= limit
                      \/ /\ a[k] = Double
                         /\ v[k] > limit \/ (k < Len(d) /\ v[k] >= 10 * threshold)
            Good == {k \in Nat : k <= Len(d) => Inv(k)}
<1>5. ASSUME NEW k \in Nat, k + 1 <= Len(d), Inv(k) PROVE Inv(k + 1)
  <2>. DEFINE x == d[k + 1]
              next == 10 * v[k] + x
  <2>1. x \in Nat /\ x <= 9 /\ v[k] \in Nat /\ Len(d) \in Nat
    BY <1>3, <1>5, DigitsL
  <2>2. v[k + 1] = next /\ a[k + 1] = NextValue(a[k], d, k + 1, threshold, last)
    <3>1. k + 1 \in 1 .. Len(d) /\ (k + 1) - 1 = k
      BY <1>5, <2>1
    <3>. QED  BY <1>3, <1>4, <3>1
  <2>. HIDE DEF x
  <2>3. CASE a[k] = Double
    <3>1. v[k] >= 10 * threshold
      BY <1>1, <1>2, <1>5, <2>1, <2>3 DEF Double
    <3>2. next > limit
      BY <1>2, <2>1, <3>1
    <3>3. a[k + 1] = Double
      BY <2>2, <2>3 DEF NextValue
    <3>. QED  BY <2>2, <3>2, <3>3
  <2>4. CASE a[k] # Double
    <3>1. a[k] = v[k] /\ v[k] <= limit
      BY <1>5, <2>4
    <3>2. CASE PassesLimit(v[k], d, k + 1, threshold, last)
      <4>1. a[k + 1] = Double
        BY <2>2, <3>1, <3>2 DEF NextValue
      <4>2. v[k] >= threshold /\ (v[k] > threshold \/ k + 1 # Len(d) \/ x > last)
        BY <3>2 DEF PassesLimit, x
      <4>3. next > limit \/ (k + 1 < Len(d) /\ next >= 10 * threshold)
        BY <1>2, <1>5, <2>1, <4>2
      <4>. QED  BY <2>2, <4>1, <4>3
    <3>3. CASE ~ PassesLimit(v[k], d, k + 1, threshold, last)
      <4>1. v[k] < threshold \/ (v[k] <= threshold /\ x <= last)
        BY <1>2, <2>1, <3>3 DEF PassesLimit, x
      <4>2. next <= limit /\ next \in Nat
        BY <1>2, <2>1, <4>1
      <4>3. (v[k] * 10 + x) % (MaxUInt64 + 1) = next
        <5>1. v[k] * 10 + x = next /\ next < MaxUInt64 + 1
          BY <1>1, <1>2, <2>1, <4>2
        <5>. QED  BY <1>1, <4>2, <5>1, SMTT(60)
      <4>4. a[k + 1] = (v[k] * 10 + x) % (MaxUInt64 + 1)
        BY <2>2, <2>4, <3>1, <3>3 DEF NextValue, x
      <4>. QED  BY <2>2, <4>2, <4>3, <4>4
    <3>. QED  BY <3>2, <3>3
  <2>. QED  BY <2>3, <2>4
<1>6. Inv(Len(d))
  <2>1. 0 \in Good
    BY <1>1, <1>3, <1>4
  <2>2. ASSUME NEW k \in Nat, k \in Good PROVE k + 1 \in Good
    <3>. HIDE DEF Inv
    <3>. SUFFICES ASSUME k + 1 <= Len(d) PROVE Inv(k + 1)
      OBVIOUS
    <3>1. k <= Len(d)
      BY DigitsL
    <3>. QED  BY <1>5, <2>2, <3>1
  <2>. HIDE DEF Good, Inv
  <2>3. Len(d) \in Nat /\ Len(d) <= Len(d)
    BY DigitsL
  <2>4. Len(d) \in Good
    BY <2>1, <2>2, <2>3, SetInduction
  <2>. QED  BY <2>3, <2>4 DEF Good
<1>7. Len(d) \in Nat /\ v[Len(d)] \in Nat
  BY <1>3, DigitsL
<1>8. Magnitude(negative, d) = a[Len(d)]
  BY <1>4 DEF Magnitude, limit, threshold, last
<1>9. a[Len(d)] = IF v[Len(d)] <= limit THEN v[Len(d)] ELSE Double
  BY <1>1, <1>6, <1>7
<1>. QED  BY <1>3, <1>8, <1>9 DEF limit

(* A number written by the library is read as the same number if an Int64  *)
(* or an UInt64 can hold it, and as a double if none can; putting the      *)
(* negative one together never passes the least Int64                      *)
(* (jsoncpp.cpp:1830-1838, 4221-4243).                                     *)
THEOREM WholeNumbersReadBack ==
  \A n \in Int :
    LET negative == n < 0
        size == IF negative THEN -n ELSE n
        value == Magnitude(negative, Decimal(size))
    IN  IF n \in MinInt64 .. MaxUInt64
        THEN /\ value # Double /\ Signed(negative, value) = n
             /\ negative => -(value \div 10) * 10 \in MinInt64 .. 0
        ELSE value = Double
<1>. SUFFICES ASSUME NEW n \in Int
     PROVE  LET negative == n < 0
                size == IF negative THEN -n ELSE n
                value == Magnitude(negative, Decimal(size))
            IN  IF n \in MinInt64 .. MaxUInt64
                THEN /\ value # Double /\ Signed(negative, value) = n
                     /\ negative => -(value \div 10) * 10 \in MinInt64 .. 0
                ELSE value = Double
  OBVIOUS
<1>. DEFINE negative == n < 0
            size == IF negative THEN -n ELSE n
            value == Magnitude(negative, Decimal(size))
<1>1. size \in Nat
  OBVIOUS
<1>2. Decimal(size) \in Seq(Digit) /\ NumberOf(Decimal(size)) = size
  BY <1>1, DecimalDigits
<1>. HIDE DEF size
<1>3. negative \in BOOLEAN
  OBVIOUS
<1>. HIDE DEF negative
<1>4. value = IF size <= Limit(negative) THEN size ELSE Double
  BY <1>2, <1>3, LoopExact
<1>. HIDE DEF value
<1>5. size <= Limit(negative) <=> n \in MinInt64 .. MaxUInt64
  BY WidthAssumption DEF Limit, MinInt64, size, negative
<1>6. CASE n \in MinInt64 .. MaxUInt64
  <2>1. value = size /\ value # Double
    BY <1>1, <1>4, <1>5, <1>6 DEF Double
  <2>2. size = 10 * (size \div 10) + (size % 10) /\ size \div 10 \in Nat /\ size % 10 \in 0 .. 9
    BY <1>1
  <2>3. Signed(negative, size) = n
    BY <2>2 DEF Signed, size, negative
  <2>4. negative => -(size \div 10) * 10 \in MinInt64 .. 0
    BY <1>6, <2>2, WidthAssumption DEF size, negative, MinInt64
  <2>. QED  BY <1>6, <2>1, <2>3, <2>4 DEF value, size, negative
<1>7. CASE n \notin MinInt64 .. MaxUInt64
  <2>1. value = Double
    BY <1>4, <1>5, <1>7
  <2>. QED  BY <1>7, <2>1 DEF value, size, negative
<1>. QED  BY <1>6, <1>7

-----------------------------------------------------------------------------
(* Characters. *)

Octets == {x \in Nat : x <= 255}
Unit == {x \in Nat : x < 65536}
Scalars == {cp \in Nat : cp <= Last4 /\ ~ IsSurrogate(cp)}

(* Reading a character never goes back and never passes the end of the     *)
(* text, whatever bytes are in it (jsoncpp.cpp:4316-4365).                 *)
THEOREM StaysInText ==
  \A s \in Seq(Octets) : \A i \in 1 .. Len(s) :
    utf8ToCodepoint(s, i)[2] \in 1 .. (Len(s) + 1 - i)
<1>. SUFFICES ASSUME NEW s \in Seq(Octets), NEW i \in 1 .. Len(s)
     PROVE  utf8ToCodepoint(s, i)[2] \in 1 .. (Len(s) + 1 - i)
  OBVIOUS
<1>. DEFINE n == LengthFrom(s[i])
<1>1. Len(s) \in Nat /\ i \in 1 .. Len(s)
  BY LenProperties
<1>2. n \in {0, 1, 2, 3, 4}
  BY DEF LengthFrom
<1>3. CASE n = 0 \/ i + n - 1 > Len(s)
  <2>1. utf8ToCodepoint(s, i) = <<Replacement, 1>>
    BY <1>3 DEF utf8ToCodepoint
  <2>. HIDE DEF n
  <2>. QED  BY <1>1, <2>1
<1>4. CASE ~ (n = 0 \/ i + n - 1 > Len(s))
  <2>1. utf8ToCodepoint(s, i) = <<Replacement, n>> \/ utf8ToCodepoint(s, i) = <<Bits(s, i, n), n>>
    BY <1>4 DEF utf8ToCodepoint
  <2>. HIDE DEF n
  <2>. QED  BY <1>1, <1>2, <1>4, <2>1
<1>. QED  BY <1>3, <1>4

(* The bytes of a code point are bytes, and the first tells their number.  *)
LEMMA RestL ==
  ASSUME NEW cp \in Nat, NEW shift \in Nat \ {0}
  PROVE  Rest(cp, shift) \in Octets /\ Rest(cp, shift) % 64 = (cp \div shift) % 64
<1>1. cp \div shift \in Nat
  OBVIOUS
<1>. DEFINE q == cp \div shift
<1>. HIDE DEF q
<1>2. 128 + (q % 64) \in Octets /\ (128 + (q % 64)) % 64 = q % 64
  BY <1>1 DEF Octets, q
<1>. QED  BY <1>2 DEF Rest, q

(* A number put together from groups of six bits. *)
LEMMA SixBits ==
  ASSUME NEW x \in Nat
  PROVE  /\ x = (x \div 64) * 64 + ((x \div 1) % 64)
         /\ x = (x \div 4096) * 4096 + ((x \div 64) % 64) * 64 + ((x \div 1) % 64)
         /\ x = (x \div 262144) * 262144 + ((x \div 4096) % 64) * 4096
                + ((x \div 64) % 64) * 64 + ((x \div 1) % 64)
<1>1. x \div 1 = x
  BY SMTT(30)
<1>2. x = (x \div 64) * 64 + (x % 64) /\ x \div 64 \in Nat
  BY SMTT(30)
<1>3. (x \div 64) = (x \div 4096) * 64 + ((x \div 64) % 64) /\ x \div 4096 \in Nat
  BY SMTT(30)
<1>4. (x \div 4096) = (x \div 262144) * 64 + ((x \div 4096) % 64) /\ x \div 262144 \in Nat
  BY SMTT(30)
<1>. QED  BY <1>1, <1>2, <1>3, <1>4, SMTT(30)

(* The four lengths of a character. *)
LEMMA Utf8Cases ==
  ASSUME NEW cp \in Scalars
  PROVE  \/ cp <= Last1 /\ codePointToUTF8(cp) = <<cp>>
         \/ cp > Last1 /\ cp <= Last2 /\ codePointToUTF8(cp) = Bytes2(cp)
         \/ cp > Last2 /\ cp <= Last3 /\ codePointToUTF8(cp) = Bytes3(cp)
         \/ cp > Last3 /\ cp <= Last4 /\ codePointToUTF8(cp) = Bytes4(cp)
<1>1. cp \in Nat /\ cp <= Last4
  BY DEF Scalars
<1>2. /\ ~ (cp <= Last1) => cp > Last1
      /\ ~ (cp <= Last2) => cp > Last2
      /\ ~ (cp <= Last3) => cp > Last3
  BY <1>1, SMTT(30) DEF Last1, Last2, Last3
<1>. QED  BY <1>1, <1>2, Zenon DEF codePointToUTF8

LEMMA Utf8Bytes ==
  ASSUME NEW cp \in Scalars
  PROVE  /\ codePointToUTF8(cp) \in Seq(Octets)
         /\ Len(codePointToUTF8(cp)) \in {1, 2, 3, 4}
         /\ LengthFrom(codePointToUTF8(cp)[1]) = Len(codePointToUTF8(cp))
<1>. DEFINE u == codePointToUTF8(cp)
<1>1. cp \in Nat
  BY DEF Scalars
<1>2. Rest(cp, 1) \in Octets /\ Rest(cp, 64) \in Octets /\ Rest(cp, 4096) \in Octets
  BY <1>1, RestL
<1>. HIDE DEF u
<1>3. CASE cp <= Last1 /\ u = <<cp>>
  <2>1. cp \in Octets /\ LengthFrom(cp) = 1
    BY <1>1, <1>3, SMTT(30) DEF Octets, LengthFrom, Last1
  <2>. QED  BY <1>3, <2>1 DEF u
<1>4. CASE cp > Last1 /\ cp <= Last2 /\ u = Bytes2(cp)
  <2>. DEFINE a == 192 + (cp \div 64)
  <2>1. a \in Octets /\ LengthFrom(a) = 2
    BY <1>1, <1>4, SMTT(30) DEF Octets, LengthFrom, Last1, Last2
  <2>2. u = <<a, Rest(cp, 1)>>
    BY <1>4, SMTT(30) DEF Bytes2
  <2>. HIDE DEF a
  <2>. QED  BY <1>2, <2>1, <2>2 DEF u
<1>5. CASE cp > Last2 /\ cp <= Last3 /\ u = Bytes3(cp)
  <2>. DEFINE a == 224 + (cp \div 4096)
  <2>1. a \in Octets /\ LengthFrom(a) = 3
    BY <1>1, <1>5, SMTT(30) DEF Octets, LengthFrom, Last2, Last3
  <2>2. u = <<a, Rest(cp, 64), Rest(cp, 1)>>
    BY <1>5, SMTT(30) DEF Bytes3
  <2>. HIDE DEF a
  <2>. QED  BY <1>2, <2>1, <2>2 DEF u
<1>6. CASE cp > Last3 /\ cp <= Last4 /\ u = Bytes4(cp)
  <2>. DEFINE a == 240 + (cp \div 262144)
  <2>1. a \in Octets /\ LengthFrom(a) = 4
    BY <1>1, <1>6, SMTT(30) DEF Octets, LengthFrom, Last3, Last4
  <2>2. u = <<a, Rest(cp, 4096), Rest(cp, 64), Rest(cp, 1)>>
    BY <1>6, SMTT(30) DEF Bytes4
  <2>. HIDE DEF a
  <2>. QED  BY <1>2, <2>1, <2>2 DEF u
<1>. QED  BY <1>3, <1>4, <1>5, <1>6, Utf8Cases DEF u

(* Wherever the UTF-8 of a code point stands in a text, the writer reads   *)
(* that code point of it and takes its bytes (jsoncpp.cpp:125-151,         *)
(* 4316-4365).                                                             *)
THEOREM Utf8ReadBack ==
  \A cp \in Scalars, s \in Seq(Octets) : \A i \in 1 .. Len(s) :
    LET u == codePointToUTF8(cp) IN
    i + Len(u) - 1 <= Len(s) /\ (\A k \in 1 .. Len(u) : s[i + k - 1] = u[k])
      => utf8ToCodepoint(s, i) = <<cp, Len(u)>>
<1>. SUFFICES ASSUME NEW cp \in Scalars, NEW s \in Seq(Octets), NEW i \in 1 .. Len(s),
                     i + Len(codePointToUTF8(cp)) - 1 <= Len(s),
                     \A k \in 1 .. Len(codePointToUTF8(cp)) : s[i + k - 1] = codePointToUTF8(cp)[k]
     PROVE  utf8ToCodepoint(s, i) = <<cp, Len(codePointToUTF8(cp))>>
  OBVIOUS
<1>. DEFINE u == codePointToUTF8(cp)
            n == Len(u)
<1>. HIDE DEF u
<1>1. Len(s) \in Nat /\ n \in {1, 2, 3, 4} /\ LengthFrom(u[1]) = n
  BY LenProperties, Utf8Bytes DEF u
<1>2. s[i] = u[1] /\ \A k \in 1 .. n - 1 : s[i + k] = u[k + 1]
  <2>1. i + 1 - 1 = i /\ 1 \in 1 .. n
    BY <1>1
  <2>2. \A k \in 1 .. n - 1 : k + 1 \in 1 .. n /\ i + (k + 1) - 1 = i + k
    BY <1>1
  <2>. QED  BY <2>1, <2>2 DEF u
<1>3. ~ (n = 0 \/ i + n - 1 > Len(s))
  BY <1>1 DEF u
<1>4. cp \in Nat /\ ~ IsSurrogate(cp)
  BY DEF Scalars
<1>5. ASSUME Bits(s, i, n) = cp, ~ Oversized(cp, n)
      PROVE  utf8ToCodepoint(s, i) = <<cp, n>>
  <2>1. LengthFrom(s[i]) = n
    BY <1>1, <1>2
  <2>. HIDE DEF n
  <2>. QED  BY <1>3, <1>4, <1>5, <2>1, Zenon DEF utf8ToCodepoint
<1>. DEFINE r0 == (cp \div 1) % 64
            r1 == (cp \div 64) % 64
            r2 == (cp \div 4096) % 64
<1>6. Rest(cp, 1) % 64 = r0 /\ Rest(cp, 64) % 64 = r1 /\ Rest(cp, 4096) % 64 = r2
  <2>1. \A shift \in Nat \ {0} : Rest(cp, shift) % 64 = (cp \div shift) % 64
    BY <1>4, RestL
  <2>2. 1 \in Nat \ {0} /\ 64 \in Nat \ {0} /\ 4096 \in Nat \ {0}
    OBVIOUS
  <2>. QED  BY <2>1, <2>2
<1>7. /\ cp = (cp \div 64) * 64 + r0
      /\ cp = (cp \div 4096) * 4096 + r1 * 64 + r0
      /\ cp = (cp \div 262144) * 262144 + r2 * 4096 + r1 * 64 + r0
  BY <1>4, SixBits, SMTT(30)
<1>. HIDE DEF r0, r1, r2
<1>8. CASE cp <= Last1 /\ u = <<cp>>
  <2>1. n = 1 /\ s[i] = cp
    BY <1>2, <1>8
  <2>2. Bits(s, i, n) = cp /\ ~ Oversized(cp, n)
    BY <2>1, SMTT(30) DEF Bits, Oversized
  <2>. QED  BY <1>5, <2>2 DEF u
<1>9. CASE cp > Last1 /\ cp <= Last2 /\ u = Bytes2(cp)
  <2>. DEFINE a == 192 + (cp \div 64)
  <2>1. u = <<a, Rest(cp, 1)>>
    BY <1>9, SMTT(30) DEF Bytes2
  <2>2. (a % 32) * 64 + r0 = cp
    <3>1. a % 32 = cp \div 64
      BY <1>4, <1>9, SMTT(30) DEF Last1, Last2
    <3>. QED  BY <1>7, <3>1, SMTT(30)
  <2>. HIDE DEF a
  <2>3. n = 2 /\ s[i] = a /\ s[i + 1] = Rest(cp, 1)
    <3>1. n = 2 /\ u[1] = a /\ u[2] = Rest(cp, 1)
      BY <2>1
    <3>2. s[i + 1] = u[1 + 1]
      BY <1>2, <3>1
    <3>. QED  BY <1>2, <3>1, <3>2
  <2>4. Bits(s, i, n) = cp
    BY <1>6, <2>2, <2>3, SMTT(30) DEF Bits
  <2>5. ~ Oversized(cp, n)
    BY <1>4, <1>9, <2>3, SMTT(30) DEF Oversized, Last1
  <2>. QED  BY <1>5, <2>4, <2>5 DEF u
<1>10. CASE cp > Last2 /\ cp <= Last3 /\ u = Bytes3(cp)
  <2>. DEFINE a == 224 + (cp \div 4096)
  <2>1. u = <<a, Rest(cp, 64), Rest(cp, 1)>>
    BY <1>10, SMTT(30) DEF Bytes3
  <2>2. (a % 16) * 4096 + r1 * 64 + r0 = cp
    <3>1. a % 16 = cp \div 4096
      BY <1>4, <1>10, SMTT(30) DEF Last2, Last3
    <3>. QED  BY <1>7, <3>1, SMTT(30)
  <2>. HIDE DEF a
  <2>3. n = 3 /\ s[i] = a /\ s[i + 1] = Rest(cp, 64) /\ s[i + 2] = Rest(cp, 1)
    <3>1. n = 3 /\ u[1] = a /\ u[2] = Rest(cp, 64) /\ u[3] = Rest(cp, 1)
      BY <2>1
    <3>2. s[i + 1] = u[1 + 1] /\ s[i + 2] = u[2 + 1]
      BY <1>2, <3>1
    <3>. QED  BY <1>2, <3>1, <3>2
  <2>4. Bits(s, i, n) = cp
    BY <1>6, <2>2, <2>3, SMTT(30) DEF Bits
  <2>5. ~ Oversized(cp, n)
    BY <1>4, <1>10, <2>3, SMTT(30) DEF Oversized, Last2
  <2>. QED  BY <1>5, <2>4, <2>5 DEF u
<1>11. CASE cp > Last3 /\ cp <= Last4 /\ u = Bytes4(cp)
  <2>. DEFINE a == 240 + (cp \div 262144)
  <2>1. u = <<a, Rest(cp, 4096), Rest(cp, 64), Rest(cp, 1)>>
    BY <1>11, SMTT(30) DEF Bytes4
  <2>2. (a % 8) * 262144 + r2 * 4096 + r1 * 64 + r0 = cp
    <3>1. a % 8 = cp \div 262144
      BY <1>4, <1>11, SMTT(30) DEF Last3, Last4
    <3>. QED  BY <1>7, <3>1, SMTT(30)
  <2>. HIDE DEF a
  <2>3. /\ n = 4 /\ s[i] = a /\ s[i + 1] = Rest(cp, 4096)
        /\ s[i + 2] = Rest(cp, 64) /\ s[i + 3] = Rest(cp, 1)
    <3>1. n = 4 /\ u[1] = a /\ u[2] = Rest(cp, 4096) /\ u[3] = Rest(cp, 64) /\ u[4] = Rest(cp, 1)
      BY <2>1
    <3>2. s[i + 1] = u[1 + 1] /\ s[i + 2] = u[2 + 1] /\ s[i + 3] = u[3 + 1]
      BY <1>2, <3>1
    <3>. QED  BY <1>2, <3>1, <3>2
  <2>4. Bits(s, i, n) = cp
    BY <1>6, <2>2, <2>3, SMTT(30) DEF Bits
  <2>5. ~ Oversized(cp, n)
    BY <1>4, <1>11, <2>3, SMTT(30) DEF Oversized, Last3
  <2>. QED  BY <1>5, <2>4, <2>5 DEF u
<1>. QED  BY <1>8, <1>9, <1>10, <1>11, Utf8Cases DEF u

(* The four digits of an escape are hex digits and give its unit; a code   *)
(* point of one unit is never taken for half of a pair, and the two        *)
(* surrogates of any other give it back (jsoncpp.cpp:1936-1984, 4384-4392, *)
(* 4463-4471).                                                             *)
THEOREM EscapesReadBack ==
  \A cp \in Scalars :
    LET u == Units(cp) IN
    /\ u \in Seq(Unit)
    /\ \A k \in 1 .. Len(u) :
         toHex16Bit(u[k]) \in [1 .. 4 -> 0 .. 15] /\ UnitOf(toHex16Bit(u[k])) = u[k]
    /\ \/ u = <<cp>> /\ ~ IsHigh(u[1])
       \/ Len(u) = 2 /\ IsHigh(u[1]) /\ Paired(u[1], u[2]) = cp
<1>. SUFFICES ASSUME NEW cp \in Scalars
     PROVE  LET u == Units(cp) IN
            /\ u \in Seq(Unit)
            /\ \A k \in 1 .. Len(u) :
                 toHex16Bit(u[k]) \in [1 .. 4 -> 0 .. 15] /\ UnitOf(toHex16Bit(u[k])) = u[k]
            /\ \/ u = <<cp>> /\ ~ IsHigh(u[1])
               \/ Len(u) = 2 /\ IsHigh(u[1]) /\ Paired(u[1], u[2]) = cp
  OBVIOUS
<1>. DEFINE u == Units(cp)
<1>1. ASSUME NEW x \in Unit
      PROVE  toHex16Bit(x) \in [1 .. 4 -> 0 .. 15] /\ UnitOf(toHex16Bit(x)) = x
  <2>. DEFINE a == x \div 4096
              b == (x \div 256) % 16
              c == (x \div 16) % 16
              d == x % 16
  <2>1. x \in Nat /\ x < 65536
    BY SMTT(30) DEF Unit
  <2>2. a \in 0 .. 15 /\ b \in 0 .. 15 /\ c \in 0 .. 15 /\ d \in 0 .. 15
    BY <2>1, SMTT(30)
  <2>3. ((a * 16 + b) * 16 + c) * 16 + d = x
    <3>1. /\ x = 16 * (x \div 16) + d
          /\ x \div 16 = 16 * (x \div 256) + c
          /\ x \div 256 = 16 * a + b
      BY <2>1, SMTT(30)
    <3>2. x \div 16 \in Nat /\ x \div 256 \in Nat /\ a \in Nat /\ b \in Nat /\ c \in Nat /\ d \in Nat
      BY <2>1, SMTT(30)
    <3>. QED  BY <3>1, <3>2, SMTT(30)
  <2>4. toHex16Bit(x) = <<a, b, c, d>>
    BY DEF toHex16Bit
  <2>. HIDE DEF a, b, c, d
  <2>. QED  BY <2>2, <2>3, <2>4 DEF UnitOf
<1>2. cp \in Nat /\ cp <= 1114111 /\ ~ (cp >= 55296 /\ cp <= 56319)
  BY SMTT(30) DEF Scalars, IsSurrogate, Last4
<1>3. CASE cp < 65536
  <2>1. u = <<cp>> /\ cp \in Unit /\ ~ IsHigh(cp)
    BY <1>2, <1>3, SMTT(30) DEF Units, Unit, IsHigh
  <2>. QED  BY <1>1, <2>1, SMTT(30)
<1>4. CASE ~ (cp < 65536)
  <2>. DEFINE q == (cp - 65536) \div 1024
              r == cp % 1024
              h == 55296 + (q % 1024)
              l == 56320 + r
  <2>1. u = <<h, l>>
    BY <1>4, SMTT(30) DEF Units
  <2>2. cp - 65536 \in Nat /\ cp - 65536 < 1048576
    BY <1>2, <1>4, SMTT(30)
  <2>3. q \in Nat /\ q < 1024 /\ cp - 65536 = 1024 * q + ((cp - 65536) % 1024)
    BY <2>2, SMTT(30)
  <2>4. r \in Nat /\ r < 1024 /\ (cp - 65536) % 1024 = r
    BY <1>2, <2>2, SMTT(30)
  <2>. HIDE DEF q, r
  <2>5. h % 1024 = q /\ l % 1024 = r
    BY <2>3, <2>4, SMTT(30)
  <2>6. Paired(h, l) = cp /\ IsHigh(h) /\ h \in Unit /\ l \in Unit
    BY <1>2, <2>3, <2>4, <2>5, SMTT(30) DEF Paired, IsHigh, Unit
  <2>. HIDE DEF h, l
  <2>. QED  BY <1>1, <2>1, <2>6, SMTT(30)
<1>. QED  BY <1>3, <1>4
===============================================================================
