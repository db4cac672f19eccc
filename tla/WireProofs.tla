------------------------------ MODULE WireProofs ------------------------------
(***************************************************************************)
(* Proofs about Wire, for any number of connections and messages, bodies,  *)
(* limits and widths of the header, and any cuts of the stream.            *)
(***************************************************************************)
EXTENDS Wire, SequenceTheorems, WellFoundedInduction, TLAPS

(* Induction over the natural numbers, stated with a set. *)
LEMMA SetInduction ==
  ASSUME NEW S, 0 \in S, \A n \in Nat : n \in S => n + 1 \in S
  PROVE  Nat \subseteq S
<1>. DEFINE T == Nat \ S
            R == OpToRel(<, Nat)
<1>1. IsWellFoundedOn(R, Nat)
  BY NatLessThanWellFounded
<1>2. ASSUME NEW x \in Nat, NEW y \in Nat, x < y PROVE <<x, y>> \in R
  BY <1>2 DEF OpToRel
<1>3. SUFFICES ASSUME T # {} PROVE FALSE
  OBVIOUS
<1>. HIDE DEF R
<1>4. PICK n \in T : \A m \in T : ~ (<<m, n>> \in R)
  BY <1>1, <1>3, WFMin
<1>5. n \in Nat /\ n # 0 /\ n - 1 \in Nat /\ n - 1 < n /\ n - 1 + 1 = n
  OBVIOUS
<1>6. n - 1 \notin T
  BY <1>2, <1>4, <1>5
<1>. QED  BY <1>5, <1>6

----------------------------------------------------------------------------
(* Numbers in network byte order. *)

(* The recursion of Shifts has a solution, and only one. *)
IsShifts(f, n, w) == f = [i \in 0 .. w |-> IF i = 0 THEN n ELSE f[i - 1] \div 256]

LEMMA ShiftsL ==
  ASSUME NEW n \in Nat, NEW w \in Nat
  PROVE  /\ Shifts(n, w)[0] = n
         /\ \A i \in 0 .. w : Shifts(n, w)[i] \in Nat
         /\ \A i \in 1 .. w : Shifts(n, w)[i] = Shifts(n, w)[i - 1] \div 256
<1>. DEFINE Good == {k \in Nat : \E f : IsShifts(f, n, k)}
<1>1. 0 \in Good
  <2>1. IsShifts([i \in 0 .. 0 |-> n], n, 0)
    BY DEF IsShifts
  <2>. QED  BY <2>1
<1>2. ASSUME NEW k \in Nat, k \in Good PROVE k + 1 \in Good
  <2>1. PICK f : IsShifts(f, n, k)
    BY <1>2
  <2>. DEFINE g == [i \in 0 .. k + 1 |-> IF i = k + 1 THEN f[k] \div 256 ELSE f[i]]
  <2>2. ASSUME NEW i \in 0 .. k + 1
        PROVE  g[i] = IF i = 0 THEN n ELSE g[i - 1] \div 256
    BY <2>1 DEF IsShifts
  <2>3. IsShifts(g, n, k + 1)
    BY <2>2 DEF IsShifts
  <2>. QED  BY <2>3
<1>3. \E f : IsShifts(f, n, w)
  <2>. HIDE DEF Good
  <2>1. w \in Good
    BY <1>1, <1>2, SetInduction
  <2>. QED  BY <2>1 DEF Good
<1>. DEFINE s == Shifts(n, w)
<1>4. IsShifts(s, n, w)
  BY <1>3 DEF Shifts, IsShifts
<1>. HIDE DEF s
<1>5. s[0] = n /\ \A i \in 1 .. w : s[i] = s[i - 1] \div 256
  BY <1>4 DEF IsShifts
<1>. DEFINE Num == {k \in Nat : k <= w => s[k] \in Nat}
<1>6. \A k \in 0 .. w : s[k] \in Nat
  <2>1. 0 \in Num
    BY <1>5
  <2>2. ASSUME NEW k \in Nat, k \in Num PROVE k + 1 \in Num
    <3>. SUFFICES ASSUME k + 1 <= w PROVE s[k + 1] \in Nat
      OBVIOUS
    <3>1. s[k + 1] = s[(k + 1) - 1] \div 256
      BY <1>5
    <3>2. (k + 1) - 1 = k /\ s[k] \in Nat
      BY <2>2
    <3>. QED  BY <3>1, <3>2
  <2>. HIDE DEF Num
  <2>3. Nat \subseteq Num
    BY <2>1, <2>2, SetInduction
  <2>. QED  BY <2>3 DEF Num
<1>. QED  BY <1>5, <1>6 DEF s

(* So has that of Number. *)
IsValue(v, bytes, k) == v = [i \in 0 .. k |-> IF i = 0 THEN 0 ELSE 256 * v[i - 1] + bytes[i]]

LEMMA NumberL ==
  ASSUME NEW bytes \in Seq(Byte)
  PROVE  \E v : IsValue(v, bytes, Len(bytes)) /\ Number(bytes) = v[Len(bytes)]
<1>. DEFINE Good == {k \in Nat : \E v : IsValue(v, bytes, k)}
<1>1. 0 \in Good
  <2>1. IsValue([i \in 0 .. 0 |-> 0], bytes, 0)
    BY DEF IsValue
  <2>. QED  BY <2>1
<1>2. ASSUME NEW k \in Nat, k \in Good PROVE k + 1 \in Good
  <2>1. PICK f : IsValue(f, bytes, k)
    BY <1>2
  <2>. DEFINE g == [i \in 0 .. k + 1 |-> IF i = k + 1 THEN 256 * f[k] + bytes[k + 1] ELSE f[i]]
  <2>2. ASSUME NEW i \in 0 .. k + 1
        PROVE  g[i] = IF i = 0 THEN 0 ELSE 256 * g[i - 1] + bytes[i]
    BY <2>1 DEF IsValue
  <2>3. IsValue(g, bytes, k + 1)
    BY <2>2 DEF IsValue
  <2>. QED  BY <2>3
<1>3. \E v : IsValue(v, bytes, Len(bytes))
  <2>. HIDE DEF Good
  <2>1. Len(bytes) \in Good
    BY <1>1, <1>2, SetInduction, LenProperties
  <2>. QED  BY <2>1 DEF Good
<1>. QED  BY <1>3 DEF Number, IsValue

LEMMA BigEndianType ==
  ASSUME NEW n \in Nat, NEW w \in Nat
  PROVE  BigEndian(n, w) \in Seq(Byte) /\ Len(BigEndian(n, w)) = w
<1>1. ASSUME NEW i \in 1 .. w PROVE Shifts(n, w)[w - i] % 256 \in Byte
  <2>1. w - i \in 0 .. w
    OBVIOUS
  <2>2. Shifts(n, w)[w - i] \in Nat
    BY <2>1, ShiftsL
  <2>. QED  BY <2>2 DEF Byte
<1>. QED  BY <1>1 DEF BigEndian

(* What fits into its bytes is read back from them (MsgNode.h:66,          *)
(* CSession.cpp:164).                                                      *)
LEMMA ByteOrder ==
  ASSUME NEW n \in Nat, NEW w \in Nat, Fits(n, w)
  PROVE  Number(BigEndian(n, w)) = n
<1>. DEFINE b == BigEndian(n, w)
            s == Shifts(n, w)
<1>1. b \in Seq(Byte) /\ Len(b) = w
  BY BigEndianType
<1>2. PICK value : IsValue(value, b, w) /\ Number(b) = value[w]
  BY <1>1, NumberL
<1>3. /\ s[w] = 0 /\ s[0] = n
      /\ \A i \in 0 .. w : s[i] \in Nat
      /\ \A i \in 1 .. w : s[i] = s[i - 1] \div 256
  BY ShiftsL DEF Fits
<1>4. \A i \in 1 .. w : b[i] = s[w - i] % 256
  BY DEF BigEndian
<1>. HIDE DEF b, s
<1>. DEFINE Good == {k \in Nat : k <= w => value[k] = s[w - k]}
<1>5. 0 \in Good
  BY <1>2, <1>3 DEF IsValue
<1>6. ASSUME NEW k \in Nat, k \in Good PROVE k + 1 \in Good
  <2>. SUFFICES ASSUME k + 1 <= w PROVE value[k + 1] = s[w - (k + 1)]
    OBVIOUS
  <2>1. value[k + 1] = 256 * value[k] + b[k + 1]
    BY <1>2 DEF IsValue
  <2>2. b[k + 1] = s[w - (k + 1)] % 256
    BY <1>4
  <2>3. w - k \in 1 .. w /\ (w - k) - 1 = w - (k + 1) /\ w - (k + 1) \in 0 .. w
    OBVIOUS
  <2>4. s[w - k] = s[w - (k + 1)] \div 256 /\ s[w - (k + 1)] \in Nat
    BY <1>3, <2>3
  <2>5. value[k] = s[w - k]
    BY <1>6
  <2>. QED  BY <2>1, <2>2, <2>4, <2>5
<1>7. value[w] = s[0]
  <2>. HIDE DEF Good
  <2>1. w \in Good
    BY <1>5, <1>6, SetInduction
  <2>. QED  BY <2>1 DEF Good
<1>. QED  BY <1>2, <1>3, <1>7 DEF b

----------------------------------------------------------------------------
(* Sequences cut in two. *)

LEMMA SplitL ==
  ASSUME NEW S, NEW s \in Seq(S), NEW k \in 0 .. Len(s)
  PROVE  /\ First(s, k) \in Seq(S) /\ Len(First(s, k)) = k
         /\ Behind(s, k) \in Seq(S) /\ Len(Behind(s, k)) = Len(s) - k
         /\ First(s, k) \o Behind(s, k) = s
         /\ \A i \in 1 .. k : First(s, k)[i] = s[i]
         /\ \A i \in 1 .. Len(s) - k : Behind(s, k)[i] = s[k + i]
<1>. DEFINE f == First(s, k)
            b == Behind(s, k)
<1>1. /\ f \in Seq(S) /\ Len(f) = k /\ \A i \in 1 .. k : f[i] = s[i]
  BY SubSeqProperties, LenProperties, ElementOfSeq DEF First
<1>2. /\ b \in Seq(S) /\ Len(b) = Len(s) - k /\ \A i \in 1 .. Len(s) - k : b[i] = s[k + i]
  BY SubSeqProperties, LenProperties, ElementOfSeq DEF Behind
<1>. HIDE DEF f, b
<1>3. f \o b \in Seq(S) /\ Len(f \o b) = Len(s)
  BY <1>1, <1>2, ConcatProperties, LenProperties
<1>4. ASSUME NEW i \in 1 .. Len(s) PROVE (f \o b)[i] = s[i]
  <2>1. Len(s) \in Nat /\ Len(f) + Len(b) = Len(s)
    BY <1>1, <1>2, LenProperties
  <2>2. (f \o b)[i] = IF i <= k THEN f[i] ELSE b[i - k]
    BY <1>1, <1>2, <2>1, ConcatProperties
  <2>. QED  BY <1>1, <1>2, <2>1, <2>2
<1>5. f \o b = s
  BY <1>3, <1>4, SeqEqual
<1>. QED  BY <1>1, <1>2, <1>5 DEF f, b

LEMMA ConcatSplitL ==
  ASSUME NEW S, NEW s \in Seq(S), NEW t \in Seq(S)
  PROVE  First(s \o t, Len(s)) = s /\ Behind(s \o t, Len(s)) = t
<1>. DEFINE u == s \o t
            n == Len(s)
<1>1. /\ u \in Seq(S) /\ Len(u) = n + Len(t) /\ n \in Nat /\ Len(t) \in Nat
      /\ \A i \in 1 .. n : u[i] = s[i]
      /\ \A i \in 1 .. Len(t) : u[n + i] = t[i]
  BY ConcatProperties, LenProperties
<1>. HIDE DEF u
<1>2. n \in 0 .. Len(u)
  BY <1>1
<1>3. /\ First(u, n) \in Seq(S) /\ Len(First(u, n)) = n
      /\ Behind(u, n) \in Seq(S) /\ Len(Behind(u, n)) = Len(t)
      /\ \A i \in 1 .. n : First(u, n)[i] = s[i]
      /\ \A i \in 1 .. Len(t) : Behind(u, n)[i] = t[i]
  <2>1. Len(u) - n = Len(t)
    BY <1>1
  <2>2. /\ First(u, n) \in Seq(S) /\ Len(First(u, n)) = n
        /\ Behind(u, n) \in Seq(S) /\ Len(Behind(u, n)) = Len(u) - n
        /\ \A i \in 1 .. n : First(u, n)[i] = u[i]
        /\ \A i \in 1 .. Len(u) - n : Behind(u, n)[i] = u[n + i]
    BY <1>1, <1>2, SplitL
  <2>. QED  BY <1>1, <2>1, <2>2
<1>4. First(u, n) = s
  BY <1>3, SeqEqual
<1>5. Behind(u, n) = t
  BY <1>3, SeqEqual
<1>. QED  BY <1>4, <1>5 DEF u

LEMMA CancelL ==
  ASSUME NEW S, NEW s \in Seq(S), NEW t \in Seq(S), NEW u \in Seq(S), NEW v \in Seq(S),
         s \o t = u \o v, Len(s) = Len(u)
  PROVE  s = u /\ t = v
<1>1. First(s \o t, Len(s)) = s /\ Behind(s \o t, Len(s)) = t
  BY ConcatSplitL
<1>2. First(u \o v, Len(u)) = u /\ Behind(u \o v, Len(u)) = v
  BY ConcatSplitL
<1>. QED  BY <1>1, <1>2

----------------------------------------------------------------------------
(* Headers and packets. *)

(* Messages that a header can describe. *)
Msgs == {m \in [id : Nat, body : Seq(Byte)] :
           Fits(m.id, HEAD_ID_LEN) /\ Fits(Len(m.body), HEAD_DATA_LEN)}

LEMMA WidthL ==
  /\ HEAD_ID_LEN \in Nat /\ HEAD_DATA_LEN \in Nat /\ HEAD_TOTAL_LEN \in Nat
  /\ HEAD_ID_LEN >= 1 /\ HEAD_DATA_LEN >= 1 /\ HEAD_TOTAL_LEN = HEAD_ID_LEN + HEAD_DATA_LEN
BY WireAssumption DEF HEAD_TOTAL_LEN

LEMMA HeaderBytesType ==
  ASSUME NEW id \in Nat, NEW len \in Nat
  PROVE  /\ HeaderBytes(Header(id, len)) \in Seq(Byte)
         /\ Len(HeaderBytes(Header(id, len))) = HEAD_TOTAL_LEN
<1>1. /\ BigEndian(id, HEAD_ID_LEN) \in Seq(Byte) /\ Len(BigEndian(id, HEAD_ID_LEN)) = HEAD_ID_LEN
      /\ BigEndian(len, HEAD_DATA_LEN) \in Seq(Byte) /\ Len(BigEndian(len, HEAD_DATA_LEN)) = HEAD_DATA_LEN
  BY BigEndianType, WidthL
<1>. QED  BY <1>1, WidthL, ConcatProperties DEF HeaderBytes, Header

(* A header is read as it was written. *)
LEMMA HeaderRead ==
  ASSUME NEW id \in Nat, NEW len \in Nat, Fits(id, HEAD_ID_LEN), Fits(len, HEAD_DATA_LEN)
  PROVE  HeaderOf(HeaderBytes(Header(id, len))) = Header(id, len)
<1>. DEFINE a == BigEndian(id, HEAD_ID_LEN)
            b == BigEndian(len, HEAD_DATA_LEN)
<1>1. /\ a \in Seq(Byte) /\ Len(a) = HEAD_ID_LEN /\ Number(a) = id
      /\ b \in Seq(Byte) /\ Len(b) = HEAD_DATA_LEN /\ Number(b) = len
  BY BigEndianType, ByteOrder, WidthL
<1>2. HeaderBytes(Header(id, len)) = a \o b
  BY DEF HeaderBytes, Header
<1>. HIDE DEF a, b
<1>3. Len(a \o b) = HEAD_TOTAL_LEN
  BY <1>1, WidthL, ConcatProperties
<1>4. First(a \o b, HEAD_ID_LEN) = a /\ SubSeq(a \o b, HEAD_ID_LEN + 1, HEAD_TOTAL_LEN) = b
  BY <1>1, <1>3, ConcatSplitL DEF Behind
<1>. QED  BY <1>1, <1>2, <1>4 DEF HeaderOf

(* Only the first bytes matter. *)
LEMMA HeaderOfFirst ==
  ASSUME NEW b \in Seq(Byte), Len(b) >= HEAD_TOTAL_LEN
  PROVE  HeaderOf(b) = HeaderOf(First(b, HEAD_TOTAL_LEN))
<1>. DEFINE f == First(b, HEAD_TOTAL_LEN)
<1>1. /\ f \in Seq(Byte) /\ Len(f) = HEAD_TOTAL_LEN
      /\ \A i \in 1 .. HEAD_TOTAL_LEN : f[i] = b[i]
  BY SplitL, WidthL, LenProperties
<1>2. HEAD_ID_LEN \in 0 .. Len(b) /\ HEAD_ID_LEN \in 0 .. Len(f)
  BY <1>1, WidthL, LenProperties
<1>. HIDE DEF f
<1>3. First(b, HEAD_ID_LEN) = First(f, HEAD_ID_LEN)
  <2>1. /\ First(b, HEAD_ID_LEN) \in Seq(Byte) /\ Len(First(b, HEAD_ID_LEN)) = HEAD_ID_LEN
        /\ First(f, HEAD_ID_LEN) \in Seq(Byte) /\ Len(First(f, HEAD_ID_LEN)) = HEAD_ID_LEN
        /\ \A i \in 1 .. HEAD_ID_LEN : First(b, HEAD_ID_LEN)[i] = b[i] /\ First(f, HEAD_ID_LEN)[i] = f[i]
    BY <1>1, <1>2, SplitL
  <2>2. ASSUME NEW i \in 1 .. HEAD_ID_LEN PROVE First(b, HEAD_ID_LEN)[i] = First(f, HEAD_ID_LEN)[i]
    <3>1. i \in 1 .. HEAD_TOTAL_LEN
      BY WidthL
    <3>. QED  BY <1>1, <2>1, <3>1
  <2>. QED  BY <2>1, <2>2, SeqEqual
<1>. DEFINE x == SubSeq(b, HEAD_ID_LEN + 1, HEAD_TOTAL_LEN)
            y == SubSeq(f, HEAD_ID_LEN + 1, HEAD_TOTAL_LEN)
<1>4. x = y
  <2>1. \A i \in HEAD_ID_LEN + 1 .. HEAD_TOTAL_LEN : b[i] \in Byte /\ f[i] \in Byte
    BY <1>1, WidthL, ElementOfSeq, LenProperties
  <2>2. /\ x \in Seq(Byte) /\ y \in Seq(Byte) /\ Len(x) = HEAD_DATA_LEN /\ Len(y) = HEAD_DATA_LEN
        /\ \A i \in 1 .. HEAD_DATA_LEN : x[i] = b[HEAD_ID_LEN + i] /\ y[i] = f[HEAD_ID_LEN + i]
    BY <2>1, WidthL, SubSeqProperties
  <2>3. \A i \in 1 .. HEAD_DATA_LEN : x[i] = y[i]
    BY <1>1, <2>2, WidthL
  <2>. QED  BY <2>2, <2>3, SeqEqual
<1>. QED  BY <1>3, <1>4 DEF HeaderOf, f

LEMMA PacketType ==
  ASSUME NEW m \in Msgs
  PROVE  /\ HeaderBytes(HeaderFor(m)) \in Seq(Byte)
         /\ Len(HeaderBytes(HeaderFor(m))) = HEAD_TOTAL_LEN
         /\ HeaderOf(HeaderBytes(HeaderFor(m))) = HeaderFor(m)
         /\ m.body \in Seq(Byte) /\ Len(m.body) \in Nat /\ m.id \in Nat
         /\ Packet(m) = HeaderBytes(HeaderFor(m)) \o m.body
         /\ Packet(m) \in Seq(Byte) /\ Packet(m) # <<>>
         /\ Message(m.id, m.body) = m
<1>1. m.body \in Seq(Byte) /\ Len(m.body) \in Nat /\ m.id \in Nat /\ Message(m.id, m.body) = m
  BY LenProperties DEF Msgs, Message
<1>2. /\ HeaderBytes(HeaderFor(m)) \in Seq(Byte)
      /\ Len(HeaderBytes(HeaderFor(m))) = HEAD_TOTAL_LEN
      /\ HeaderOf(HeaderBytes(HeaderFor(m))) = HeaderFor(m)
  BY <1>1, HeaderBytesType, HeaderRead DEF HeaderFor, Msgs
<1>. DEFINE p == HeaderBytes(HeaderFor(m)) \o m.body
<1>3. p \in Seq(Byte) /\ Len(p) = HEAD_TOTAL_LEN + Len(m.body)
  BY <1>1, <1>2, ConcatProperties
<1>. HIDE DEF p
<1>4. p # <<>>
  <2>1. Len(p) >= 1
    <3>1. HEAD_TOTAL_LEN \in Nat /\ HEAD_TOTAL_LEN >= 1
      BY WidthL
    <3>2. Len(m.body) \in Nat /\ Len(p) = HEAD_TOTAL_LEN + Len(m.body)
      BY <1>1, <1>3
    <3>. QED  BY <3>1, <3>2
  <2>2. Len(<<>>) = 0
    OBVIOUS
  <2>. QED  BY <2>1, <2>2
<1>. QED  BY <1>1, <1>2, <1>3, <1>4 DEF Packet, p

----------------------------------------------------------------------------
(* Streams. *)

(* The bytes b are the packets of the messages ms: upTo[i] is what the     *)
(* first i of them come to.                                                *)
Sums(upTo, ms, n) ==
  /\ upTo \in [0 .. n -> Seq(Byte)]
  /\ upTo[0] = <<>>
  /\ \A i \in 1 .. n : upTo[i] = upTo[i - 1] \o Packet(ms[i])

Carries(b, ms) == \E upTo : Sums(upTo, ms, Len(ms)) /\ upTo[Len(ms)] = b

LEMMA AssocL == \A s, t, u \in Seq(Byte) : (s \o t) \o u = s \o (t \o u)
BY ConcatAssociative

LEMMA NoSums == \A ms : Sums([i \in 0 .. 0 |-> <<>>], ms, 0)
BY EmptySeq DEF Sums

LEMMA SumsNext ==
  ASSUME NEW ms, NEW n \in Nat, NEW f, Sums(f, ms, n), Packet(ms[n + 1]) \in Seq(Byte)
  PROVE  \E g : Sums(g, ms, n + 1) /\ g[n + 1] = f[n] \o Packet(ms[n + 1])
<1>. DEFINE t == f[n] \o Packet(ms[n + 1])
            g == [i \in 0 .. n + 1 |-> IF i = n + 1 THEN t ELSE f[i]]
<1>1. t \in Seq(Byte)
  BY ConcatProperties DEF Sums
<1>. HIDE DEF t
<1>2. g \in [0 .. n + 1 -> Seq(Byte)] /\ g[0] = <<>> /\ g[n + 1] = t
  BY <1>1 DEF Sums
<1>3. ASSUME NEW i \in 1 .. n + 1 PROVE g[i] = g[i - 1] \o Packet(ms[i])
  <2>1. CASE i = n + 1
    <3>1. g[i] = t /\ g[i - 1] = f[n] /\ ms[i] = ms[n + 1]
      BY <2>1
    <3>. QED  BY <3>1 DEF t
  <2>2. CASE i # n + 1
    <3>1. i \in 1 .. n
      BY <2>2
    <3>2. g[i] = f[i] /\ g[i - 1] = f[i - 1]
      BY <3>1
    <3>. QED  BY <3>1, <3>2 DEF Sums
  <2>. QED  BY <2>1, <2>2
<1>. HIDE DEF g
<1>4. Sums(g, ms, n + 1)
  BY <1>2, <1>3 DEF Sums
<1>. QED  BY <1>2, <1>4 DEF t

LEMMA CarriesNothing == \A ms : Len(ms) = 0 => Carries(<<>>, ms)
<1>. SUFFICES ASSUME NEW ms, Len(ms) = 0 PROVE Carries(<<>>, ms)
  OBVIOUS
<1>. DEFINE f == [i \in 0 .. 0 |-> <<>>]
<1>1. Sums(f, ms, 0) /\ f[0] = <<>>
  BY NoSums
<1>. QED  BY <1>1 DEF Carries

LEMMA CarriesType ==
  ASSUME NEW ms \in Seq(Msgs), NEW b, Carries(b, ms)
  PROVE  b \in Seq(Byte) /\ (ms = <<>> => b = <<>>)
<1>1. Len(ms) \in Nat /\ (ms = <<>> => Len(ms) = 0)
  BY LenProperties
<1>. QED  BY <1>1 DEF Carries, Sums

(* One more packet at the end. *)
LEMMA CarriesAppend ==
  ASSUME NEW ms \in Seq(Msgs), NEW b, Carries(b, ms), NEW m \in Msgs
  PROVE  Carries(b \o Packet(m), Append(ms, m))
<1>. DEFINE n  == Len(ms)
            ns == Append(ms, m)
<1>1. PICK f : Sums(f, ms, n) /\ f[n] = b
  BY DEF Carries
<1>2. n \in Nat /\ Len(ns) = n + 1 /\ ns[n + 1] = m /\ \A i \in 1 .. n : ns[i] = ms[i]
  BY AppendProperties, LenProperties
<1>. HIDE DEF ns, n
<1>3. Sums(f, ns, n)
  BY <1>1, <1>2 DEF Sums
<1>4. Packet(m) \in Seq(Byte)
  BY PacketType
<1>5. PICK g : Sums(g, ns, n + 1) /\ g[n + 1] = f[n] \o Packet(m)
  BY <1>2, <1>3, <1>4, SumsNext
<1>. QED  BY <1>1, <1>2, <1>5 DEF Carries, ns

(* The first packet, and the rest. *)
LEMMA CarriesHead ==
  ASSUME NEW ms \in Seq(Msgs), ms # <<>>, NEW b, Carries(b, ms)
  PROVE  /\ ms[1] \in Msgs /\ Tail(ms) \in Seq(Msgs)
         /\ \E t \in Seq(Byte) : b = Packet(ms[1]) \o t /\ Carries(t, Tail(ms))
<1>. DEFINE n  == Len(ms)
            ns == Tail(ms)
            p  == Packet(ms[1])
<1>1. PICK f : Sums(f, ms, n) /\ f[n] = b
  BY DEF Carries
<1>2. /\ n \in Nat /\ n >= 1 /\ ns \in Seq(Msgs) /\ Len(ns) = n - 1
      /\ \A i \in 1 .. n - 1 : ns[i] = ms[i + 1]
      /\ \A i \in 1 .. n : ms[i] \in Msgs
  BY HeadTailProperties, EmptySeq, LenProperties, ElementOfSeq
<1>3. ASSUME NEW i \in 1 .. n PROVE Packet(ms[i]) \in Seq(Byte)
  <2>1. ms[i] \in Msgs
    BY <1>2
  <2>. QED  BY <2>1, PacketType
<1>4. p \in Seq(Byte) /\ ms[1] \in Msgs
  BY <1>2, <1>3
<1>. HIDE DEF ns, p, n
<1>. DEFINE Good == {k \in Nat : k < n => \E g : Sums(g, ns, k) /\ f[k + 1] = p \o g[k]}
<1>5. 0 \in Good
  <2>1. f[1] = f[0] \o Packet(ms[1]) /\ f[0] = <<>>
    <3>1. 1 \in 1 .. n /\ 1 - 1 = 0
      BY <1>2
    <3>2. \A i \in 1 .. n : f[i] = f[i - 1] \o Packet(ms[i])
      BY <1>1 DEF Sums
    <3>3. f[1] = f[1 - 1] \o Packet(ms[1])
      BY <3>1, <3>2
    <3>. QED  BY <1>1, <3>1, <3>3 DEF Sums
  <2>2. f[1] = p \o <<>>
    BY <1>4, <2>1, ConcatEmptySeq DEF p
  <2>. DEFINE g == [i \in 0 .. 0 |-> <<>>]
  <2>3. Sums(g, ns, 0) /\ g[0] = <<>>
    BY NoSums
  <2>. HIDE DEF g
  <2>4. Sums(g, ns, 0) /\ f[0 + 1] = p \o g[0]
    BY <2>2, <2>3
  <2>. QED  BY <2>4
<1>6. ASSUME NEW k \in Nat, k \in Good PROVE k + 1 \in Good
  <2>. SUFFICES ASSUME k + 1 < n PROVE \E g : Sums(g, ns, k + 1) /\ f[(k + 1) + 1] = p \o g[k + 1]
    OBVIOUS
  <2>1. k < n
    BY <1>2
  <2>2. PICK g : Sums(g, ns, k) /\ f[k + 1] = p \o g[k]
    BY <1>6, <2>1
  <2>3. k + 1 \in 1 .. n - 1 /\ (k + 1) + 1 \in 1 .. n /\ ((k + 1) + 1) - 1 = k + 1
    BY <1>2
  <2>4. ns[k + 1] = ms[(k + 1) + 1]
    BY <1>2, <2>3
  <2>. DEFINE q == Packet(ns[k + 1])
  <2>5. q \in Seq(Byte) /\ g[k] \in Seq(Byte)
    BY <1>3, <2>2, <2>3, <2>4 DEF Sums
  <2>6. PICK h : Sums(h, ns, k + 1) /\ h[k + 1] = g[k] \o q
    BY <2>2, <2>5, SumsNext
  <2>7. f[(k + 1) + 1] = f[k + 1] \o q
    BY <1>1, <2>3, <2>4 DEF Sums
  <2>. HIDE DEF q
  <2>8. (p \o g[k]) \o q = p \o (g[k] \o q)
    BY <1>4, <2>5, AssocL
  <2>9. f[(k + 1) + 1] = p \o h[k + 1]
    BY <2>2, <2>6, <2>7, <2>8
  <2>. QED  BY <2>6, <2>9
<1>7. PICK g : Sums(g, ns, n - 1) /\ f[(n - 1) + 1] = p \o g[n - 1]
  <2>1. n - 1 \in Nat /\ n - 1 < n
    BY <1>2
  <2>2. n - 1 \in Good
    <3>. HIDE DEF Good
    <3>. QED  BY <1>5, <1>6, <2>1, SetInduction
  <2>. QED  BY <2>1, <2>2
<1>8. b = p \o g[n - 1]
  <2>1. (n - 1) + 1 = n
    BY <1>2
  <2>. QED  BY <1>1, <1>7, <2>1
<1>9. Carries(g[n - 1], ns)
  BY <1>2, <1>7 DEF Carries
<1>10. g[n - 1] \in Seq(Byte)
  BY <1>2, <1>9, CarriesType
<1>. QED  BY <1>2, <1>4, <1>8, <1>9, <1>10 DEF ns, p

----------------------------------------------------------------------------
(* A receiver, on either side. *)

Begun(h) == IF h = NoHead THEN <<>> ELSE HeaderBytes(h)

(* A receiver with the header h, or none, has the messages ms before it in *)
(* the bytes b.                                                            *)
Expects(h, b, ms) ==
  /\ Carries(Begun(h) \o b, ms)
  /\ h # NoHead => ms # <<>> /\ h = HeaderFor(ms[1])

LEMMA IdleExpects ==
  ASSUME NEW b \in Seq(Byte), NEW ms
  PROVE  Expects(NoHead, b, ms) <=> Carries(b, ms)
BY ConcatEmptySeq DEF Expects, Begun

(* One more packet is on its way. *)
LEMMA ExpectsMore ==
  ASSUME NEW ms \in Seq(Msgs), NEW b \in Seq(Byte), NEW h, Expects(h, b, ms), NEW m \in Msgs
  PROVE  Expects(h, b \o Packet(m), Append(ms, m))
<1>. DEFINE p == Packet(m)
<1>1. p \in Seq(Byte)
  BY PacketType
<1>. HIDE DEF p
<1>2. Begun(h) \in Seq(Byte)
  <2>1. CASE h = NoHead
    BY <2>1, EmptySeq DEF Begun
  <2>2. CASE h # NoHead
    <3>1. ms # <<>> /\ h = HeaderFor(ms[1])
      BY <2>2 DEF Expects
    <3>2. ms[1] \in Msgs
      BY <3>1, CarriesHead DEF Expects
    <3>. QED  BY <2>2, <3>1, <3>2, PacketType DEF Begun
  <2>. QED  BY <2>1, <2>2
<1>3. Carries((Begun(h) \o b) \o p, Append(ms, m))
  BY CarriesAppend DEF Expects, p
<1>4. (Begun(h) \o b) \o p = Begun(h) \o (b \o p)
  BY <1>1, <1>2, AssocL
<1>5. ms # <<>> => Append(ms, m) # <<>> /\ Append(ms, m)[1] = ms[1]
  BY AppendProperties, EmptySeq, LenProperties
<1>. QED  BY <1>3, <1>4, <1>5 DEF Expects, p

(* A whole header has arrived. *)
LEMMA HeadArrives ==
  ASSUME NEW ms \in Seq(Msgs), NEW b \in Seq(Byte), NEW t \in Seq(Byte),
         Expects(NoHead, b \o t, ms), Len(b) >= HEAD_TOTAL_LEN
  PROVE  /\ ms # <<>> /\ ms[1] \in Msgs
         /\ HeaderOf(b) = HeaderFor(ms[1])
         /\ Behind(b, HEAD_TOTAL_LEN) \in Seq(Byte)
         /\ HeaderFor(ms[1]) # NoHead =>
              Expects(HeaderFor(ms[1]), Behind(b, HEAD_TOTAL_LEN) \o t, ms)
<1>. DEFINE F == First(b, HEAD_TOTAL_LEN)
            B == Behind(b, HEAD_TOTAL_LEN)
            H == HeaderBytes(HeaderFor(ms[1]))
<1>1. b \o t \in Seq(Byte) /\ Carries(b \o t, ms)
  BY ConcatProperties, IdleExpects
<1>2. /\ F \in Seq(Byte) /\ Len(F) = HEAD_TOTAL_LEN /\ B \in Seq(Byte) /\ F \o B = b
  <2>1. HEAD_TOTAL_LEN \in 0 .. Len(b)
    BY WidthL, LenProperties
  <2>. QED  BY <2>1, SplitL
<1>3. b # <<>>
  <2>1. Len(b) >= 1
    BY WidthL, LenProperties
  <2>2. Len(<<>>) = 0
    OBVIOUS
  <2>. QED  BY <2>1, <2>2
<1>4. ms # <<>>
  BY <1>1, <1>3, CarriesType, ConcatEqualIffEmpty, ZenonT(60)
<1>5. PICK u \in Seq(Byte) : b \o t = Packet(ms[1]) \o u /\ Carries(u, Tail(ms))
  BY <1>1, <1>4, CarriesHead
<1>6. ms[1] \in Msgs
  BY <1>1, <1>4, CarriesHead
<1>. DEFINE y == ms[1].body
<1>7. /\ H \in Seq(Byte) /\ Len(H) = HEAD_TOTAL_LEN /\ HeaderOf(H) = HeaderFor(ms[1])
      /\ y \in Seq(Byte) /\ Packet(ms[1]) = H \o y
  BY <1>6, PacketType
<1>8. HeaderOf(b) = HeaderOf(F)
  BY HeaderOfFirst
<1>. HIDE DEF F, B, H, y
<1>9. b \o t = F \o (B \o t)
  <2>1. F \in Seq(Byte) /\ B \in Seq(Byte)
    BY <1>2
  <2>2. (F \o B) \o t = F \o (B \o t)
    BY <2>1, AssocL, ZenonT(60)
  <2>. QED  BY <1>2, <2>2
<1>10. b \o t = H \o (y \o u)
  <2>1. (H \o y) \o u = H \o (y \o u)
    BY <1>5, <1>7, AssocL
  <2>. QED  BY <1>5, <1>7, <2>1
<1>11. B \o t \in Seq(Byte) /\ y \o u \in Seq(Byte)
  BY <1>2, <1>7, ConcatProperties
<1>12. F = H
  <2>1. F \o (B \o t) = H \o (y \o u) /\ Len(F) = Len(H)
    BY <1>2, <1>7, <1>9, <1>10
  <2>. QED  BY <1>2, <1>7, <1>11, <2>1, CancelL
<1>13. HeaderOf(b) = HeaderFor(ms[1])
  BY <1>7, <1>8, <1>12
<1>14. ASSUME HeaderFor(ms[1]) # NoHead PROVE Expects(HeaderFor(ms[1]), B \o t, ms)
  <2>1. Begun(HeaderFor(ms[1])) = H
    BY <1>14 DEF Begun, H
  <2>2. Carries(H \o (B \o t), ms)
    BY <1>1, <1>9, <1>12
  <2>. QED  BY <1>4, <2>1, <2>2 DEF Expects
<1>. QED  BY <1>2, <1>4, <1>6, <1>13, <1>14 DEF B

(* A whole body has arrived. *)
LEMMA BodyArrives ==
  ASSUME NEW ms \in Seq(Msgs), NEW b \in Seq(Byte), NEW t \in Seq(Byte), NEW h,
         h # NoHead, Expects(h, b \o t, ms), Len(b) >= h.len
  PROVE  /\ ms # <<>> /\ ms[1] \in Msgs /\ Tail(ms) \in Seq(Msgs)
         /\ Message(h.id, First(b, h.len)) = ms[1]
         /\ h.len \in 0 .. Len(b) /\ Behind(b, h.len) \in Seq(Byte)
         /\ Expects(NoHead, Behind(b, h.len) \o t, Tail(ms))
<1>. DEFINE F == First(b, h.len)
            B == Behind(b, h.len)
            H == HeaderBytes(h)
            y == ms[1].body
<1>1. ms # <<>> /\ h = HeaderFor(ms[1]) /\ Carries(H \o (b \o t), ms)
  BY DEF Expects, Begun
<1>2. PICK u \in Seq(Byte) : H \o (b \o t) = Packet(ms[1]) \o u /\ Carries(u, Tail(ms))
  BY <1>1, CarriesHead
<1>3. ms[1] \in Msgs /\ Tail(ms) \in Seq(Msgs)
  BY <1>1, CarriesHead
<1>4. /\ H \in Seq(Byte) /\ y \in Seq(Byte) /\ Packet(ms[1]) = H \o y
      /\ Len(y) \in Nat /\ h.len = Len(y) /\ h.id = ms[1].id /\ Message(h.id, y) = ms[1]
  BY <1>1, <1>3, PacketType DEF HeaderFor, Header
<1>5. h.len \in 0 .. Len(b)
  BY <1>4, LenProperties
<1>6. /\ F \in Seq(Byte) /\ Len(F) = h.len /\ B \in Seq(Byte) /\ F \o B = b
  BY <1>5, SplitL
<1>. HIDE DEF F, B, H, y
<1>7. b \o t \in Seq(Byte) /\ B \o t \in Seq(Byte) /\ y \o u \in Seq(Byte)
  BY <1>4, <1>6, ConcatProperties
<1>8. H \o (b \o t) = H \o (y \o u)
  <2>1. (H \o y) \o u = H \o (y \o u)
    BY <1>2, <1>4, AssocL
  <2>. QED  BY <1>2, <1>4, <2>1
<1>9. b \o t = y \o u
  BY <1>4, <1>7, <1>8, CancelL
<1>10. b \o t = F \o (B \o t)
  <2>1. F \in Seq(Byte) /\ B \in Seq(Byte)
    BY <1>6
  <2>2. (F \o B) \o t = F \o (B \o t)
    BY <2>1, AssocL, ZenonT(60)
  <2>. QED  BY <1>6, <2>2
<1>11. F = y /\ B \o t = u
  <2>1. F \o (B \o t) = y \o u /\ Len(F) = Len(y)
    BY <1>4, <1>6, <1>9, <1>10
  <2>. QED  BY <1>2, <1>4, <1>6, <1>7, <2>1, CancelL
<1>12. Expects(NoHead, B \o t, Tail(ms))
  BY <1>2, <1>7, <1>11, IdleExpects
<1>. QED  BY <1>1, <1>3, <1>4, <1>5, <1>6, <1>11, <1>12 DEF F, B, y

----------------------------------------------------------------------------
(* Prefixes and what is behind them. *)

LEMMA PrefixL ==
  ASSUME NEW S, NEW T, NEW s \in Seq(S), NEW t \in Seq(T)
  PROVE  IsPrefix(s, t) <=> Len(s) <= Len(t) /\ \A i \in 1 .. Len(s) : s[i] = t[i]
<1>1. Len(s) \in Nat /\ Len(t) \in Nat
  BY LenProperties
<1>2. SubSeq(s, 1, Len(s)) = s
  BY SubSeqFull
<1>. SUFFICES ASSUME Len(s) <= Len(t)
              PROVE  s = First(t, Len(s)) <=> \A i \in 1 .. Len(s) : s[i] = t[i]
  BY <1>2 DEF IsPrefix, First
<1>. DEFINE f == First(t, Len(s))
<1>3. /\ f \in Seq(T) /\ Len(f) = Len(s) /\ \A i \in 1 .. Len(s) : f[i] = t[i]
  BY <1>1, SplitL
<1>. HIDE DEF f
<1>4. ASSUME \A i \in 1 .. Len(s) : s[i] = t[i] PROVE s = f
  <2>1. s \in Seq(S \cup T) /\ f \in Seq(S \cup T)
    BY <1>3, SeqMonotonic
  <2>2. \A i \in 1 .. Len(s) : s[i] = f[i]
    BY <1>3, <1>4
  <2>. QED  BY <1>3, <2>1, <2>2, SeqEqual
<1>. QED  BY <1>3, <1>4 DEF f

LEMMA BehindAppend ==
  ASSUME NEW S, NEW s \in Seq(S), NEW m \in S, NEW k \in 0 .. Len(s)
  PROVE  Behind(Append(s, m), k) = Append(Behind(s, k), m)
<1>. DEFINE a == Append(s, m)
            x == Behind(a, k)
            b == Behind(s, k)
            y == Append(b, m)
<1>1. /\ Len(s) \in Nat /\ a \in Seq(S) /\ Len(a) = Len(s) + 1 /\ a[Len(s) + 1] = m
      /\ \A i \in 1 .. Len(s) : a[i] = s[i]
  BY AppendProperties, LenProperties
<1>2. /\ b \in Seq(S) /\ Len(b) = Len(s) - k /\ \A i \in 1 .. Len(s) - k : b[i] = s[k + i]
  BY SplitL
<1>3. /\ y \in Seq(S) /\ Len(y) = Len(b) + 1 /\ y[Len(b) + 1] = m
      /\ \A i \in 1 .. Len(b) : y[i] = b[i]
  BY <1>2, AppendProperties
<1>. HIDE DEF a
<1>4. k \in 0 .. Len(a)
  BY <1>1
<1>5. /\ x \in Seq(S) /\ Len(x) = Len(a) - k /\ \A i \in 1 .. Len(a) - k : x[i] = a[k + i]
  BY <1>1, <1>4, SplitL
<1>. HIDE DEF x, b, y
<1>6. Len(x) = Len(y)
  BY <1>1, <1>2, <1>3, <1>5
<1>7. ASSUME NEW i \in 1 .. Len(x) PROVE x[i] = y[i]
  <2>1. x[i] = a[k + i]
    BY <1>5
  <2>2. CASE i = Len(b) + 1
    BY <1>1, <1>2, <1>3, <2>1, <2>2
  <2>3. CASE i # Len(b) + 1
    <3>1. i \in 1 .. Len(b) /\ k + i \in 1 .. Len(s)
      BY <1>1, <1>2, <1>5, <2>3
    <3>2. y[i] = b[i] /\ b[i] = s[k + i] /\ a[k + i] = s[k + i]
      BY <1>1, <1>2, <1>3, <3>1
    <3>. QED  BY <2>1, <3>2
  <2>. QED  BY <2>2, <2>3
<1>8. x = y
  BY <1>3, <1>5, <1>6, <1>7, SeqEqual
<1>. QED  BY <1>8 DEF x, y, a, b

LEMMA BehindNext ==
  ASSUME NEW S, NEW s \in Seq(S), NEW k \in 0 .. Len(s), Behind(s, k) # <<>>
  PROVE  /\ k + 1 \in 1 .. Len(s)
         /\ Behind(s, k)[1] = s[k + 1]
         /\ Tail(Behind(s, k)) = Behind(s, k + 1)
<1>. DEFINE b == Behind(s, k)
<1>1. /\ b \in Seq(S) /\ Len(b) = Len(s) - k /\ \A i \in 1 .. Len(s) - k : b[i] = s[k + i]
      /\ Len(s) \in Nat
  BY SplitL, LenProperties
<1>2. /\ Tail(b) \in Seq(S) /\ Len(Tail(b)) = Len(b) - 1
      /\ \A i \in 1 .. Len(Tail(b)) : Tail(b)[i] = b[i + 1]
      /\ Len(b) \in Nat \ {0}
  BY <1>1, HeadTailProperties, EmptySeq
<1>3. k + 1 \in 1 .. Len(s) /\ k + 1 \in 0 .. Len(s)
  BY <1>1, <1>2
<1>. DEFINE c == Behind(s, k + 1)
<1>4. /\ c \in Seq(S) /\ Len(c) = Len(s) - (k + 1)
      /\ \A i \in 1 .. Len(s) - (k + 1) : c[i] = s[(k + 1) + i]
  BY <1>3, SplitL
<1>. HIDE DEF b, c
<1>5. Len(Tail(b)) = Len(c)
  BY <1>1, <1>2, <1>4
<1>6. ASSUME NEW i \in 1 .. Len(Tail(b)) PROVE Tail(b)[i] = c[i]
  <2>1. i + 1 \in 1 .. Len(s) - k /\ i \in 1 .. Len(s) - (k + 1) /\ k + (i + 1) = (k + 1) + i
    BY <1>1, <1>2
  <2>. QED  BY <1>1, <1>2, <1>4, <2>1
<1>7. Tail(b) = c
  BY <1>2, <1>4, <1>5, <1>6, SeqEqual
<1>8. b[1] = s[k + 1]
  BY <1>1, <1>2
<1>. QED  BY <1>3, <1>7, <1>8 DEF b, c

LEMMA BehindBehind ==
  ASSUME NEW S, NEW s \in Seq(S), NEW k \in 0 .. Len(s), NEW j \in 0 .. Len(s) - k
  PROVE  Behind(Behind(s, k), j) = Behind(s, k + j)
<1>. DEFINE b == Behind(s, k)
            x == Behind(b, j)
            y == Behind(s, k + j)
<1>1. /\ b \in Seq(S) /\ Len(b) = Len(s) - k /\ \A i \in 1 .. Len(s) - k : b[i] = s[k + i]
      /\ Len(s) \in Nat
  BY SplitL, LenProperties
<1>2. k + j \in 0 .. Len(s) /\ j \in 0 .. Len(b)
  BY <1>1
<1>. HIDE DEF b
<1>3. /\ x \in Seq(S) /\ Len(x) = Len(b) - j /\ \A i \in 1 .. Len(b) - j : x[i] = b[j + i]
  BY <1>1, <1>2, SplitL
<1>4. /\ y \in Seq(S) /\ Len(y) = Len(s) - (k + j)
      /\ \A i \in 1 .. Len(s) - (k + j) : y[i] = s[(k + j) + i]
  BY <1>2, SplitL
<1>. HIDE DEF x, y
<1>5. Len(x) = Len(y)
  BY <1>1, <1>3, <1>4
<1>6. ASSUME NEW i \in 1 .. Len(x) PROVE x[i] = y[i]
  <2>1. /\ i \in 1 .. Len(b) - j /\ j + i \in 1 .. Len(s) - k
        /\ i \in 1 .. Len(s) - (k + j) /\ k + (j + i) = (k + j) + i
    BY <1>1, <1>3
  <2>2. x[i] = b[j + i] /\ b[j + i] = s[k + (j + i)] /\ y[i] = s[(k + j) + i]
    BY <1>1, <1>3, <1>4, <2>1
  <2>. QED  BY <2>1, <2>2
<1>. QED  BY <1>3, <1>4, <1>5, <1>6, SeqEqual DEF x, y, b

LEMMA BehindAll ==
  ASSUME NEW S, NEW s \in Seq(S)
  PROVE  Behind(s, 0) = s /\ Behind(s, Len(s)) = <<>> /\ First(s, Len(s)) = s
<1>1. Len(s) \in Nat /\ SubSeq(s, 1, Len(s)) = s
  BY LenProperties, SubSeqFull
<1>2. SubSeq(s, Len(s) + 1, Len(s)) = <<>>
  BY <1>1, SubSeqEmpty
<1>. QED  BY <1>1, <1>2 DEF Behind, First

LEMMA FirstNext ==
  ASSUME NEW S, NEW s \in Seq(S), NEW k \in 0 .. Len(s), k < Len(s)
  PROVE  First(s, k + 1) = Append(First(s, k), s[k + 1])
<1>1. Len(s) \in Nat /\ k + 1 \in 0 .. Len(s) /\ k + 1 \in 1 .. Len(s) /\ s[k + 1] \in S
  BY LenProperties, ElementOfSeq
<1>. DEFINE f == First(s, k)
            x == First(s, k + 1)
            y == Append(f, s[k + 1])
<1>2. f \in Seq(S) /\ Len(f) = k /\ \A i \in 1 .. k : f[i] = s[i]
  BY SplitL
<1>3. x \in Seq(S) /\ Len(x) = k + 1 /\ \A i \in 1 .. k + 1 : x[i] = s[i]
  BY <1>1, SplitL
<1>4. y \in Seq(S) /\ Len(y) = k + 1 /\ y[k + 1] = s[k + 1] /\ \A i \in 1 .. k : y[i] = f[i]
  BY <1>1, <1>2, AppendProperties
<1>. HIDE DEF f, x, y
<1>5. ASSUME NEW i \in 1 .. k + 1 PROVE x[i] = y[i]
  <2>1. CASE i = k + 1
    BY <1>3, <1>4, <2>1
  <2>2. CASE i \in 1 .. k
    BY <1>2, <1>3, <1>4, <2>2
  <2>. QED  BY <2>1, <2>2
<1>6. x = y
  BY <1>3, <1>4, <1>5, SeqEqual
<1>. QED  BY <1>6 DEF x, y, f

LEMMA FirstAppend ==
  ASSUME NEW S, NEW s \in Seq(S), NEW m \in S, NEW k \in 0 .. Len(s)
  PROVE  First(Append(s, m), k) = First(s, k)
<1>. DEFINE a == Append(s, m)
            x == First(a, k)
            y == First(s, k)
<1>1. /\ Len(s) \in Nat /\ a \in Seq(S) /\ Len(a) = Len(s) + 1
      /\ \A i \in 1 .. Len(s) : a[i] = s[i]
  BY AppendProperties, LenProperties
<1>. HIDE DEF a
<1>2. k \in 0 .. Len(a)
  BY <1>1
<1>3. x \in Seq(S) /\ Len(x) = k /\ \A i \in 1 .. k : x[i] = a[i]
  BY <1>1, <1>2, SplitL
<1>4. y \in Seq(S) /\ Len(y) = k /\ \A i \in 1 .. k : y[i] = s[i]
  BY SplitL
<1>. HIDE DEF x, y
<1>5. \A i \in 1 .. k : x[i] = y[i]
  BY <1>1, <1>3, <1>4
<1>6. x = y
  BY <1>3, <1>4, <1>5, SeqEqual
<1>. QED  BY <1>6 DEF x, y, a

----------------------------------------------------------------------------
(* The inductive invariant. *)

(* Messages the server handles, and answers. *)
Accepted == {m \in Msgs : m.id \in ReqIds /\ Len(m.body) \in 1 .. MAX_LENGTH}
Answers  == {m \in Msgs : m.id \in RspIds /\ Len(m.body) \in 1 .. MAX_LENGTH}

ClientTypes == /\ opened \in 0 .. MaxConns /\ conn \in {0, opened}
               /\ sent \in [Conns -> Seq(Requests)]
               /\ buffer \in Seq(Byte) /\ pending \in [id : Nat, len : Nat]
               /\ received \in [Conns -> Seq([id : Nat, body : Seq(Byte)])]
NetTypes == /\ toServer \in [Conns -> Seq(Byte)] /\ toClient \in [Conns -> Seq(Byte)]
            /\ open \in [Conns -> BOOLEAN]
ReadTypes == /\ head \in [Conns -> {NoHead} \cup [id : ReqIds, len : 1 .. MAX_LENGTH]]
             /\ data \in [Conns -> Seq(Byte)]
             /\ delivered \in [Conns -> Seq(Accepted)]
WorkerTypes == /\ answered \in [Conns -> Nat]
               /\ replied \in [Conns -> Seq(Nat)]
               /\ sendQue \in [Conns -> Seq(Seq(Byte))]
Types == ClientTypes /\ NetTypes /\ ReadTypes /\ WorkerTypes

(* Nothing has happened on a connection to come, and without a connection  *)
(* the client has forgotten its input.                                     *)
Fresh(c) == /\ ~open[c] /\ head[c] = NoHead
            /\ sent[c] = <<>> /\ toServer[c] = <<>> /\ toClient[c] = <<>> /\ data[c] = <<>>
            /\ delivered[c] = <<>> /\ replied[c] = <<>> /\ sendQue[c] = <<>> /\ received[c] = <<>>
Idle == /\ conn = 0 => buffer = <<>> /\ pending = NoHead
        /\ \A c \in Conns : c > opened => Fresh(c)

(* An open session has before it what of the sent messages it has not      *)
(* delivered yet.                                                          *)
Unhandled(c) == Behind(sent[c], Len(delivered[c]))
ServerSide(c) == /\ IsPrefix(delivered[c], sent[c])
                 /\ open[c] => Expects(head[c], data[c] \o toServer[c], Unhandled(c))

(* The send queue holds the packets of the last answers that Send took.    *)
QueueSide(c) ==
  /\ answered[c] <= Len(delivered[c])
  /\ \A i \in 1 .. Len(replied[c]) : replied[c][i] \in 1 .. answered[c]
  /\ \A i, j \in 1 .. Len(replied[c]) : i < j => replied[c][i] < replied[c][j]
  /\ answered[c] <= MAX_SENDQUE + 1 => Len(replied[c]) = answered[c]
  /\ Len(sendQue[c]) <= Len(replied[c])
  /\ \A i \in 1 .. Len(sendQue[c]) :
       sendQue[c][i] = Packet(Replies(c)[Len(replied[c]) - Len(sendQue[c]) + i])

(* The first of the queue is being written, the others wait. *)
Written(c) == IF sendQue[c] = <<>> THEN Len(replied[c]) ELSE Len(replied[c]) - Len(sendQue[c]) + 1

(* The client has before it those answers of its connection that were      *)
(* written and that it has not received yet.                               *)
Coming(c, w) == Behind(First(Replies(c), w), Len(received[c]))
Incoming(w) == /\ w \in Len(received[conn]) .. Len(replied[conn])
               /\ Expects(pending, buffer \o toClient[conn], Coming(conn, w))
               /\ open[conn] => w = Written(conn)
ClientSide == /\ \A c \in Conns : IsPrefix(received[c], Replies(c))
              /\ conn # 0 => \E w \in Nat : Incoming(w)

WireInv == /\ Types /\ Idle
           /\ \A c \in Conns : ServerSide(c) /\ QueueSide(c)
           /\ ClientSide

LEMMA RequestL == Requests \subseteq Msgs /\ \A id \in ReqIds : id \in Nat
<1>1. ASSUME NEW id \in ReqIds, NEW m \in [id : {id}, body : Bodies[id]] PROVE m \in Msgs
  <2>1. m \in Requests
    BY <1>1 DEF Requests
  <2>2. m.id = id /\ m.body \in Seq(Byte) /\ m \in [id : Nat, body : Seq(Byte)]
    BY WireAssumption
  <2>. QED  BY <2>1, <2>2, WireAssumption DEF Msgs
<1>. QED  BY <1>1, WireAssumption DEF Requests

LEMMA AcceptedL == ASSUME NEW m \in Accepted PROVE m \in Msgs /\ Answer(m) \in Answers
<1>1. m \in Msgs /\ m.id \in ReqIds /\ m.id \in Nat /\ m.body \in Seq(Byte) /\ Len(m.body) \in 1 .. MAX_LENGTH
  BY DEF Accepted, Msgs
<1>. DEFINE b == IF m.id = ID_TEST_MSG_REQ THEN m.body ELSE <<m.id % 256>>
<1>2. b \in Seq(Byte) /\ Len(b) \in 1 .. MAX_LENGTH
  <2>1. m.id % 256 \in Byte
    <3>1. \A n \in Nat : n % 256 \in 0 .. 255
      OBVIOUS
    <3>. QED  BY <1>1, <3>1 DEF Byte
  <2>2. <<m.id % 256>> \in Seq(Byte) /\ Len(<<m.id % 256>>) = 1 /\ 1 \in 1 .. MAX_LENGTH
    BY <2>1, WireAssumption
  <2>. QED  BY <1>1, <2>2
<1>3. m.id + 1 \in RspIds /\ m.id + 1 \in Nat
  BY <1>1 DEF RspIds
<1>. HIDE DEF b
<1>4. Fits(m.id + 1, HEAD_ID_LEN) /\ Fits(Len(b), HEAD_DATA_LEN)
  BY <1>2, <1>3, WireAssumption
<1>5. Message(m.id + 1, b) \in Answers
  BY <1>2, <1>3, <1>4 DEF Message, Answers, Msgs
<1>. QED  BY <1>1, <1>5 DEF Answer, b

LEMMA RepliesL ==
  ASSUME Types, NEW c \in Conns, QueueSide(c)
  PROVE  Replies(c) \in Seq(Answers) /\ Len(Replies(c)) = Len(replied[c])
<1>1. /\ replied[c] \in Seq(Nat) /\ Len(replied[c]) \in Nat /\ DOMAIN replied[c] = 1 .. Len(replied[c])
      /\ delivered[c] \in Seq(Accepted) /\ answered[c] \in Nat /\ Len(delivered[c]) \in Nat
  BY LenProperties DEF Types, WorkerTypes, ReadTypes
<1>2. ASSUME NEW i \in 1 .. Len(replied[c]) PROVE Answer(delivered[c][replied[c][i]]) \in Answers
  <2>1. replied[c][i] \in 1 .. Len(delivered[c])
    BY <1>1 DEF QueueSide
  <2>2. delivered[c][replied[c][i]] \in Accepted
    BY <1>1, <2>1, ElementOfSeq
  <2>. QED  BY <2>2, AcceptedL
<1>. QED  BY <1>1, <1>2 DEF Replies

LEMMA AnswerL == ASSUME NEW m \in Answers PROVE m \in Msgs /\ HeaderFor(m) # NoHead
<1>1. m \in Msgs /\ Len(m.body) # 0
  BY DEF Answers
<1>. QED  BY <1>1 DEF HeaderFor, Header, NoHead

LEMMA EmptyPrefix == IsPrefix(<<>>, <<>>)
<1>1. <<>> \in Seq(Nat)
  OBVIOUS
<1>2. Len(<<>>) = 0
  OBVIOUS
<1>3. ASSUME NEW s \in Seq(Nat), Len(s) = 0 PROVE IsPrefix(s, s)
  <2>1. Len(s) <= Len(s)
    BY <1>3
  <2>2. \A i \in 1 .. Len(s) : s[i] = s[i]
    OBVIOUS
  <2>. QED  BY <2>1, <2>2, PrefixL
<1>. QED  BY <1>1, <1>2, <1>3

LEMMA InitW == Init => WireInv
<1>. SUFFICES ASSUME Init PROVE WireInv
  OBVIOUS
<1>. USE DEF Init, Nothing
<1>1. Types
  <2>1. NoHead \in [id : Nat, len : Nat]
    BY DEF NoHead, Header
  <2>. QED  BY <2>1, EmptySeq, WireAssumption DEF Types, ClientTypes, NetTypes, ReadTypes, WorkerTypes
<1>2. Idle
  BY DEF Idle, Fresh
<1>3. ASSUME NEW c \in Conns PROVE IsPrefix(received[c], Replies(c)) /\ ServerSide(c) /\ QueueSide(c)
  <2>1. QueueSide(c)
    BY <1>3, WireAssumption DEF QueueSide
  <2>2. Replies(c) = <<>>
    BY <1>1, <1>3, <2>1, RepliesL, EmptySeq
  <2>. QED  BY <1>3, <2>1, <2>2, EmptyPrefix DEF ServerSide
<1>. QED  BY <1>1, <1>2, <1>3 DEF WireInv, ClientSide

----------------------------------------------------------------------------
(* What the actions leave as it is. *)

LEMMA PrefixSelf == ASSUME NEW S, NEW s \in Seq(S) PROVE IsPrefix(s, s)
<1>1. Len(s) \in Nat /\ \A i \in 1 .. Len(s) : s[i] = s[i]
  BY LenProperties
<1>2. Len(s) <= Len(s)
  BY <1>1
<1>. QED  BY <1>1, <1>2, PrefixL

LEMMA PrefixAppend ==
  ASSUME NEW S, NEW T, NEW s \in Seq(S), NEW t \in Seq(T), NEW m \in T, IsPrefix(s, t)
  PROVE  IsPrefix(s, Append(t, m))
<1>1. Len(s) \in Nat /\ Len(t) \in Nat /\ Len(s) <= Len(t) /\ \A i \in 1 .. Len(s) : s[i] = t[i]
  BY PrefixL, LenProperties
<1>. DEFINE a == Append(t, m)
<1>2. a \in Seq(T) /\ Len(a) = Len(t) + 1 /\ \A i \in 1 .. Len(t) : a[i] = t[i]
  BY AppendProperties
<1>. HIDE DEF a
<1>3. Len(s) <= Len(a) /\ \A i \in 1 .. Len(s) : s[i] = a[i]
  BY <1>1, <1>2
<1>4. IsPrefix(s, a)
  BY <1>2, <1>3, PrefixL
<1>. QED  BY <1>4 DEF a

LEMMA PrefixNext ==
  ASSUME NEW S, NEW T, NEW s \in Seq(S), NEW t \in Seq(T), NEW m \in S, IsPrefix(s, t),
         Len(s) + 1 \in 1 .. Len(t), t[Len(s) + 1] = m
  PROVE  IsPrefix(Append(s, m), t)
<1>1. Len(s) \in Nat /\ Len(t) \in Nat /\ \A i \in 1 .. Len(s) : s[i] = t[i]
  BY PrefixL, LenProperties
<1>. DEFINE a == Append(s, m)
<1>2. /\ a \in Seq(S) /\ Len(a) = Len(s) + 1 /\ a[Len(s) + 1] = m
      /\ \A i \in 1 .. Len(s) : a[i] = s[i]
  BY AppendProperties
<1>. HIDE DEF a
<1>3. Len(a) <= Len(t) /\ \A i \in 1 .. Len(a) : a[i] = t[i]
  BY <1>1, <1>2
<1>4. IsPrefix(a, t)
  BY <1>2, <1>3, PrefixL
<1>. QED  BY <1>4 DEF a

(* A session that reads nothing, and whose client sends nothing. *)
LEMMA ServerFrame ==
  ASSUME NEW c \in Conns, ServerSide(c), open'[c] => open[c], sent'[c] = sent[c],
         delivered'[c] = delivered[c], head'[c] = head[c], data'[c] = data[c],
         toServer'[c] = toServer[c]
  PROVE  ServerSide(c)'
BY DEF ServerSide, Unhandled

(* A session whose worker and whose writing rest. *)
LEMMA QueueFrame ==
  ASSUME NEW c \in Conns, QueueSide(c), delivered'[c] = delivered[c], answered'[c] = answered[c],
         replied'[c] = replied[c], sendQue'[c] = sendQue[c]
  PROVE  QueueSide(c)' /\ Replies(c)' = Replies(c) /\ Written(c)' = Written(c)
<1>1. Replies(c)' = Replies(c)
  BY DEF Replies
<1>. QED  BY <1>1 DEF QueueSide, Written

LEMMA ClientFrame ==
  ASSUME ClientSide, conn' = conn, pending' = pending, buffer' = buffer, received' = received,
         \A c \in Conns : /\ Replies(c)' = Replies(c) /\ Written(c)' = Written(c)
                          /\ Len(replied[c])' = Len(replied[c])
                          /\ toClient'[c] = toClient[c] /\ (open'[c] => open[c]),
         conn # 0 => conn \in Conns
  PROVE  ClientSide'
<1>1. \A c \in Conns : IsPrefix(received[c], Replies(c))'
  BY DEF ClientSide
<1>2. ASSUME conn # 0, NEW w \in Nat, Incoming(w) PROVE Incoming(w)'
  <2>1. conn \in Conns
    BY <1>2
  <2>2. Coming(conn, w)' = Coming(conn, w)
    BY <2>1 DEF Coming
  <2>3. (w \in Len(received[conn]) .. Len(replied[conn]))' /\ (open[conn] => w = Written(conn))'
    BY <1>2, <2>1 DEF Incoming
  <2>4. Expects(pending, buffer \o toClient[conn], Coming(conn, w))'
    BY <1>2, <2>1, <2>2 DEF Incoming
  <2>. QED  BY <2>3, <2>4 DEF Incoming
<1>. QED  BY <1>1, <1>2 DEF ClientSide

LEMMA IdleFrame ==
  ASSUME Idle, opened' = opened, (conn = 0 => buffer = <<>> /\ pending = NoHead)',
         \A c \in Conns : Fresh(c) /\ c > opened => Fresh(c)'
  PROVE  Idle'
BY DEF Idle

LEMMA ConnL == ASSUME Types, conn # 0 PROVE conn \in Conns /\ conn = opened
<1>1. opened \in 0 .. MaxConns /\ conn = opened /\ MaxConns \in Nat
  BY WireAssumption DEF Types, ClientTypes
<1>. QED  BY <1>1 DEF Conns

LEMMA PutL ==
  ASSUME NEW S, NEW T, NEW f \in [S -> T], NEW c \in S, NEW v \in T
  PROVE  [f EXCEPT ![c] = v] \in [S -> T]
OBVIOUS

----------------------------------------------------------------------------
(* The client sends, connects and hears of the end. *)

LEMMA ConnectW == WireInv /\ Connect => WireInv'
<1>. SUFFICES ASSUME WireInv, Connect PROVE WireInv'
  OBVIOUS
<1>. USE DEF WireInv
<1>1. PICK n \in Conns : n = opened + 1 /\ opened \in Nat /\ n > opened /\ MaxConns \in Nat
  BY WireAssumption DEF Connect, Types, ClientTypes, Conns
<1>2. Fresh(n) /\ buffer = <<>> /\ pending = NoHead
  BY <1>1 DEF Idle, Connect
<1>3. Types'
  <2>1. (opened \in 0 .. MaxConns /\ conn \in {0, opened})'
    BY <1>1, WireAssumption DEF Connect, Types, ClientTypes
  <2>2. open' \in [Conns -> BOOLEAN]
    BY <1>1, PutL DEF Connect, Types, NetTypes
  <2>. QED  BY <2>1, <2>2 DEF Connect, readVars, workerVars, Types, ClientTypes, NetTypes, ReadTypes, WorkerTypes
<1>4. Idle'
  <2>1. ASSUME NEW c \in Conns, c > opened' PROVE Fresh(c)'
    <3>1. c # n /\ c > opened
      BY <1>1, <2>1 DEF Connect, Conns
    <3>2. Fresh(c)
      BY <3>1 DEF Idle
    <3>3. open'[c] = open[c]
      BY <1>1, <3>1 DEF Connect, Types, NetTypes
    <3>. QED  BY <3>2, <3>3 DEF Fresh, Connect, readVars, workerVars
  <2>2. conn' # 0
    BY <1>1 DEF Connect
  <2>. QED  BY <2>1, <2>2 DEF Idle
<1>5. ASSUME NEW c \in Conns
      PROVE  QueueSide(c)' /\ Replies(c)' = Replies(c) /\ Written(c)' = Written(c)
  BY QueueFrame DEF Connect, readVars, workerVars
<1>6. ASSUME NEW c \in Conns PROVE ServerSide(c)'
  <2>1. CASE c = n
    <3>1. /\ sent'[c] = <<>> /\ delivered'[c] = <<>> /\ head'[c] = NoHead
          /\ data'[c] = <<>> /\ toServer'[c] = <<>>
      BY <1>2, <2>1 DEF Fresh, Connect, readVars
    <3>2. Behind(<<>>, Len(<<>>)) = <<>> /\ <<>> \o <<>> = <<>> /\ <<>> \in Seq(Byte)
      BY BehindAll, EmptySeq, ConcatEmptySeq
    <3>3. Carries(<<>>, <<>>)
      BY CarriesNothing, EmptySeq
    <3>4. Expects(NoHead, <<>> \o <<>>, Behind(<<>>, Len(<<>>)))
      BY <3>2, <3>3, IdleExpects
    <3>. QED  BY <3>1, <3>4, EmptyPrefix DEF ServerSide, Unhandled
  <2>2. CASE c # n
    <3>1. open'[c] = open[c]
      BY <1>1, <2>2 DEF Connect, Types, NetTypes
    <3>. QED  BY <3>1, ServerFrame DEF Connect, readVars
  <2>. QED  BY <2>1, <2>2
<1>7. ClientSide'
  <2>1. \A c \in Conns : IsPrefix(received[c], Replies(c))'
    BY <1>5 DEF ClientSide, Connect
  <2>2. Incoming(0)'
    <3>1. /\ received[n] = <<>> /\ replied[n] = <<>> /\ sendQue[n] = <<>> /\ toClient[n] = <<>>
          /\ conn' = n /\ received' = received /\ replied' = replied /\ buffer' = <<>>
          /\ pending' = NoHead /\ toClient' = toClient /\ sendQue' = sendQue
      BY <1>1, <1>2 DEF Fresh, Connect, workerVars
    <3>2. Len(<<>>) = 0 /\ <<>> \o <<>> = <<>> /\ <<>> \in Seq(Byte)
      BY ConcatEmptySeq
    <3>3. Replies(n)' = <<>>
      <4>1. Replies(n) \in Seq(Answers) /\ Len(Replies(n)) = 0
        BY <1>1, <3>1, RepliesL
      <4>. QED  BY <1>1, <1>5, <4>1, EmptySeq
    <3>4. Behind(First(<<>>, 0), 0) = <<>>
      BY DEF Behind, First
    <3>5. Coming(n, 0)' = <<>>
      BY <3>1, <3>2, <3>3, <3>4 DEF Coming
    <3>6. Carries(<<>>, <<>>)
      BY CarriesNothing, <3>2
    <3>7. Expects(NoHead, <<>> \o <<>>, <<>>)
      BY <3>2, <3>6, IdleExpects
    <3>8. Expects(pending, buffer \o toClient[conn], Coming(conn, 0))'
      BY <3>1, <3>5, <3>7
    <3>9. (0 \in Len(received[conn]) .. Len(replied[conn]))' /\ (0 = Written(conn))'
      BY <3>1, <3>2 DEF Written
    <3>. QED  BY <3>8, <3>9 DEF Incoming
  <2>. QED  BY <2>1, <2>2 DEF ClientSide
<1>. QED  BY <1>3, <1>4, <1>5, <1>6, <1>7

LEMMA SendMsgW == ASSUME NEW m \in Requests PROVE WireInv /\ slot_send_msg(m) => WireInv'
<1>. SUFFICES ASSUME WireInv, slot_send_msg(m) PROVE WireInv'
  OBVIOUS
<1>. USE DEF WireInv
<1>1. conn \in Conns /\ conn = opened
  BY ConnL DEF slot_send_msg
<1>2. m \in Msgs /\ Packet(m) \in Seq(Byte)
  BY RequestL, PacketType
<1>3. sent[conn] \in Seq(Requests) /\ toServer[conn] \in Seq(Byte) /\ data[conn] \in Seq(Byte)
  BY <1>1 DEF Types, ClientTypes, NetTypes, ReadTypes
<1>4. /\ sent'[conn] = Append(sent[conn], m) /\ toServer'[conn] = toServer[conn] \o Packet(m)
      /\ \A c \in Conns \ {conn} : sent'[c] = sent[c] /\ toServer'[c] = toServer[c]
  BY <1>1 DEF slot_send_msg, Types, ClientTypes, NetTypes
<1>5. Types'
  <2>1. sent' \in [Conns -> Seq(Requests)]
    BY <1>1, <1>3, PutL, AppendProperties DEF slot_send_msg, Types, ClientTypes
  <2>2. toServer' \in [Conns -> Seq(Byte)]
    BY <1>1, <1>2, <1>3, PutL, ConcatProperties DEF slot_send_msg, Types, NetTypes
  <2>. QED  BY <2>1, <2>2 DEF slot_send_msg, readVars, workerVars, Types, ClientTypes, NetTypes, ReadTypes, WorkerTypes
<1>6. Idle'
  <2>1. ASSUME NEW c \in Conns, c > opened PROVE c # conn
    BY <1>1, <2>1 DEF Conns
  <2>2. \A c \in Conns : Fresh(c) /\ c > opened => Fresh(c)'
    BY <1>4, <2>1 DEF Fresh, slot_send_msg, readVars, workerVars
  <2>. QED  BY <2>2, IdleFrame DEF slot_send_msg, Idle
<1>7. ASSUME NEW c \in Conns
      PROVE  QueueSide(c)' /\ Replies(c)' = Replies(c) /\ Written(c)' = Written(c)
  BY QueueFrame DEF slot_send_msg, readVars, workerVars
<1>8. ASSUME NEW c \in Conns PROVE ServerSide(c)'
  <2>1. CASE c = conn
    <3>. DEFINE u == Unhandled(c)
                b == data[c] \o toServer[c]
    <3>1. /\ delivered[c] \in Seq(Accepted) /\ sent[c] \in Seq(Msgs)
          /\ Len(delivered[c]) \in 0 .. Len(sent[c])
      <4>1. delivered[c] \in Seq(Accepted) /\ IsPrefix(delivered[c], sent[c])
        BY DEF Types, ReadTypes, ServerSide
      <4>2. Len(delivered[c]) \in Nat /\ Len(sent[c]) \in Nat /\ Len(delivered[c]) <= Len(sent[c])
        BY <1>3, <2>1, <4>1, PrefixL, LenProperties
      <4>. QED  BY <1>3, <2>1, <4>1, <4>2, RequestL, SeqMonotonic
    <3>2. u \in Seq(Msgs) /\ b \in Seq(Byte)
      BY <1>3, <2>1, <3>1, SplitL, ConcatProperties DEF Unhandled
    <3>3. Unhandled(c)' = Append(u, m)
      <4>1. Behind(Append(sent[c], m), Len(delivered[c])) = Append(u, m)
        BY <1>2, <3>1, BehindAppend DEF Unhandled
      <4>. QED  BY <1>4, <2>1, <4>1 DEF Unhandled, slot_send_msg, readVars
    <3>4. (data[c] \o toServer[c])' = b \o Packet(m)
      <4>1. b \o Packet(m) = data[c] \o (toServer[c] \o Packet(m))
        BY <1>2, <1>3, <2>1, AssocL
      <4>. QED  BY <1>4, <2>1, <4>1 DEF slot_send_msg, readVars
    <3>5. IsPrefix(delivered[c], sent[c])'
      <4>1. IsPrefix(delivered[c], Append(sent[c], m))
        BY <1>2, <3>1, PrefixAppend DEF ServerSide
      <4>. QED  BY <1>4, <2>1, <4>1 DEF slot_send_msg, readVars
    <3>6. ASSUME open'[c] PROVE Expects(head[c], data[c] \o toServer[c], Unhandled(c))'
      <4>1. Expects(head[c], b, u)
        BY <3>6 DEF ServerSide, slot_send_msg
      <4>. HIDE DEF u, b
      <4>2. Expects(head[c], b \o Packet(m), Append(u, m))
        BY <1>2, <3>2, <4>1, ExpectsMore
      <4>3. head'[c] = head[c]
        BY DEF slot_send_msg, readVars
      <4>. QED  BY <3>3, <3>4, <4>2, <4>3
    <3>. QED  BY <3>5, <3>6 DEF ServerSide
  <2>2. CASE c # conn
    BY <1>4, <2>2, ServerFrame DEF slot_send_msg, readVars
  <2>. QED  BY <2>1, <2>2
<1>9. ClientSide'
  BY <1>1, <1>7, ClientFrame DEF slot_send_msg, workerVars
<1>. QED  BY <1>5, <1>6, <1>7, <1>8, <1>9

LEMMA DisconnectedW == WireInv /\ disconnected => WireInv'
<1>. SUFFICES ASSUME WireInv, disconnected PROVE WireInv'
  OBVIOUS
<1>. USE DEF WireInv, disconnected, ForgetInput, readVars, workerVars
<1>1. Types'
  <2>1. NoHead \in [id : Nat, len : Nat] /\ <<>> \in Seq(Byte)
    BY DEF NoHead, Header
  <2>. QED  BY <2>1 DEF Types, ClientTypes, NetTypes, ReadTypes, WorkerTypes
<1>2. Idle'
  <2>1. \A c \in Conns : Fresh(c) => Fresh(c)'
    BY DEF Fresh
  <2>. QED  BY <2>1, IdleFrame
<1>3. ASSUME NEW c \in Conns
      PROVE  QueueSide(c)' /\ Replies(c)' = Replies(c) /\ ServerSide(c)'
  BY QueueFrame, ServerFrame
<1>4. ClientSide'
  BY <1>3 DEF ClientSide
<1>. QED  BY <1>1, <1>2, <1>3, <1>4

----------------------------------------------------------------------------
(* The session reads. *)

LEMMA ReadsL ==
  ASSUME Types, NEW c \in Conns, NEW k \in 1 .. Len(toServer[c]), Reads(c, k)
  PROVE  /\ data[c] \o First(toServer[c], k) \in Seq(Byte)
         /\ Len(data[c] \o First(toServer[c], k)) = Len(data[c]) + k
         /\ toServer'[c] = Behind(toServer[c], k) /\ toServer'[c] \in Seq(Byte)
         /\ (data[c] \o First(toServer[c], k)) \o toServer'[c] = data[c] \o toServer[c]
         /\ toServer' \in [Conns -> Seq(Byte)]
         /\ \A d \in Conns \ {c} : toServer'[d] = toServer[d]
         /\ c \in 1 .. opened \/ ~Fresh(c)
<1>. DEFINE f == First(toServer[c], k)
            r == Behind(toServer[c], k)
<1>1. data[c] \in Seq(Byte) /\ toServer[c] \in Seq(Byte) /\ k \in 0 .. Len(toServer[c]) /\ Len(data[c]) \in Nat
  BY LenProperties DEF Types, ReadTypes, NetTypes
<1>2. f \in Seq(Byte) /\ Len(f) = k /\ r \in Seq(Byte) /\ f \o r = toServer[c]
  BY <1>1, SplitL
<1>3. toServer' = [toServer EXCEPT ![c] = r] /\ toServer \in [Conns -> Seq(Byte)] /\ open[c]
  BY DEF Reads, Types, NetTypes
<1>. HIDE DEF f, r
<1>4. (data[c] \o f) \o r = data[c] \o toServer[c]
  <2>1. (data[c] \o f) \o r = data[c] \o (f \o r)
    BY <1>1, <1>2, AssocL
  <2>. QED  BY <1>2, <2>1
<1>5. data[c] \o f \in Seq(Byte) /\ Len(data[c] \o f) = Len(data[c]) + k
  BY <1>1, <1>2, ConcatProperties
<1>6. toServer'[c] = r /\ toServer' \in [Conns -> Seq(Byte)]
  BY <1>2, <1>3, PutL
<1>7. \A d \in Conns \ {c} : toServer'[d] = toServer[d]
  BY <1>3
<1>8. ~Fresh(c)
  BY <1>3 DEF Fresh
<1>. QED  BY <1>2, <1>4, <1>5, <1>6, <1>7, <1>8 DEF f, r

(* An open session: c is no connection to come, and what it has delivered  *)
(* is a prefix of what was sent.                                           *)
LEMMA OpenL ==
  ASSUME WireInv, NEW c \in Conns, open[c]
  PROVE  /\ ~Fresh(c)
         /\ sent[c] \in Seq(Requests) /\ sent[c] \in Seq(Msgs)
         /\ delivered[c] \in Seq(Accepted) /\ Len(delivered[c]) \in 0 .. Len(sent[c])
         /\ Unhandled(c) \in Seq(Msgs)
         /\ IsPrefix(delivered[c], sent[c])
         /\ Expects(head[c], data[c] \o toServer[c], Unhandled(c))
<1>1. sent[c] \in Seq(Requests) /\ delivered[c] \in Seq(Accepted) /\ IsPrefix(delivered[c], sent[c])
  BY DEF WireInv, Types, ClientTypes, ReadTypes, ServerSide
<1>2. sent[c] \in Seq(Msgs)
  BY <1>1, RequestL, SeqMonotonic
<1>3. Len(delivered[c]) \in 0 .. Len(sent[c])
  <2>1. Len(delivered[c]) \in Nat /\ Len(sent[c]) \in Nat /\ Len(delivered[c]) <= Len(sent[c])
    BY <1>1, PrefixL, LenProperties
  <2>. QED  BY <2>1
<1>4. Unhandled(c) \in Seq(Msgs)
  BY <1>2, <1>3, SplitL DEF Unhandled
<1>. QED  BY <1>1, <1>2, <1>3, <1>4 DEF WireInv, ServerSide, Fresh

(* A step of one session that leaves the queues and the client alone. *)
LEMMA SessionFrame ==
  ASSUME WireInv, NEW c \in Conns, ~Fresh(c), UNCHANGED clientVars, UNCHANGED <<toClient, workerVars, sendQue>>,
         \A d \in Conns \ {c} : /\ toServer'[d] = toServer[d] /\ data'[d] = data[d] /\ head'[d] = head[d]
                                /\ delivered'[d] = delivered[d] /\ open'[d] = open[d],
         open'[c] => open[c], Types', ServerSide(c)', QueueSide(c)', Replies(c)' = Replies(c)
  PROVE  WireInv'
<1>. USE DEF clientVars, workerVars
<1>1. Idle'
  <2>1. \A d \in Conns : Fresh(d) => Fresh(d)'
    BY DEF Fresh
  <2>. QED  BY <2>1, IdleFrame DEF WireInv, Idle
<1>2. ASSUME NEW d \in Conns PROVE ServerSide(d)'
  BY ServerFrame DEF WireInv
<1>3. ASSUME NEW d \in Conns PROVE QueueSide(d)' /\ Replies(d)' = Replies(d) /\ Written(d)' = Written(d)
  <2>1. CASE d = c
    BY <2>1 DEF Written
  <2>2. CASE d # c
    BY <2>2, QueueFrame DEF WireInv
  <2>. QED  BY <2>1, <2>2
<1>4. ClientSide'
  <2>1. conn # 0 => conn \in Conns
    BY ConnL DEF WireInv
  <2>2. \A d \in Conns : open'[d] => open[d]
    OBVIOUS
  <2>3. ClientSide
    BY DEF WireInv
  <2>. QED  BY <1>3, <2>1, <2>2, <2>3, ClientFrame
<1>. QED  BY <1>1, <1>2, <1>3, <1>4 DEF WireInv

LEMMA AsyncReadLenW ==
  ASSUME NEW c \in Conns, NEW k \in 1 .. Len(toServer[c])
  PROVE  WireInv /\ asyncReadLen(c, k) => WireInv'
<1>. SUFFICES ASSUME WireInv, asyncReadLen(c, k) PROVE WireInv'
  OBVIOUS
<1>1. Types /\ Reads(c, k) /\ open[c]
  BY DEF WireInv, asyncReadLen, Reads
<1>. DEFINE d == data[c] \o First(toServer[c], k)
<1>2. /\ d \in Seq(Byte) /\ d \o toServer'[c] = data[c] \o toServer[c]
      /\ toServer' \in [Conns -> Seq(Byte)] /\ \A x \in Conns \ {c} : toServer'[x] = toServer[x]
  BY <1>1, ReadsL
<1>3. data' = [data EXCEPT ![c] = d] /\ data \in [Conns -> Seq(Byte)]
  BY DEF asyncReadLen, WireInv, Types, ReadTypes
<1>. HIDE DEF d
<1>4. data' \in [Conns -> Seq(Byte)] /\ data'[c] = d /\ \A x \in Conns \ {c} : data'[x] = data[x]
  BY <1>2, <1>3
<1>5. Types'
  BY <1>1, <1>2, <1>4 DEF asyncReadLen, clientVars, workerVars, Types, ClientTypes, NetTypes, ReadTypes, WorkerTypes
<1>6. ServerSide(c)'
  BY <1>1, <1>2, <1>4, OpenL DEF asyncReadLen, clientVars, ServerSide, Unhandled
<1>7. QueueSide(c)' /\ Replies(c)' = Replies(c)
  BY QueueFrame DEF asyncReadLen, workerVars, WireInv
<1>. QED  BY <1>1, <1>2, <1>4, <1>5, <1>6, <1>7, OpenL, SessionFrame DEF asyncReadLen

LEMMA ReadHeadW ==
  ASSUME NEW c \in Conns, NEW k \in 1 .. Len(toServer[c])
  PROVE  WireInv /\ ReadHead(c, k) => WireInv'
<1>. SUFFICES ASSUME WireInv, ReadHead(c, k) PROVE WireInv'
  OBVIOUS
<1>. DEFINE d == data[c] \o First(toServer[c], k)
            h == HeaderOf(d)
            t == toServer'[c]
            u == Unhandled(c)
<1>1. Types /\ Reads(c, k) /\ open[c] /\ Len(data[c]) + k = HEAD_TOTAL_LEN /\ head[c] = NoHead
  BY DEF WireInv, ReadHead, Reads, Wanted
<1>2. /\ d \in Seq(Byte) /\ Len(d) = HEAD_TOTAL_LEN /\ t \in Seq(Byte) /\ d \o t = data[c] \o toServer[c]
      /\ toServer' \in [Conns -> Seq(Byte)] /\ \A x \in Conns \ {c} : toServer'[x] = toServer[x]
  BY <1>1, ReadsL
<1>3. /\ data' = [data EXCEPT ![c] = <<>>] /\ data \in [Conns -> Seq(Byte)]
      /\ head \in [Conns -> {NoHead} \cup [id : ReqIds, len : 1 .. MAX_LENGTH]]
      /\ open \in [Conns -> BOOLEAN]
      /\ IF Valid(h) THEN head' = [head EXCEPT ![c] = h] /\ open' = open
                     ELSE open' = [open EXCEPT ![c] = FALSE] /\ head' = head
      /\ UNCHANGED <<clientVars, delivered, toClient, workerVars, sendQue>>
  BY DEF ReadHead, Close, WireInv, Types, ReadTypes, NetTypes
<1>4. u \in Seq(Msgs) /\ Expects(NoHead, d \o t, u)
  BY <1>1, <1>2, OpenL
<1>. HIDE DEF d, t, u
<1>5. /\ u # <<>> /\ u[1] \in Msgs /\ h = HeaderFor(u[1])
      /\ HeaderFor(u[1]) # NoHead => Expects(HeaderFor(u[1]), Behind(d, HEAD_TOTAL_LEN) \o t, u)
  <2>1. Len(d) >= HEAD_TOTAL_LEN
    BY <1>2, WidthL
  <2>2. d \in Seq(Byte) /\ t \in Seq(Byte)
    BY <1>2
  <2>. QED  BY <1>4, <2>1, <2>2, HeadArrives, Zenon
<1>6. Behind(d, HEAD_TOTAL_LEN) = <<>>
  BY <1>2, BehindAll
<1>. HIDE DEF h
<1>7. u[1] \in Requests
  BY <1>1, <1>5, OpenL, BehindNext, ElementOfSeq DEF Unhandled, u
<1>8. Valid(h) => h \in [id : ReqIds, len : 1 .. MAX_LENGTH] /\ h # NoHead
  <2>1. u[1].id \in ReqIds
    BY <1>7 DEF Requests
  <2>2. ASSUME Valid(h) PROVE Len(u[1].body) \in 1 .. MAX_LENGTH
    BY <1>5, <2>2 DEF Valid, HeaderFor, Header
  <2>3. h = [id |-> u[1].id, len |-> Len(u[1].body)]
    BY <1>5 DEF HeaderFor, Header
  <2>4. NoHead.len = 0
    BY DEF NoHead, Header
  <2>. QED  BY <2>1, <2>2, <2>3, <2>4
<1>9. /\ data' \in [Conns -> Seq(Byte)] /\ data'[c] = <<>>
      /\ \A x \in Conns \ {c} : data'[x] = data[x] /\ head'[x] = head[x] /\ open'[x] = open[x]
      /\ head' \in [Conns -> {NoHead} \cup [id : ReqIds, len : 1 .. MAX_LENGTH]]
      /\ open' \in [Conns -> BOOLEAN]
      /\ open'[c] => Valid(h) /\ head'[c] = h
  <2>1. data' \in [Conns -> Seq(Byte)] /\ data'[c] = <<>> /\ \A x \in Conns \ {c} : data'[x] = data[x]
    BY <1>3
  <2>2. CASE Valid(h)
    BY <1>3, <1>8, <2>1, <2>2
  <2>3. CASE ~Valid(h)
    BY <1>3, <2>1, <2>3
  <2>. QED  BY <2>2, <2>3
<1>10. Types'
  BY <1>1, <1>2, <1>3, <1>9 DEF clientVars, workerVars, Types, ClientTypes, NetTypes, ReadTypes, WorkerTypes
<1>11. ServerSide(c)'
  <2>1. Unhandled(c)' = u /\ IsPrefix(delivered[c], sent[c])'
    BY <1>1, <1>3, OpenL DEF clientVars, Unhandled, u
  <2>2. ASSUME open'[c] PROVE Expects(head[c], data[c] \o toServer[c], Unhandled(c))'
    <3>1. Expects(h, <<>> \o t, u)
      BY <1>5, <1>6, <1>8, <1>9, <2>2
    <3>. QED  BY <1>9, <2>1, <2>2, <3>1 DEF t
  <2>. QED  BY <2>1, <2>2 DEF ServerSide
<1>12. QueueSide(c)' /\ Replies(c)' = Replies(c)
  BY <1>3, QueueFrame DEF workerVars, WireInv
<1>. QED  BY <1>1, <1>2, <1>3, <1>9, <1>10, <1>11, <1>12, OpenL, SessionFrame

LEMMA ReadBodyW ==
  ASSUME NEW c \in Conns, NEW k \in 1 .. Len(toServer[c])
  PROVE  WireInv /\ ReadBody(c, k) => WireInv'
<1>. SUFFICES ASSUME WireInv, ReadBody(c, k) PROVE WireInv'
  OBVIOUS
<1>. DEFINE d == data[c] \o First(toServer[c], k)
            h == head[c]
            t == toServer'[c]
            u == Unhandled(c)
            m == Message(h.id, d)
            n == Len(delivered[c])
<1>1. /\ Types /\ Reads(c, k) /\ open[c] /\ h # NoHead /\ Len(data[c]) + k = h.len
      /\ h \in [id : ReqIds, len : 1 .. MAX_LENGTH]
  BY DEF WireInv, ReadBody, Reads, Wanted, Types, ReadTypes
<1>2. /\ d \in Seq(Byte) /\ Len(d) = h.len /\ t \in Seq(Byte) /\ d \o t = data[c] \o toServer[c]
      /\ toServer' \in [Conns -> Seq(Byte)] /\ \A x \in Conns \ {c} : toServer'[x] = toServer[x]
  BY <1>1, ReadsL
<1>3. /\ data' = [data EXCEPT ![c] = <<>>] /\ data \in [Conns -> Seq(Byte)]
      /\ head \in [Conns -> {NoHead} \cup [id : ReqIds, len : 1 .. MAX_LENGTH]]
      /\ head' = [head EXCEPT ![c] = NoHead]
      /\ delivered \in [Conns -> Seq(Accepted)]
      /\ delivered' = [delivered EXCEPT ![c] = Append(@, m)]
      /\ UNCHANGED <<clientVars, toClient, open, workerVars, sendQue>>
  BY DEF ReadBody, WireInv, Types, ReadTypes
<1>4. u \in Seq(Msgs) /\ Expects(h, d \o t, u)
  BY <1>1, <1>2, OpenL
<1>. HIDE DEF d, t, u
<1>5. /\ u # <<>> /\ u[1] \in Msgs /\ Message(h.id, First(d, h.len)) = u[1]
      /\ Expects(NoHead, Behind(d, h.len) \o t, Tail(u))
  <2>1. Len(d) >= h.len
    BY <1>1, <1>2
  <2>2. d \in Seq(Byte) /\ t \in Seq(Byte) /\ h # NoHead
    BY <1>1, <1>2
  <2>. QED  BY <1>4, <2>1, <2>2, BodyArrives, Zenon
<1>6. Behind(d, h.len) = <<>> /\ First(d, h.len) = d
  BY <1>2, BehindAll
<1>7. u[1] = m /\ Expects(NoHead, <<>> \o t, Tail(u))
  BY <1>5, <1>6
<1>8. n + 1 \in 1 .. Len(sent[c]) /\ u[1] = sent[c][n + 1] /\ Tail(u) = Behind(sent[c], n + 1)
  BY <1>1, <1>5, OpenL, BehindNext DEF Unhandled, u
<1>9. m \in Accepted
  <2>1. m.id \in ReqIds /\ m.body = d
    BY <1>1 DEF Message
  <2>2. Len(m.body) \in 1 .. MAX_LENGTH
    BY <1>1, <1>2, <2>1
  <2>. QED  BY <1>5, <1>7, <2>1, <2>2 DEF Accepted
<1>. HIDE DEF m, h
<1>10. /\ data' \in [Conns -> Seq(Byte)] /\ data'[c] = <<>> /\ head'[c] = NoHead
       /\ head' \in [Conns -> {NoHead} \cup [id : ReqIds, len : 1 .. MAX_LENGTH]]
       /\ \A x \in Conns \ {c} : data'[x] = data[x] /\ head'[x] = head[x] /\ delivered'[x] = delivered[x]
       /\ delivered'[c] = Append(delivered[c], m)
  BY <1>3
<1>11. /\ delivered[c] \in Seq(Accepted) /\ n \in Nat
       /\ delivered'[c] \in Seq(Accepted) /\ Len(delivered'[c]) = n + 1
       /\ \A i \in 1 .. n : delivered'[c][i] = delivered[c][i]
       /\ delivered' \in [Conns -> Seq(Accepted)]
  <2>1. delivered[c] \in Seq(Accepted)
    BY <1>3
  <2>2. Append(delivered[c], m) \in Seq(Accepted) /\ n \in Nat
    BY <1>9, <2>1, AppendProperties, LenProperties
  <2>. QED  BY <1>3, <1>9, <1>10, <2>1, <2>2, AppendProperties, PutL
<1>12. Types'
  BY <1>1, <1>2, <1>3, <1>10, <1>11 DEF clientVars, workerVars, Types, ClientTypes, NetTypes, ReadTypes, WorkerTypes
<1>13. ServerSide(c)'
  <2>1. IsPrefix(Append(delivered[c], m), sent[c])
    BY <1>1, <1>7, <1>8, <1>9, <1>11, OpenL, PrefixNext
  <2>2. Unhandled(c)' = Tail(u)
    BY <1>3, <1>8, <1>11 DEF clientVars, Unhandled
  <2>3. Expects(head[c], data[c] \o toServer[c], Unhandled(c))'
    BY <1>7, <1>10, <2>2 DEF t
  <2>. QED  BY <1>3, <1>10, <2>1, <2>3 DEF ServerSide, clientVars
<1>14. Replies(c)' = Replies(c)
  <2>1. DOMAIN replied[c] = 1 .. Len(replied[c])
    BY <1>1 DEF Types, WorkerTypes
  <2>2. ASSUME NEW i \in DOMAIN replied[c] PROVE delivered'[c][replied[c][i]] = delivered[c][replied[c][i]]
    <3>1. QueueSide(c) /\ answered[c] \in Nat
      BY <1>1 DEF WireInv, Types, WorkerTypes
    <3>2. replied[c][i] \in 1 .. n
      BY <1>11, <2>1, <3>1 DEF QueueSide
    <3>. QED  BY <1>11, <3>2
  <2>. QED  BY <1>3, <2>2 DEF Replies, workerVars
<1>15. QueueSide(c)'
  <2>1. QueueSide(c) /\ answered[c] \in Nat
    BY <1>1 DEF WireInv, Types, WorkerTypes
  <2>2. answered[c] <= Len(delivered[c])'
    BY <1>11, <2>1 DEF QueueSide
  <2>. QED  BY <1>3, <1>14, <2>1, <2>2 DEF QueueSide, workerVars
<1>. QED  BY <1>1, <1>2, <1>3, <1>10, <1>12, <1>13, <1>14, <1>15, OpenL, SessionFrame

LEMMA ReadFailsW == ASSUME NEW c \in Conns PROVE WireInv /\ ReadFails(c) => WireInv'
<1>. SUFFICES ASSUME WireInv, ReadFails(c) PROVE WireInv'
  OBVIOUS
<1>1. open[c] /\ open \in [Conns -> BOOLEAN] /\ open' = [open EXCEPT ![c] = FALSE]
  BY DEF ReadFails, Close, WireInv, Types, NetTypes
<1>2. open' \in [Conns -> BOOLEAN] /\ ~open'[c] /\ \A d \in Conns \ {c} : open'[d] = open[d]
  BY <1>1
<1>. USE DEF ReadFails, clientVars, readVars, workerVars
<1>3. Types'
  BY <1>2 DEF WireInv, Types, ClientTypes, NetTypes, ReadTypes, WorkerTypes
<1>4. ServerSide(c)' /\ QueueSide(c)' /\ Replies(c)' = Replies(c)
  BY <1>2, ServerFrame, QueueFrame DEF WireInv
<1>. QED  BY <1>1, <1>2, <1>3, <1>4, OpenL, SessionFrame

----------------------------------------------------------------------------
(* The worker answers, and the packets of the queue are written. *)

LEMMA ComingNext ==
  ASSUME NEW R \in Seq(Msgs), NEW w \in Nat, w + 1 \in 1 .. Len(R), NEW k \in 0 .. w
  PROVE  /\ Behind(First(R, w + 1), k) = Append(Behind(First(R, w), k), R[w + 1])
         /\ Behind(First(R, w), k) \in Seq(Msgs) /\ R[w + 1] \in Msgs
<1>1. Len(R) \in Nat /\ w \in 0 .. Len(R) /\ w < Len(R)
  BY LenProperties
<1>. DEFINE f == First(R, w)
            x == R[w + 1]
<1>2. f \in Seq(Msgs) /\ Len(f) = w /\ x \in Msgs
  BY <1>1, SplitL, ElementOfSeq
<1>3. First(R, w + 1) = Append(f, x)
  BY <1>1, FirstNext
<1>. HIDE DEF f, x
<1>4. k \in 0 .. Len(f)
  BY <1>2
<1>5. Behind(f, k) \in Seq(Msgs)
  BY <1>2, <1>4, SplitL
<1>6. Behind(Append(f, x), k) = Append(Behind(f, k), x)
  BY <1>2, <1>4, BehindAppend
<1>. QED  BY <1>2, <1>3, <1>5, <1>6 DEF f, x

LEMMA RepliesMsgs ==
  ASSUME WireInv, NEW c \in Conns
  PROVE  /\ Replies(c) \in Seq(Answers) /\ Replies(c) \in Seq(Msgs)
         /\ Len(Replies(c)) = Len(replied[c]) /\ Len(replied[c]) \in Nat
         /\ received[c] \in Seq([id : Nat, body : Seq(Byte)]) /\ Len(received[c]) \in Nat
<1>1. Types /\ QueueSide(c) /\ replied[c] \in Seq(Nat) /\ received[c] \in Seq([id : Nat, body : Seq(Byte)])
  BY DEF WireInv, Types, WorkerTypes, ClientTypes
<1>2. Replies(c) \in Seq(Answers) /\ Len(Replies(c)) = Len(replied[c])
  BY <1>1, RepliesL
<1>3. Replies(c) \in Seq(Msgs)
  <2>1. Answers \subseteq Msgs
    BY DEF Answers
  <2>. QED  BY <1>2, <2>1, SeqMonotonic
<1>. QED  BY <1>1, <1>2, <1>3, LenProperties

(* The next answer is written. *)
LEMMA IncomingGrows ==
  ASSUME WireInv, conn \in Conns, NEW w \in Nat, Incoming(w), NEW R \in Seq(Msgs), w + 1 \in 1 .. Len(R),
         Replies(conn)' = R, First(R, w) = First(Replies(conn), w), Len(replied[conn])' = Len(R),
         toClient'[conn] = toClient[conn] \o Packet(R[w + 1]), Written(conn)' = w + 1,
         conn' = conn, pending' = pending, buffer' = buffer, received' = received
  PROVE  Incoming(w + 1)'
<1>. DEFINE k == Len(received[conn])
            u == Behind(First(R, w), k)
            t == toClient[conn]
            m == R[w + 1]
<1>1. k \in Nat /\ k \in 0 .. w
  BY RepliesMsgs DEF Incoming
<1>2. Behind(First(R, w + 1), k) = Append(u, m) /\ u \in Seq(Msgs) /\ m \in Msgs
  BY <1>1, ComingNext
<1>3. /\ buffer \in Seq(Byte) /\ t \in Seq(Byte) /\ Packet(m) \in Seq(Byte)
      /\ buffer \o t \in Seq(Byte)
  <2>1. buffer \in Seq(Byte) /\ t \in Seq(Byte)
    BY DEF WireInv, Types, ClientTypes, NetTypes
  <2>. QED  BY <1>2, <2>1, PacketType, ConcatProperties
<1>4. Expects(pending, buffer \o t, u)
  BY DEF Incoming, Coming
<1>5. Coming(conn, w + 1)' = Append(u, m)
  BY <1>2 DEF Coming
<1>6. (buffer \o toClient[conn])' = buffer \o (t \o Packet(m))
  OBVIOUS
<1>7. (w + 1 \in Len(received[conn]) .. Len(replied[conn]))'
  BY <1>1
<1>. HIDE DEF u, t, m
<1>8. Expects(pending, (buffer \o t) \o Packet(m), Append(u, m))
  BY <1>2, <1>3, <1>4, ExpectsMore
<1>9. (buffer \o t) \o Packet(m) = buffer \o (t \o Packet(m))
  BY <1>3, AssocL
<1>. QED  BY <1>5, <1>6, <1>7, <1>8, <1>9 DEF Incoming

(* Nothing is written. *)
LEMMA IncomingStays ==
  ASSUME WireInv, conn \in Conns, NEW w \in Nat, Incoming(w),
         First(Replies(conn)', w) = First(Replies(conn), w),
         Len(replied[conn])' \in Nat, Len(replied[conn])' >= Len(replied[conn]),
         toClient'[conn] = toClient[conn], open'[conn] => open[conn] /\ Written(conn)' = Written(conn),
         conn' = conn, pending' = pending, buffer' = buffer, received' = received
  PROVE  Incoming(w)'
<1>1. Coming(conn, w)' = Coming(conn, w)
  BY DEF Coming
<1>2. (w \in Len(received[conn]) .. Len(replied[conn]))'
  BY RepliesMsgs DEF Incoming
<1>. QED  BY <1>1, <1>2 DEF Incoming

(* A step of the worker or of the writing of one session. *)
LEMMA WritingFrame ==
  ASSUME WireInv, NEW c \in Conns, ~Fresh(c), UNCHANGED clientVars, UNCHANGED <<readVars, toServer, open>>,
         \A d \in Conns \ {c} : /\ toClient'[d] = toClient[d] /\ answered'[d] = answered[d]
                                /\ replied'[d] = replied[d] /\ sendQue'[d] = sendQue[d],
         Types', QueueSide(c)', IsPrefix(received[c], Replies(c)'),
         conn = c => \A w \in Nat : Incoming(w) => \E v \in Nat : Incoming(v)'
  PROVE  WireInv'
<1>. USE DEF clientVars, readVars
<1>1. Idle'
  <2>1. \A d \in Conns : Fresh(d) => Fresh(d)'
    BY DEF Fresh
  <2>. QED  BY <2>1, IdleFrame DEF WireInv, Idle
<1>2. ASSUME NEW d \in Conns PROVE ServerSide(d)'
  BY ServerFrame DEF WireInv
<1>3. ASSUME NEW d \in Conns, d # c
      PROVE  QueueSide(d)' /\ Replies(d)' = Replies(d) /\ Written(d)' = Written(d)
  BY <1>3, QueueFrame DEF WireInv
<1>4. ClientSide'
  <2>1. ASSUME NEW d \in Conns PROVE IsPrefix(received[d], Replies(d))'
    BY <1>3 DEF WireInv, ClientSide
  <2>2. ASSUME conn' # 0 PROVE \E w \in Nat : Incoming(w)'
    <3>1. conn \in Conns
      BY <2>2, ConnL DEF WireInv
    <3>2. PICK w \in Nat : Incoming(w)
      BY <2>2 DEF WireInv, ClientSide
    <3>3. CASE conn = c
      BY <3>2, <3>3
    <3>4. CASE conn # c
      <4>1. Incoming(w)'
        <5>1. First(Replies(conn)', w) = First(Replies(conn), w) /\ Written(conn)' = Written(conn)
          BY <1>3, <3>1, <3>4
        <5>2. Len(replied[conn])' = Len(replied[conn]) /\ toClient'[conn] = toClient[conn] /\ conn' = conn
          BY <3>1, <3>4
        <5>3. Len(replied[conn]) \in Nat /\ Len(replied[conn]) >= Len(replied[conn])
          BY <3>1, RepliesMsgs
        <5>. QED  BY <3>1, <3>2, <5>1, <5>2, <5>3, IncomingStays
      <4>. QED  BY <4>1
    <3>. QED  BY <3>3, <3>4
  <2>. QED  BY <2>1, <2>2 DEF ClientSide
<1>5. \A d \in Conns : QueueSide(d)'
  BY <1>3
<1>. QED  BY <1>1, <1>2, <1>4, <1>5 DEF WireInv

LEMMA HandleWriteW == ASSUME NEW c \in Conns PROVE WireInv /\ HandleWrite(c) => WireInv'
<1>. SUFFICES ASSUME WireInv, HandleWrite(c) PROVE WireInv'
  OBVIOUS
<1>. DEFINE q == sendQue[c]
            rest == Tail(q)
            R == Replies(c)
            n == Len(replied[c])
<1>1. /\ Types /\ QueueSide(c) /\ open[c] /\ q # <<>>
      /\ UNCHANGED <<clientVars, readVars, toServer, open, workerVars>>
  BY DEF WireInv, HandleWrite
<1>2. /\ sendQue' = [sendQue EXCEPT ![c] = rest] /\ sendQue \in [Conns -> Seq(Seq(Byte))]
      /\ IF rest = <<>> THEN toClient' = toClient
                        ELSE toClient' = [toClient EXCEPT ![c] = @ \o Head(rest)]
      /\ toClient \in [Conns -> Seq(Byte)]
  BY <1>1 DEF HandleWrite, Write, Types, NetTypes, WorkerTypes
<1>3. /\ q \in Seq(Seq(Byte)) /\ rest \in Seq(Seq(Byte)) /\ Len(q) \in Nat \ {0} /\ Len(rest) = Len(q) - 1
      /\ \A i \in 1 .. Len(rest) : rest[i] = q[i + 1]
      /\ rest # <<>> => Head(rest) = rest[1] /\ rest[1] \in Seq(Byte) /\ Len(rest) >= 1
  <2>1. q \in Seq(Seq(Byte))
    BY <1>2
  <2>2. /\ rest \in Seq(Seq(Byte)) /\ Len(q) \in Nat \ {0} /\ Len(rest) = Len(q) - 1
        /\ \A i \in 1 .. Len(rest) : rest[i] = q[i + 1]
    BY <1>1, <2>1, HeadTailProperties, EmptySeq, LenProperties
  <2>. HIDE DEF rest
  <2>3. ASSUME rest # <<>> PROVE Head(rest) = rest[1] /\ rest[1] \in Seq(Byte) /\ Len(rest) >= 1
    <3>1. Len(rest) \in Nat /\ Len(rest) # 0
      BY <2>2, <2>3, EmptySeq, LenProperties
    <3>2. 1 \in 1 .. Len(rest) /\ Len(rest) >= 1
      BY <3>1
    <3>3. rest[1] \in Seq(Byte)
      BY <2>2, <3>2, ElementOfSeq
    <3>. QED  BY <3>2, <3>3
  <2>. QED  BY <2>1, <2>2, <2>3
<1>. HIDE DEF rest
<1>4. /\ sendQue' \in [Conns -> Seq(Seq(Byte))] /\ sendQue'[c] = rest
      /\ \A d \in Conns \ {c} : sendQue'[d] = sendQue[d] /\ toClient'[d] = toClient[d]
      /\ toClient' \in [Conns -> Seq(Byte)]
  <2>1. /\ sendQue' \in [Conns -> Seq(Seq(Byte))] /\ sendQue'[c] = rest
        /\ \A d \in Conns \ {c} : sendQue'[d] = sendQue[d]
    BY <1>2, <1>3
  <2>2. ASSUME rest # <<>> PROVE toClient[c] \o Head(rest) \in Seq(Byte)
    BY <1>2, <1>3, <2>2, ConcatProperties
  <2>. QED  BY <1>2, <2>1, <2>2
<1>5. Types'
  BY <1>1, <1>4 DEF clientVars, readVars, workerVars, Types, ClientTypes, NetTypes, ReadTypes, WorkerTypes
<1>6. R' = R
  BY <1>1 DEF Replies, readVars, workerVars
<1>7. Len(q) <= n /\ n \in Nat /\ Len(R) = n /\ R \in Seq(Msgs)
  BY <1>1, RepliesMsgs DEF QueueSide
<1>8. QueueSide(c)'
  <2>1. Len(rest) <= n
    BY <1>3, <1>7
  <2>2. ASSUME NEW i \in 1 .. Len(rest) PROVE rest[i] = Packet(R[n - Len(rest) + i])
    <3>1. i + 1 \in 1 .. Len(q) /\ rest[i] = q[i + 1] /\ n - Len(q) + (i + 1) = n - Len(rest) + i
      <4>1. Len(q) \in Nat /\ n \in Nat /\ Len(rest) = Len(q) - 1 /\ rest[i] = q[i + 1]
        BY <1>3, <1>7
      <4>. HIDE DEF q, n
      <4>. QED  BY <4>1
    <3>. QED  BY <1>1, <3>1 DEF QueueSide
  <2>. HIDE DEF R
  <2>3. /\ (answered[c] <= Len(delivered[c]))'
        /\ (\A i \in 1 .. Len(replied[c]) : replied[c][i] \in 1 .. answered[c])'
        /\ (\A i, j \in 1 .. Len(replied[c]) : i < j => replied[c][i] < replied[c][j])'
        /\ (answered[c] <= MAX_SENDQUE + 1 => Len(replied[c]) = answered[c])'
    BY <1>1 DEF QueueSide, readVars, workerVars
  <2>4. Len(replied[c])' = n
    BY <1>1 DEF workerVars
  <2>5. (Len(sendQue[c]) <= Len(replied[c]))'
    BY <1>4, <2>1, <2>4
  <2>6. (\A i \in 1 .. Len(sendQue[c]) : sendQue[c][i] = Packet(R[Len(replied[c]) - Len(sendQue[c]) + i]))'
    BY <1>4, <1>6, <2>2, <2>4
  <2>. QED  BY <2>3, <2>5, <2>6 DEF QueueSide, R
<1>9. IsPrefix(received[c], Replies(c)')
  BY <1>6 DEF WireInv, ClientSide
<1>10. ASSUME conn = c, NEW w \in Nat, Incoming(w) PROVE \E v \in Nat : Incoming(v)'
  <2>1. w = n - Len(q) + 1
    BY <1>1, <1>10 DEF Incoming, Written
  <2>2. Len(replied[c])' = n /\ UNCHANGED <<conn, pending, buffer, received>>
    BY <1>1 DEF clientVars, workerVars
  <2>3. CASE rest = <<>>
    <3>1. Len(q) = 1
      <4>1. Len(rest) = 0
        BY <2>3
      <4>. QED  BY <1>3, <4>1
    <3>2. Written(conn)' = Written(conn)
      BY <1>1, <1>3, <1>4, <1>7, <1>10, <2>2, <2>3, <3>1 DEF Written
    <3>3. Incoming(w)'
      BY <1>1, <1>2, <1>6, <1>7, <1>10, <2>2, <2>3, <3>2, IncomingStays
    <3>. QED  BY <3>3
  <2>4. CASE rest # <<>>
    <3>1. w + 1 \in 1 .. n /\ w + 1 = n - Len(rest) + 1
      <4>1. Len(q) \in Nat /\ Len(q) <= n /\ n \in Nat /\ Len(rest) = Len(q) - 1 /\ Len(rest) >= 1
        BY <1>3, <1>7, <2>4
      <4>. HIDE DEF q, n
      <4>. QED  BY <2>1, <4>1
    <3>2. Written(conn)' = w + 1
      BY <1>4, <1>10, <2>2, <2>4, <3>1 DEF Written
    <3>3. Head(rest) = Packet(R[w + 1])
      <4>1. Head(rest) = q[2] /\ 2 \in 1 .. Len(q) /\ n - Len(q) + 2 = w + 1
        BY <1>3, <1>7, <2>1, <2>4
      <4>. QED  BY <1>1, <4>1 DEF QueueSide
    <3>4. toClient'[conn] = toClient[conn] \o Packet(R[w + 1])
      BY <1>2, <1>10, <2>4, <3>3
    <3>5. Incoming(w + 1)'
      <4>. HIDE DEF R
      <4>1. Replies(conn)' = R /\ Replies(conn) = R
        BY <1>6, <1>10, <2>2 DEF R
      <4>. QED  BY <1>7, <1>10, <2>2, <3>1, <3>2, <3>4, <4>1, IncomingGrows
    <3>6. w + 1 \in Nat
      OBVIOUS
    <3>. QED  BY <3>5, <3>6
  <2>. QED  BY <2>3, <2>4
<1>11. \A d \in Conns \ {c} : answered'[d] = answered[d] /\ replied'[d] = replied[d]
  BY <1>1 DEF workerVars
<1>. QED  BY <1>1, <1>4, <1>5, <1>8, <1>9, <1>10, <1>11, OpenL, WritingFrame

LEMMA SeqFunction ==
  ASSUME NEW S, NEW s \in Seq(S), NEW n, Len(s) = n
  PROVE  s = [i \in 1 .. n |-> s[i]]
OBVIOUS

LEMMA SendW == ASSUME NEW c \in Conns PROVE WireInv /\ Send(c) => WireInv'
<1>. SUFFICES ASSUME WireInv, Send(c) PROVE WireInv'
  OBVIOUS
<1>. DEFINE q == sendQue[c]
            R == Replies(c)
            n == Len(replied[c])
            a == answered[c]
            m == Answer(delivered[c][a + 1])
<1>1. /\ Types /\ QueueSide(c) /\ a < Len(delivered[c])
      /\ answered' = [answered EXCEPT ![c] = @ + 1]
      /\ UNCHANGED <<clientVars, readVars, toServer, open>>
  BY DEF WireInv, Send
<1>2. /\ sendQue \in [Conns -> Seq(Seq(Byte))] /\ q \in Seq(Seq(Byte)) /\ Len(q) \in Nat
      /\ replied \in [Conns -> Seq(Nat)] /\ replied[c] \in Seq(Nat) /\ n \in Nat
      /\ answered \in [Conns -> Nat] /\ a \in Nat
      /\ delivered[c] \in Seq(Accepted) /\ Len(delivered[c]) \in Nat
      /\ toClient \in [Conns -> Seq(Byte)] /\ toClient[c] \in Seq(Byte)
      /\ Len(q) <= n /\ Len(R) = n /\ R \in Seq(Msgs)
  BY <1>1, RepliesMsgs, LenProperties DEF Types, NetTypes, WorkerTypes, ReadTypes, QueueSide
<1>3. m \in Answers /\ m \in Msgs /\ Packet(m) \in Seq(Byte) /\ Len(m.body) <= MAX_LENGTH
  <2>1. a + 1 \in 1 .. Len(delivered[c])
    BY <1>1, <1>2
  <2>2. delivered[c][a + 1] \in Accepted
    BY <1>2, <2>1, ElementOfSeq
  <2>3. m \in Answers
    BY <2>2, AcceptedL
  <2>4. m \in Msgs /\ Len(m.body) \in 1 .. MAX_LENGTH
    BY <2>3 DEF Answers
  <2>. QED  BY <2>3, <2>4, PacketType, WireAssumption
<1>4. ~Fresh(c)
  <2>1. delivered[c] # <<>>
    BY <1>1, <1>2
  <2>. QED  BY <2>1 DEF Fresh
<1>5. /\ answered' \in [Conns -> Nat] /\ answered'[c] = a + 1
      /\ \A d \in Conns \ {c} : answered'[d] = answered[d]
  BY <1>1, <1>2
<1>6. CASE Dropped(c, m)
  <2>1. UNCHANGED <<replied, sendQue, toClient>>
    BY <1>6 DEF Send
  <2>2. Types'
    BY <1>1, <1>5, <2>1 DEF clientVars, readVars, Types, ClientTypes, NetTypes, ReadTypes, WorkerTypes
  <2>3. R' = R
    BY <1>1, <2>1 DEF Replies, readVars
  <2>4. a > MAX_SENDQUE
    <3>1. Len(q) > MAX_SENDQUE
      BY <1>3, <1>6, WireAssumption, <1>2 DEF Dropped, Answers
    <3>2. a <= MAX_SENDQUE + 1 => n = a
      BY <1>1 DEF QueueSide
    <3>3. MAX_SENDQUE \in Nat
      BY WireAssumption
    <3>. HIDE DEF q, n, a
    <3>. QED  BY <1>2, <3>1, <3>2, <3>3
  <2>5. QueueSide(c)'
    <3>1. a + 1 <= Len(delivered[c])
      BY <1>1, <1>2
    <3>2. \A i \in 1 .. n : replied[c][i] \in 1 .. a + 1
      <4>1. \A i \in 1 .. n : replied[c][i] \in 1 .. a
        BY <1>1 DEF QueueSide
      <4>. QED  BY <1>2, <4>1
    <3>3. a + 1 <= MAX_SENDQUE + 1 => n = a + 1
      BY <1>2, <2>4, WireAssumption
    <3>4. /\ replied' = replied /\ sendQue' = sendQue /\ delivered' = delivered
          /\ R' = R /\ answered'[c] = a + 1
      BY <1>1, <1>5, <2>1, <2>3 DEF readVars
    <3>5. /\ \A i, j \in 1 .. n : i < j => replied[c][i] < replied[c][j]
          /\ Len(q) <= n
          /\ \A i \in 1 .. Len(q) : q[i] = Packet(R[n - Len(q) + i])
      BY <1>1 DEF QueueSide
    <3>. HIDE DEF R
    <3>. QED  BY <3>1, <3>2, <3>3, <3>4, <3>5 DEF QueueSide, R
  <2>6. IsPrefix(received[c], Replies(c)')
    BY <2>3 DEF WireInv, ClientSide
  <2>7. ASSUME conn = c, NEW w \in Nat, Incoming(w) PROVE Incoming(w)'
    <3>1. UNCHANGED <<conn, pending, buffer, received, open>>
      BY <1>1 DEF clientVars
    <3>2. Replies(conn)' = Replies(conn) /\ Written(conn)' = Written(conn)
      BY <2>1, <2>3, <2>7, <3>1 DEF Written
    <3>3. Len(replied[conn])' \in Nat /\ Len(replied[conn])' >= Len(replied[conn])
      BY <1>2, <2>1, <2>7, <3>1
    <3>. QED  BY <2>1, <2>7, <3>1, <3>2, <3>3, IncomingStays
  <2>. QED  BY <1>1, <1>4, <1>5, <2>1, <2>2, <2>5, <2>6, <2>7, WritingFrame
<1>7. CASE ~Dropped(c, m)
  <2>. DEFINE p == Packet(m)
  <2>. HIDE DEF m
  <2>1. /\ replied' = [replied EXCEPT ![c] = Append(@, a + 1)]
        /\ sendQue' = [sendQue EXCEPT ![c] = Append(@, p)]
        /\ IF q = <<>> THEN toClient' = IF open[c] THEN [toClient EXCEPT ![c] = @ \o p] ELSE toClient
                       ELSE toClient' = toClient
    BY <1>7 DEF Send, Write, m
  <2>. HIDE DEF p
  <2>2. /\ replied'[c] = Append(replied[c], a + 1) /\ replied'[c] \in Seq(Nat)
        /\ Len(replied'[c]) = n + 1 /\ replied'[c][n + 1] = a + 1
        /\ \A i \in 1 .. n : replied'[c][i] = replied[c][i]
    <3>1. a + 1 \in Nat
      BY <1>2
    <3>2. replied'[c] = Append(replied[c], a + 1)
      BY <1>2, <2>1
    <3>. QED  BY <1>2, <3>1, <3>2, AppendProperties
  <2>3. /\ sendQue'[c] = Append(q, p) /\ sendQue'[c] \in Seq(Seq(Byte))
        /\ Len(sendQue'[c]) = Len(q) + 1 /\ sendQue'[c][Len(q) + 1] = p
        /\ \A i \in 1 .. Len(q) : sendQue'[c][i] = q[i]
    <3>1. p \in Seq(Byte)
      BY <1>3 DEF p
    <3>2. sendQue'[c] = Append(q, p)
      BY <1>2, <2>1
    <3>. QED  BY <1>2, <3>1, <3>2, AppendProperties
  <2>4. /\ replied' \in [Conns -> Seq(Nat)] /\ sendQue' \in [Conns -> Seq(Seq(Byte))]
        /\ toClient' \in [Conns -> Seq(Byte)]
        /\ \A d \in Conns \ {c} : /\ replied'[d] = replied[d] /\ sendQue'[d] = sendQue[d]
                                  /\ toClient'[d] = toClient[d]
    <3>1. replied' \in [Conns -> Seq(Nat)] /\ \A d \in Conns \ {c} : replied'[d] = replied[d]
      BY <1>2, <2>1, <2>2
    <3>2. sendQue' \in [Conns -> Seq(Seq(Byte))] /\ \A d \in Conns \ {c} : sendQue'[d] = sendQue[d]
      BY <1>2, <2>1, <2>3
    <3>3. toClient[c] \o p \in Seq(Byte)
      BY <1>2, <1>3, ConcatProperties DEF p
    <3>4. toClient' \in [Conns -> Seq(Byte)] /\ \A d \in Conns \ {c} : toClient'[d] = toClient[d]
      BY <1>2, <2>1, <3>3
    <3>. QED  BY <3>1, <3>2, <3>4
  <2>5. Types'
    BY <1>1, <1>5, <2>4 DEF clientVars, readVars, Types, ClientTypes, NetTypes, ReadTypes, WorkerTypes
  <2>6. R' = Append(R, m)
    <3>1. R' = [i \in 1 .. n + 1 |-> Answer(delivered[c][replied'[c][i]])]
      <4>1. DOMAIN replied'[c] = 1 .. n + 1
        BY <2>2
      <4>. QED  BY <1>1, <4>1 DEF Replies, readVars
    <3>2. R = [i \in 1 .. n |-> Answer(delivered[c][replied[c][i]])]
      BY <1>2 DEF Replies
    <3>3. ASSUME NEW i \in 1 .. n + 1 PROVE R'[i] = Append(R, m)[i]
      <4>1. CASE i = n + 1
        <5>1. R'[i] = m
          BY <1>2, <2>2, <3>1, <4>1 DEF m
        <5>2. Append(R, m)[n + 1] = m
          BY <1>2, <1>3, AppendProperties
        <5>. QED  BY <4>1, <5>1, <5>2
      <4>2. CASE i \in 1 .. n
        <5>1. R'[i] = R[i]
          BY <2>2, <3>1, <3>2, <4>2
        <5>2. Append(R, m)[i] = R[i]
          BY <1>2, <1>3, <4>2, AppendProperties
        <5>. QED  BY <5>1, <5>2
      <4>. QED  BY <1>2, <4>1, <4>2
    <3>4. Append(R, m) \in Seq(Msgs) /\ Len(Append(R, m)) = n + 1
      BY <1>2, <1>3, AppendProperties
    <3>5. Append(R, m) = [i \in 1 .. n + 1 |-> Append(R, m)[i]]
      BY <3>4, SeqFunction
    <3>6. R' = [i \in 1 .. n + 1 |-> R'[i]]
      BY <3>1
    <3>. QED  BY <3>3, <3>5, <3>6
  <2>7. /\ Append(R, m) \in Seq(Msgs) /\ Len(Append(R, m)) = n + 1 /\ Append(R, m)[n + 1] = m
        /\ \A i \in 1 .. n : Append(R, m)[i] = R[i]
    BY <1>2, <1>3, AppendProperties
  <2>8. IsPrefix(received[c], Replies(c)')
    <3>1. IsPrefix(received[c], R) /\ received[c] \in Seq([id : Nat, body : Seq(Byte)])
      BY RepliesMsgs DEF WireInv, ClientSide
    <3>. QED  BY <1>2, <1>3, <2>6, <3>1, PrefixAppend
  <2>9. QueueSide(c)'
    <3>1. a + 1 <= Len(delivered[c])
      BY <1>1, <1>2
    <3>2. ASSUME NEW i \in 1 .. n + 1 PROVE replied'[c][i] \in 1 .. a + 1
      <4>1. \A j \in 1 .. n : replied[c][j] \in 1 .. a
        BY <1>1 DEF QueueSide
      <4>2. CASE i = n + 1
        BY <1>2, <2>2, <4>2
      <4>3. CASE i \in 1 .. n
        BY <1>2, <2>2, <4>1, <4>3
      <4>. QED  BY <1>2, <4>2, <4>3
    <3>3. ASSUME NEW i \in 1 .. n + 1, NEW j \in 1 .. n + 1, i < j
          PROVE  replied'[c][i] < replied'[c][j]
      <4>1. i \in 1 .. n /\ replied'[c][i] = replied[c][i]
        BY <1>2, <2>2, <3>3
      <4>2. CASE j = n + 1
        <5>1. replied[c][i] \in 1 .. a
          BY <1>1, <4>1 DEF QueueSide
        <5>. QED  BY <1>2, <2>2, <4>1, <4>2, <5>1
      <4>3. CASE j \in 1 .. n
        <5>1. replied[c][i] < replied[c][j]
          BY <1>1, <3>3, <4>1, <4>3 DEF QueueSide
        <5>. QED  BY <2>2, <4>1, <4>3, <5>1
      <4>. QED  BY <1>2, <4>2, <4>3
    <3>4. a + 1 <= MAX_SENDQUE + 1 => n + 1 = a + 1
      <4>1. a <= MAX_SENDQUE + 1 => n = a
        BY <1>1 DEF QueueSide
      <4>. QED  BY <1>2, <4>1, WireAssumption
    <3>5. ASSUME NEW i \in 1 .. Len(q) + 1
          PROVE  sendQue'[c][i] = Packet(Append(R, m)[(n + 1) - (Len(q) + 1) + i])
      <4>1. CASE i = Len(q) + 1
        <5>1. (n + 1) - (Len(q) + 1) + i = n + 1
          BY <1>2, <4>1
        <5>. QED  BY <2>3, <2>7, <4>1, <5>1 DEF p
      <4>2. CASE i \in 1 .. Len(q)
        <5>1. (n + 1) - (Len(q) + 1) + i = n - Len(q) + i /\ n - Len(q) + i \in 1 .. n
          BY <1>2, <4>2
        <5>2. q[i] = Packet(R[n - Len(q) + i])
          BY <1>1, <4>2 DEF QueueSide
        <5>3. Append(R, m)[n - Len(q) + i] = R[n - Len(q) + i]
          BY <2>7, <5>1
        <5>. QED  BY <2>3, <4>2, <5>1, <5>2, <5>3
      <4>3. i = Len(q) + 1 \/ i \in 1 .. Len(q)
        <5>1. Len(q) \in Nat
          BY <1>2
        <5>. HIDE DEF q
        <5>. QED  BY <5>1
      <4>. QED  BY <4>1, <4>2, <4>3
    <3>6. Len(q) + 1 <= n + 1
      BY <1>2
    <3>7. answered'[c] = a + 1 /\ delivered' = delivered
      BY <1>1, <1>5 DEF readVars
    <3>. HIDE DEF R
    <3>8. (\A i \in 1 .. Len(sendQue[c]) : sendQue[c][i] = Packet(R[Len(replied[c]) - Len(sendQue[c]) + i]))'
      BY <2>2, <2>3, <2>6, <3>5
    <3>. QED  BY <2>2, <2>3, <3>1, <3>2, <3>3, <3>4, <3>6, <3>7, <3>8 DEF QueueSide, R
  <2>10. ASSUME conn = c, NEW w \in Nat, Incoming(w) PROVE \E v \in Nat : Incoming(v)'
    <3>. HIDE DEF R
    <3>1. /\ conn' = conn /\ pending' = pending /\ buffer' = buffer /\ received' = received
          /\ open' = open /\ conn \in Conns
      BY <1>1, <2>10 DEF clientVars
    <3>2. Replies(conn)' = Append(R, m) /\ Replies(conn) = R
      BY <2>6, <2>10, <3>1 DEF R
    <3>3. w \in 0 .. n
      BY <1>2, <2>10 DEF Incoming
    <3>4. First(Append(R, m), w) = First(R, w)
      BY <1>2, <1>3, <3>3, FirstAppend
    <3>5. Len(replied[conn])' = n + 1
      BY <2>2, <2>10, <3>1
    <3>6. CASE q = <<>> /\ open[c]
      <4>1. w = n
        BY <2>10, <3>6 DEF Incoming, Written
      <4>2. Written(conn)' = w + 1
        <5>1. sendQue'[c] # <<>> /\ Len(sendQue'[c]) = 1
          BY <2>3, <3>6
        <5>. QED  BY <1>2, <2>10, <3>1, <3>5, <4>1, <5>1 DEF Written
      <4>3. toClient'[conn] = toClient[conn] \o Packet(Append(R, m)[w + 1])
        BY <1>2, <2>1, <2>7, <2>10, <3>6, <4>1 DEF p
      <4>4. w + 1 \in 1 .. Len(Append(R, m)) /\ w + 1 \in Nat /\ Len(Append(R, m)) = n + 1
        BY <1>2, <2>7, <4>1
      <4>5. Incoming(w + 1)'
        BY <2>7, <2>10, <3>1, <3>2, <3>4, <3>5, <4>2, <4>3, <4>4, IncomingGrows
      <4>. QED  BY <4>4, <4>5
    <3>7. CASE ~(q = <<>> /\ open[c])
      <4>1. toClient' = toClient
        BY <2>1, <3>7
      <4>2. open'[conn] => open[conn] /\ Written(conn)' = Written(conn)
        <5>. SUFFICES ASSUME open'[conn] PROVE open[conn] /\ Written(conn)' = Written(conn)
          OBVIOUS
        <5>1. q # <<>> /\ open[conn]
          BY <2>10, <3>1, <3>7
        <5>2. Written(conn) = n - Len(q) + 1
          BY <2>10, <5>1 DEF Written
        <5>3. sendQue'[c] # <<>>
          <6>1. Len(sendQue'[c]) # 0
            BY <1>2, <2>3
          <6>. QED  BY <6>1
        <5>4. Written(conn)' = (n + 1) - (Len(q) + 1) + 1
          BY <2>3, <2>10, <3>1, <3>5, <5>3 DEF Written
        <5>. QED  BY <1>2, <5>1, <5>2, <5>4
      <4>3. Len(replied[conn])' \in Nat /\ Len(replied[conn])' >= Len(replied[conn])
        BY <1>2, <2>10, <3>5
      <4>4. First(Replies(conn)', w) = First(Replies(conn), w)
        BY <3>2, <3>4
      <4>5. Incoming(w)'
        BY <2>10, <3>1, <4>1, <4>2, <4>3, <4>4, IncomingStays
      <4>. QED  BY <4>5
    <3>. QED  BY <3>6, <3>7
  <2>. QED  BY <1>1, <1>4, <1>5, <2>4, <2>5, <2>8, <2>9, <2>10, WritingFrame
<1>. QED  BY <1>6, <1>7

----------------------------------------------------------------------------
(* The client reads. *)

(* While ms are the answers to come, those in r.got are the first of them, *)
(* and the others are in the buffer and the bytes t behind it.             *)
Reading(r, t, ms) == /\ r \in Reader
                     /\ Len(r.got) \in 0 .. Len(ms)
                     /\ \A i \in 1 .. Len(r.got) : r.got[i] = ms[i]
                     /\ Expects(r.pending, r.buffer \o t, Behind(ms, Len(r.got)))

LEMMA NextComing ==
  ASSUME NEW ms \in Seq(Answers), NEW n \in 0 .. Len(ms)
  PROVE  /\ Behind(ms, n) \in Seq(Msgs)
         /\ Behind(ms, n) # <<>> =>
              /\ n + 1 \in 1 .. Len(ms) /\ ms[n + 1] \in Answers
              /\ Behind(ms, n)[1] = ms[n + 1] /\ Tail(Behind(ms, n)) = Behind(ms, n + 1)
<1>1. ms \in Seq(Msgs)
  <2>1. Answers \subseteq Msgs
    BY DEF Answers
  <2>. QED  BY <2>1, SeqMonotonic
<1>2. Behind(ms, n) \in Seq(Msgs)
  BY <1>1, SplitL
<1>. QED  BY <1>2, BehindNext, ElementOfSeq

LEMMA TakeHeadL ==
  ASSUME NEW ms \in Seq(Answers), NEW t \in Seq(Byte), NEW r, Reading(r, t, ms)
  PROVE  Reading(TakeHead(r), t, ms)
<1>. DEFINE n == Len(r.got)
            u == Behind(ms, n)
            b == r.buffer
<1>. SUFFICES ASSUME r.pending = NoHead, Len(b) >= HEAD_TOTAL_LEN PROVE Reading(TakeHead(r), t, ms)
  BY DEF TakeHead
<1>1. r \in Reader /\ n \in 0 .. Len(ms) /\ b \in Seq(Byte) /\ Expects(NoHead, b \o t, u)
  BY DEF Reading, Reader
<1>2. u \in Seq(Msgs)
  BY <1>1, NextComing
<1>. DEFINE h == HeaderOf(b)
            c == Behind(b, HEAD_TOTAL_LEN)
<1>. HIDE DEF u, b
<1>3. /\ u # <<>> /\ u[1] \in Msgs /\ h = HeaderFor(u[1]) /\ c \in Seq(Byte)
      /\ HeaderFor(u[1]) # NoHead => Expects(HeaderFor(u[1]), c \o t, u)
  BY <1>1, <1>2, HeadArrives, Zenon
<1>4. u[1] \in Answers
  BY <1>1, <1>3, NextComing DEF u
<1>5. h # NoHead /\ h \in [id : Nat, len : Nat]
  <2>1. u[1].id \in Nat /\ Len(u[1].body) \in Nat
    BY <1>3, PacketType
  <2>. QED  BY <1>3, <1>4, <2>1, AnswerL DEF HeaderFor, Header
<1>. HIDE DEF h, c
<1>6. TakeHead(r) = [r EXCEPT !.pending = h, !.buffer = c]
  BY DEF TakeHead, h, c, b
<1>7. /\ TakeHead(r) \in Reader /\ TakeHead(r).got = r.got
      /\ TakeHead(r).pending = h /\ TakeHead(r).buffer = c
  BY <1>1, <1>3, <1>5, <1>6 DEF Reader
<1>8. Expects(h, c \o t, u)
  BY <1>3, <1>5
<1>. QED  BY <1>7, <1>8 DEF Reading, u

LEMMA TakeBodyL ==
  ASSUME NEW ms \in Seq(Answers), NEW t \in Seq(Byte), NEW r, Reading(r, t, ms)
  PROVE  Reading(TakeBody(r), t, ms)
<1>. DEFINE n == Len(r.got)
            u == Behind(ms, n)
            b == r.buffer
            h == r.pending
            m == Message(h.id, First(b, h.len))
            c == Behind(b, h.len)
<1>. SUFFICES ASSUME h # NoHead, Len(b) >= h.len PROVE Reading(TakeBody(r), t, ms)
  BY DEF TakeBody
<1>1. /\ r \in Reader /\ n \in 0 .. Len(ms) /\ b \in Seq(Byte) /\ Expects(h, b \o t, u)
      /\ r.got \in Seq([id : Nat, body : Seq(Byte)]) /\ \A i \in 1 .. n : r.got[i] = ms[i]
  BY DEF Reading, Reader
<1>2. u \in Seq(Msgs)
  BY <1>1, NextComing
<1>3. /\ u # <<>> /\ m = u[1] /\ c \in Seq(Byte) /\ Expects(NoHead, c \o t, Tail(u))
  <2>. HIDE DEF u, b, h
  <2>. QED  BY <1>1, <1>2, BodyArrives
<1>4. /\ n + 1 \in 1 .. Len(ms) /\ m = ms[n + 1] /\ m \in Answers /\ Tail(u) = Behind(ms, n + 1)
  BY <1>1, <1>3, NextComing
<1>5. m.id \in RspIds /\ m.id = h.id /\ m \in [id : Nat, body : Seq(Byte)]
  BY <1>4 DEF Answers, Msgs, Message
<1>6. TakeBody(r) = [buffer |-> c, pending |-> NoHead, got |-> Append(r.got, m)]
  BY <1>5 DEF TakeBody
<1>. HIDE DEF m, c
<1>. DEFINE g == Append(r.got, m)
<1>7. /\ g \in Seq([id : Nat, body : Seq(Byte)]) /\ Len(g) = n + 1 /\ g[n + 1] = m
      /\ \A i \in 1 .. n : g[i] = r.got[i]
  BY <1>1, <1>5, AppendProperties
<1>8. \A i \in 1 .. n + 1 : g[i] = ms[i]
  <2>1. ASSUME NEW i \in 1 .. n + 1 PROVE i = n + 1 \/ i \in 1 .. n
    <3>1. n \in Nat
      BY <1>1, LenProperties
    <3>. HIDE DEF n
    <3>. QED  BY <3>1
  <2>. QED  BY <1>1, <1>4, <1>7, <2>1
<1>. HIDE DEF g, u
<1>9. /\ TakeBody(r) \in Reader /\ TakeBody(r).got = g
      /\ TakeBody(r).pending = NoHead /\ TakeBody(r).buffer = c
  <2>1. NoHead \in [id : Nat, len : Nat]
    BY DEF NoHead, Header
  <2>. QED  BY <1>3, <1>6, <1>7, <2>1 DEF Reader, g
<1>10. n + 1 \in 0 .. Len(ms)
  BY <1>4
<1>. QED  BY <1>3, <1>4, <1>7, <1>8, <1>9, <1>10 DEF Reading

LEMMA DivNat == ASSUME NEW x \in Nat, NEW y \in Nat \ {0} PROVE x \div y \in Nat
<1>. DEFINE q == x \div y
<1>1. q \in Int /\ x = y * q + (x % y) /\ x % y < y
  OBVIOUS
<1>2. \A p \in Int : p < 0 => y * p <= -y
  OBVIOUS
<1>. HIDE DEF q
<1>3. q >= 0
  BY <1>1, <1>2
<1>. QED  BY <1>1, <1>3 DEF q

(* The recursion of Reassemble has a solution, and every round keeps what  *)
(* Reading says.                                                           *)
IsRun(f, b, p, n) ==
  f = [k \in 0 .. n |-> IF k = 0 THEN [buffer |-> b, pending |-> p, got |-> <<>>] ELSE Round[f[k - 1]]]

LEMMA ReassembleL ==
  ASSUME NEW b \in Seq(Byte), NEW p \in [id : Nat, len : Nat], NEW t \in Seq(Byte),
         NEW ms \in Seq(Answers), Expects(p, b \o t, ms)
  PROVE  Reading(Reassemble(b, p), t, ms)
<1>. DEFINE N == Len(b) \div HEAD_TOTAL_LEN + 1
            r0 == [buffer |-> b, pending |-> p, got |-> <<>>]
            Good == {n \in Nat : \E f : IsRun(f, b, p, n)}
<1>1. N \in Nat
  <2>1. HEAD_TOTAL_LEN \in Nat \ {0} /\ Len(b) \in Nat
    BY WireAssumption, LenProperties DEF HEAD_TOTAL_LEN
  <2>. QED  BY <2>1, DivNat, SMTT(60)
<1>2. 0 \in Good
  <2>1. IsRun([k \in 0 .. 0 |-> r0], b, p, 0)
    BY DEF IsRun
  <2>. QED  BY <2>1
<1>3. ASSUME NEW n \in Nat, n \in Good PROVE n + 1 \in Good
  <2>1. PICK f : IsRun(f, b, p, n)
    BY <1>3
  <2>. DEFINE g == [k \in 0 .. n + 1 |-> IF k = n + 1 THEN Round[f[n]] ELSE f[k]]
  <2>2. ASSUME NEW k \in 0 .. n + 1 PROVE g[k] = IF k = 0 THEN r0 ELSE Round[g[k - 1]]
    BY <2>1 DEF IsRun
  <2>3. IsRun(g, b, p, n + 1)
    BY <2>2 DEF IsRun
  <2>. QED  BY <2>3
<1>4. \E f : IsRun(f, b, p, N)
  <2>. HIDE DEF Good, N
  <2>1. N \in Good
    BY <1>1, <1>2, <1>3, SetInduction
  <2>. QED  BY <2>1 DEF Good
<1>. HIDE DEF N
<1>5. PICK f : IsRun(f, b, p, N) /\ Reassemble(b, p) = f[N]
  BY <1>4 DEF Reassemble, IsRun, N
<1>6. f[0] = r0 /\ \A k \in 1 .. N : f[k] = Round[f[k - 1]]
  BY <1>1, <1>5 DEF IsRun
<1>. DEFINE Fine == {n \in Nat : n <= N => Reading(f[n], t, ms)}
<1>7. 0 \in Fine
  <2>1. /\ r0.got = <<>> /\ Len(<<>>) = 0 /\ r0.pending = p /\ r0.buffer = b
        /\ <<>> \in Seq([id : Nat, body : Seq(Byte)]) /\ Len(ms) \in Nat
    BY LenProperties
  <2>2. r0 \in Reader
    BY <2>1 DEF Reader
  <2>3. Behind(ms, 0) = ms
    BY BehindAll
  <2>. HIDE DEF r0
  <2>4. Reading(r0, t, ms)
    BY <2>1, <2>2, <2>3 DEF Reading
  <2>. QED  BY <1>6, <2>4
<1>8. ASSUME NEW n \in Nat, n \in Fine PROVE n + 1 \in Fine
  <2>. SUFFICES ASSUME n + 1 <= N PROVE Reading(f[n + 1], t, ms)
    OBVIOUS
  <2>1. n + 1 \in 1 .. N /\ (n + 1) - 1 = n /\ n <= N
    BY <1>1
  <2>2. f[n + 1] = Round[f[n]] /\ Reading(f[n], t, ms)
    BY <1>6, <1>8, <2>1
  <2>3. Round[f[n]] = TakeBody(TakeHead(f[n]))
    BY <2>2 DEF Round, Reading
  <2>. QED  BY <2>2, <2>3, TakeHeadL, TakeBodyL
<1>9. Nat \subseteq Fine
  <2>. HIDE DEF Fine
  <2>. QED  BY <1>7, <1>8, SetInduction
<1>10. Reading(f[N], t, ms)
  BY <1>1, <1>9
<1>. QED  BY <1>5, <1>10

LEMMA ConcatL ==
  ASSUME NEW S, NEW s \in Seq(S), NEW t \in Seq(S), NEW n \in Nat, NEW j \in Nat, Len(s) = n, Len(t) = j
  PROVE  /\ s \o t \in Seq(S) /\ Len(s \o t) = n + j
         /\ \A i \in 1 .. n : (s \o t)[i] = s[i]
         /\ \A i \in 1 .. j : (s \o t)[n + i] = t[i]
<1>. DEFINE c == s \o t
<1>1. /\ c \in Seq(S) /\ Len(c) = n + j
      /\ \A i \in 1 .. Len(c) : c[i] = IF i <= n THEN s[i] ELSE t[i - n]
  BY ConcatProperties, ZenonT(60)
<1>. HIDE DEF c
<1>2. \A i \in 1 .. n : c[i] = s[i]
  BY <1>1
<1>3. ASSUME NEW i \in 1 .. j PROVE c[n + i] = t[i]
  <2>1. n + i \in 1 .. Len(c) /\ ~(n + i <= n) /\ (n + i) - n = i
    BY <1>1
  <2>. QED  BY <1>1, <2>1
<1>. QED  BY <1>1, <1>2, <1>3 DEF c

LEMMA ReadyReadW == ASSUME NEW k PROVE WireInv /\ readyRead(k) => WireInv'
<1>. SUFFICES ASSUME WireInv, readyRead(k) PROVE WireInv'
  OBVIOUS
<1>. DEFINE s == toClient[conn]
            f == First(s, k)
            t == Behind(s, k)
            b == buffer \o f
            r == Reassemble(b, pending)
            R == Replies(conn)
<1>0. PICK n \in Nat : n = Len(received[conn])
  BY ConnL, RepliesMsgs DEF WireInv, readyRead
<1>1. /\ Types /\ conn # 0 /\ conn \in Conns /\ k \in 1 .. Len(s)
      /\ buffer' = r.buffer /\ pending' = r.pending
      /\ received' = [received EXCEPT ![conn] = @ \o r.got]
      /\ toClient' = [toClient EXCEPT ![conn] = t]
      /\ UNCHANGED <<conn, opened, sent, readVars, toServer, open, workerVars, sendQue>>
  BY ConnL DEF WireInv, readyRead
<1>2. /\ s \in Seq(Byte) /\ buffer \in Seq(Byte) /\ pending \in [id : Nat, len : Nat]
      /\ toClient \in [Conns -> Seq(Byte)]
      /\ received \in [Conns -> Seq([id : Nat, body : Seq(Byte)])]
      /\ received[conn] \in Seq([id : Nat, body : Seq(Byte)])
      /\ R \in Seq(Answers) /\ R \in Seq(Msgs) /\ Len(R) = Len(replied[conn]) /\ Len(R) \in Nat
  BY <1>1, RepliesMsgs DEF Types, NetTypes, ClientTypes
<1>3. /\ f \in Seq(Byte) /\ t \in Seq(Byte) /\ b \in Seq(Byte) /\ b \o t = buffer \o s
  <2>1. k \in 0 .. Len(s)
    BY <1>1, <1>2, LenProperties
  <2>2. f \in Seq(Byte) /\ t \in Seq(Byte) /\ f \o t = s
    BY <1>2, <2>1, SplitL
  <2>. HIDE DEF f, t
  <2>3. (buffer \o f) \o t = buffer \o (f \o t)
    BY <1>2, <2>2, AssocL
  <2>4. b \in Seq(Byte)
    BY <1>2, <2>2, ConcatProperties
  <2>. QED  BY <2>2, <2>3, <2>4
<1>4. PICK w \in Nat : Incoming(w)
  BY <1>1 DEF WireInv, ClientSide
<1>. DEFINE F == First(R, w)
            ms == Behind(F, n)
<1>5. w \in n .. Len(R) /\ Expects(pending, buffer \o s, ms) /\ (open[conn] => w = Written(conn))
  BY <1>0, <1>2, <1>4 DEF Incoming, Coming
<1>6. F \in Seq(Answers) /\ Len(F) = w /\ n \in 0 .. w /\ \A i \in 1 .. w : F[i] = R[i]
  <2>1. w \in 0 .. Len(R) /\ n \in 0 .. w
    BY <1>2, <1>5
  <2>. HIDE DEF R
  <2>. QED  BY <1>2, <2>1, SplitL
<1>7. /\ ms \in Seq(Answers) /\ Len(ms) = w - n /\ \A i \in 1 .. w - n : ms[i] = F[n + i]
  <2>. HIDE DEF F
  <2>. QED  BY <1>6, SplitL
<1>. HIDE DEF ms
<1>8. Reading(r, t, ms)
  <2>1. Expects(pending, b \o t, ms)
    BY <1>3, <1>5
  <2>. HIDE DEF b, t
  <2>. QED  BY <1>2, <1>3, <1>7, <2>1, ReassembleL
<1>8j. PICK j \in Nat : j = Len(r.got)
  BY <1>8, LenProperties DEF Reading, Reader
<1>9. /\ r.buffer \in Seq(Byte) /\ r.pending \in [id : Nat, len : Nat]
      /\ r.got \in Seq([id : Nat, body : Seq(Byte)])
      /\ Len(r.got) = j /\ j \in 0 .. w - n /\ \A i \in 1 .. j : r.got[i] = ms[i]
      /\ Expects(r.pending, r.buffer \o t, Behind(ms, j))
  BY <1>7, <1>8, <1>8j DEF Reading, Reader
<1>. HIDE DEF r, t, F
<1>10. /\ received'[conn] = received[conn] \o r.got
       /\ received'[conn] \in Seq([id : Nat, body : Seq(Byte)]) /\ Len(received'[conn]) = n + j
       /\ \A i \in 1 .. n : received'[conn][i] = received[conn][i]
       /\ \A i \in 1 .. j : received'[conn][n + i] = r.got[i]
       /\ received' \in [Conns -> Seq([id : Nat, body : Seq(Byte)])]
       /\ \A d \in Conns \ {conn} : received'[d] = received[d]
  <2>1. received'[conn] = received[conn] \o r.got /\ \A d \in Conns \ {conn} : received'[d] = received[d]
    BY <1>1, <1>2
  <2>. DEFINE c == received[conn] \o r.got
  <2>2. /\ c \in Seq([id : Nat, body : Seq(Byte)]) /\ Len(c) = n + j
        /\ \A i \in 1 .. n : c[i] = received[conn][i]
        /\ \A i \in 1 .. j : c[n + i] = r.got[i]
    <3>1. n \in Nat /\ j \in Nat /\ Len(received[conn]) = n /\ Len(r.got) = j
      BY <1>0, <1>8j
    <3>2. received[conn] \in Seq([id : Nat, body : Seq(Byte)]) /\ r.got \in Seq([id : Nat, body : Seq(Byte)])
      BY <1>2, <1>9
    <3>. DEFINE x == received[conn]
                y == r.got
                T == [id : Nat, body : Seq(Byte)]
    <3>. HIDE DEF x, y, T
    <3>3. /\ x \o y \in Seq(T) /\ Len(x \o y) = n + j
          /\ \A i \in 1 .. n : (x \o y)[i] = x[i]
          /\ \A i \in 1 .. j : (x \o y)[n + i] = y[i]
      <4>1. x \in Seq(T) /\ y \in Seq(T) /\ Len(x) = n /\ Len(y) = j
        BY <3>1, <3>2 DEF x, y, T
      <4>. QED  BY <3>1, <4>1, ConcatL
    <3>. QED  BY <3>3 DEF x, y, T
  <2>. HIDE DEF c
  <2>3. received' \in [Conns -> Seq([id : Nat, body : Seq(Byte)])]
    BY <1>1, <1>2, <2>2, PutL DEF c
  <2>. QED  BY <2>1, <2>2, <2>3 DEF c
<1>11. /\ toClient' \in [Conns -> Seq(Byte)] /\ toClient'[conn] = t
       /\ \A d \in Conns \ {conn} : toClient'[d] = toClient[d]
  BY <1>1, <1>2, <1>3
<1>12. Types'
  BY <1>1, <1>9, <1>10, <1>11 DEF readVars, workerVars, Types, ClientTypes, NetTypes, ReadTypes, WorkerTypes
<1>13. Idle'
  <2>1. ASSUME NEW d \in Conns, d > opened PROVE d # conn
    <3>1. conn = opened /\ opened \in Nat
      BY <1>1, ConnL, WireAssumption DEF Types, ClientTypes
    <3>. QED  BY <2>1, <3>1 DEF Conns
  <2>2. \A d \in Conns : Fresh(d) /\ d > opened => Fresh(d)'
    BY <1>1, <1>10, <1>11, <2>1 DEF Fresh, readVars, workerVars
  <2>. QED  BY <1>1, <2>2, IdleFrame DEF WireInv
<1>14. ASSUME NEW d \in Conns
       PROVE  ServerSide(d)' /\ QueueSide(d)' /\ Replies(d)' = Replies(d) /\ Written(d)' = Written(d)
  BY <1>1, ServerFrame, QueueFrame DEF WireInv, readVars, workerVars
<1>15. IsPrefix(received[conn], R) /\ n <= w /\ w <= Len(R)
  BY <1>1, <1>2, <1>5 DEF WireInv, ClientSide
<1>16. IsPrefix(received'[conn], R)
  <2>1. ASSUME NEW i \in 1 .. n + j PROVE received'[conn][i] = R[i]
    <3>1. CASE i \in 1 .. n
      <4>1. received[conn][i] = R[i]
        <5>. DEFINE x == received[conn]
                    T == [id : Nat, body : Seq(Byte)]
        <5>. HIDE DEF R, x, T
        <5>1. x \in Seq(T) /\ IsPrefix(x, R) /\ Len(x) = n
          BY <1>0, <1>2, <1>15 DEF x, T
        <5>2. \A l \in 1 .. Len(x) : x[l] = R[l]
          BY <1>2, <5>1, PrefixL
        <5>. QED  BY <3>1, <5>1, <5>2 DEF x
      <4>. QED  BY <1>10, <3>1, <4>1
    <3>2. CASE i - n \in 1 .. j
      <4>1. /\ i - n \in 1 .. w - n /\ n + (i - n) = i /\ i \in 1 .. w
        BY <1>2, <1>5, <1>9, <3>2
      <4>2. received'[conn][i] = r.got[i - n]
        BY <1>10, <3>2, <4>1
      <4>3. r.got[i - n] = ms[i - n] /\ ms[i - n] = F[i] /\ F[i] = R[i]
        BY <1>6, <1>7, <1>9, <3>2, <4>1
      <4>. QED  BY <4>2, <4>3
    <3>3. i \in 1 .. n \/ i - n \in 1 .. j
      OBVIOUS
    <3>. QED  BY <3>1, <3>2, <3>3
  <2>2. Len(received'[conn]) <= Len(R)
    BY <1>2, <1>5, <1>9, <1>10
  <2>3. \A i \in 1 .. Len(received'[conn]) : received'[conn][i] = R[i]
    BY <1>10, <2>1
  <2>. HIDE DEF R
  <2>. QED  BY <1>2, <1>10, <2>2, <2>3, PrefixL
<1>17. Behind(ms, j) = Behind(F, n + j)
  <2>1. j \in 0 .. Len(F) - n
    BY <1>6, <1>9
  <2>. QED  BY <1>6, <2>1, BehindBehind DEF ms
<1>18. Incoming(w)'
  <2>1. R' = R /\ conn' = conn
    BY <1>1, <1>14
  <2>2. Coming(conn, w)' = Behind(F, n + j)
    BY <1>10, <2>1 DEF Coming, F
  <2>3. (w \in Len(received[conn]) .. Len(replied[conn]))'
    <3>1. n + j \in Nat /\ n + j <= w /\ w <= Len(replied[conn])
      BY <1>2, <1>5, <1>9
    <3>. QED  BY <1>1, <1>2, <1>10, <3>1 DEF workerVars
  <2>4. Expects(pending, buffer \o toClient[conn], Coming(conn, w))'
    BY <1>1, <1>9, <1>11, <1>17, <2>2
  <2>5. (open[conn] => w = Written(conn))'
    BY <1>1, <1>5, <1>14, <2>1
  <2>. QED  BY <2>3, <2>4, <2>5 DEF Incoming
<1>19. ClientSide'
  <2>1. ASSUME NEW d \in Conns PROVE IsPrefix(received[d], Replies(d))'
    <3>1. CASE d = conn
      BY <1>14, <1>16, <3>1
    <3>2. CASE d # conn
      BY <1>10, <1>14, <3>2 DEF WireInv, ClientSide
    <3>. QED  BY <3>1, <3>2
  <2>. QED  BY <1>18, <2>1 DEF ClientSide
<1>. QED  BY <1>12, <1>13, <1>14, <1>19 DEF WireInv

----------------------------------------------------------------------------
LEMMA NextW == WireInv /\ [Next]_vars => WireInv'
<1>. SUFFICES ASSUME WireInv, [Next]_vars PROVE WireInv'
  OBVIOUS
<1>1. CASE Connect
  BY <1>1, ConnectW
<1>2. CASE Arrival
  BY <1>2, ReadyReadW DEF Arrival
<1>3. CASE disconnected
  BY <1>3, DisconnectedW
<1>4. CASE \E m \in Requests : slot_send_msg(m)
  BY <1>4, SendMsgW
<1>5. ASSUME NEW c \in Conns, Read(c) PROVE WireInv'
  BY <1>5, AsyncReadLenW, ReadHeadW, ReadBodyW DEF Read
<1>6. ASSUME NEW c \in Conns, ReadFails(c) \/ HandleWrite(c) \/ Send(c) PROVE WireInv'
  BY <1>6, ReadFailsW, HandleWriteW, SendW
<1>7. CASE UNCHANGED vars
  <2>. USE <1>7 DEF vars, clientVars, readVars, workerVars, WireInv
  <2>1. Types' /\ Idle'
    BY DEF Types, ClientTypes, NetTypes, ReadTypes, WorkerTypes, Idle, Fresh
  <2>2. ASSUME NEW c \in Conns PROVE ServerSide(c)' /\ QueueSide(c)' /\ Replies(c)' = Replies(c)
    BY ServerFrame, QueueFrame
  <2>3. ClientSide'
    <3>1. ASSUME NEW w \in Nat, conn \in Conns, Incoming(w) PROVE Incoming(w)'
      <4>1. Replies(conn)' = Replies(conn) /\ Written(conn)' = Written(conn)
        BY <2>2, <3>1 DEF Written
      <4>. QED  BY <3>1, <4>1 DEF Incoming, Coming
    <3>2. conn # 0 => conn \in Conns
      BY ConnL
    <3>. QED  BY <2>2, <3>1, <3>2 DEF ClientSide
  <2>. QED  BY <2>1, <2>2, <2>3
<1>. QED  BY <1>1, <1>2, <1>3, <1>4, <1>5, <1>6, <1>7 DEF Next

(* The inductive invariant: however the two streams are cut, each receiver *)
(* has exactly the packets before it that were written and not yet read.   *)
THEOREM WireInvariant == Spec => []WireInv
<1>. QED  BY InitW, NextW, PTL DEF Spec

LEMMA WireParts ==
  ASSUME WireInv
  PROVE  TypeOK /\ RequestsInOrder /\ AnswersInOrder
<1>. USE DEF WireInv
<1>1. Types
  OBVIOUS
<1>2. TypeOK
  <2>1. opened \in 0 .. MaxConns /\ conn \in 0 .. opened
    BY <1>1, WireAssumption DEF Types, ClientTypes
  <2>2. ASSUME NEW c \in Conns PROVE answered[c] \in 0 .. Len(delivered[c])
    <3>1. delivered[c] \in Seq(Accepted) /\ answered[c] \in Nat /\ QueueSide(c)
      BY DEF Types, ReadTypes, WorkerTypes
    <3>2. Len(delivered[c]) \in Nat
      BY <3>1, LenProperties
    <3>. QED  BY <3>1, <3>2 DEF QueueSide
  <2>. QED  BY <1>1, <2>1, <2>2 DEF TypeOK, Types, ClientTypes, NetTypes, ReadTypes
<1>3. RequestsInOrder
  <2>1. ASSUME NEW c \in Conns, NEW i \in DOMAIN delivered[c] PROVE ~Malformed(delivered[c][i])
    <3>1. delivered[c] \in Seq(Accepted)
      BY DEF Types, ReadTypes
    <3>2. delivered[c][i] \in Accepted
      BY <3>1, ElementOfSeq
    <3>. QED  BY <3>2 DEF Accepted, Malformed
  <2>. QED  BY <2>1 DEF RequestsInOrder, ServerSide
<1>4. AnswersInOrder
  <2>1. ASSUME NEW c \in Conns
        PROVE  /\ \A i, j \in DOMAIN replied[c] : i < j => replied[c][i] < replied[c][j]
               /\ answered[c] <= MAX_SENDQUE + 1 => Len(replied[c]) = answered[c]
    <3>1. DOMAIN replied[c] = 1 .. Len(replied[c]) /\ QueueSide(c)
      BY DEF Types, WorkerTypes
    <3>. QED  BY <3>1 DEF QueueSide
  <2>. QED  BY <2>1 DEF AnswersInOrder, ClientSide
<1>. QED  BY <1>2, <1>3, <1>4

(* No session awaits a body longer than _data, whatever the client sends   *)
(* and however it is cut (ReadHead).                                       *)
THEOREM WireTypeOK == Spec => []TypeOK
<1>. QED  BY WireInvariant, WireParts, PTL

(* The server gets the messages of a client whole, in order and up to the  *)
(* first malformed one (ReadHead, ReadBody, asyncReadLen).                 *)
THEOREM WireRequestsInOrder == Spec => []RequestsInOrder
<1>. QED  BY WireInvariant, WireParts, PTL

(* The client gets the answers whole, in order, none twice and none of a   *)
(* connection before (Send, HandleWrite, readyRead, disconnected).         *)
THEOREM WireAnswersInOrder == Spec => []AnswersInOrder
<1>. QED  BY WireInvariant, WireParts, PTL

(* What QDataStream or SendNode writes of a number, the ntohs and ntohl of *)
(* the session and the client's QDataStream read: any number that fits.    *)
THEOREM WireByteOrder ==
  ASSUME NEW n \in Nat, NEW width \in Nat, Fits(n, width)
  PROVE  Number(BigEndian(n, width)) = n
BY ByteOrder

===============================================================================
