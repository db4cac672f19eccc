---------------------------- MODULE MetaFileProofs ----------------------------
(***************************************************************************)
(* Proofs about MetaFile, for any requests, file and widths of integers,   *)
(* and for every reader and writer of JSON that keeps LibraryAssumption.   *)
(*                                                                         *)
(* The handlers look at members of parsed texts, the properties speak of   *)
(* values.  So first each check and conversion is shown to tell what the   *)
(* protocol allows (Numbers), then a handler to act on what its request    *)
(* means (Requests), then metadata to be read back as written (Metadata);  *)
(* the inductive invariant and the steps follow from these alone.          *)
(***************************************************************************)
EXTENDS MetaFile, CodingProofs

-----------------------------------------------------------------------------
(* Numbers.                                                                *)

\* The limits are whole numbers, and none is above MaxUInt64.
LEMMA Widths ==
  /\ MaxInt \in Nat /\ MaxUInt \in Nat /\ MaxInt64 \in Nat /\ MaxUInt64 \in Nat
  /\ MaxInt <= MaxUInt64 /\ MaxUInt <= MaxUInt64 /\ MaxInt64 <= MaxUInt64
  /\ MinInt \in Int /\ MinInt64 \in Int
BY WidthAssumption DEF MinInt, MinInt64

\* A product with a whole number keeps an inequality.
LEMMA Scaled ==
  ASSUME NEW a \in Nat, NEW b \in Nat, a <= b, NEW d \in Nat
  PROVE  a * d <= b * d
<1>1. PICK c \in Nat : b = a + c
  <2>1. b - a \in Nat /\ b = a + (b - a)
    OBVIOUS
  <2>. QED  BY <2>1
<1>2. b * d = a * d + c * d /\ c * d \in Nat /\ a * d \in Nat
  BY <1>1
<1>. QED  BY <1>2

(* A whole number is its quotient by the denominator.                      *)
LEMMA Quotient ==
  ASSUME NEW n \in Nat, NEW d \in Nat \ {0}, n % d = 0
  PROVE  n \div d \in Nat /\ n = d * (n \div d)
<1>1. n = d * (n \div d) + (n % d) /\ n \div d \in Int
  BY SMTT(30)
<1>2. n \div d \in Nat
  BY SMTT(30)
<1>. QED  BY <1>1, <1>2

\* If d divides n, it divides -n.
LEMMA Negated ==
  ASSUME NEW n \in Int, NEW d \in Nat \ {0}, n % d = 0
  PROVE  (-n) % d = 0
<1>. DEFINE q == n \div d
            p == (-n) \div d
            r == (-n) % d
<1>1. q \in Int /\ n = d * q
  <2>1. n = d * (n \div d) + (n % d) /\ n \div d \in Int
    BY SMTT(30)
  <2>. QED  BY <2>1
<1>2. p \in Int /\ r \in 0 .. d - 1 /\ -n = d * p + r
  BY SMTT(30)
<1>. HIDE DEF q, p, r
<1>3. d * (p + q) + r = 0
  BY <1>1, <1>2
<1>4. p + q = 0
  <2>1. CASE p + q >= 1
    <3>1. d * (p + q) >= d
      BY <1>1, <1>2, <2>1
    <3>. QED  BY <3>1, <1>1, <1>2, <1>3
  <2>2. CASE p + q <= -1
    <3>1. d * (p + q) <= -d
      BY <1>1, <1>2, <2>2
    <3>. QED  BY <3>1, <1>1, <1>2, <1>3
  <2>. QED  BY <1>1, <1>2, <2>1, <2>2
<1>5. r = 0
  BY <1>1, <1>2, <1>3, <1>4
<1>. QED  BY <1>5 DEF r

(* isUInt64 and asUInt64 agree on what the protocol allows as a size: then *)
(* the check passes, and nothing is thrown or rounded.                     *)
LEMMA SizeConverts ==
  ASSUME NEW v, IsJson(v), IsUInt64(v)
  PROVE  /\ Trunc(v) \in Nat /\ Trunc(v) <= MaxUInt64
         /\ AsUInt64(v) = {Got(Trunc(v))}
         /\ IsNonNegativeInteger(v)
<1>. DEFINE n == v.number[1]
            d == v.number[2]
<1>1. /\ v.type \in {"intValue", "uintValue", "realValue"}
      /\ n \in Int /\ d \in Nat \ {0} /\ n % d = 0 /\ n >= 0 /\ n <= MaxUInt64 * d
      /\ v.type # "realValue" => d = 1
  <2>1. IsNumber(v) /\ n \in Int /\ d \in Nat \ {0} /\ (v.type # "realValue" => d = 1)
    BY DEF IsJson, IsUInt64, WholeIn
  <2>2. n >= 0 * d /\ n <= MaxUInt64 * d /\ n % d = 0
    BY DEF IsUInt64, WholeIn, AtLeast, AtMost, Whole
  <2>. QED  BY <2>1, <2>2 DEF IsNumber
<1>2. Trunc(v) = n \div d
  BY <1>1 DEF Trunc
<1>. HIDE DEF n, d
<1>3. n \in Nat /\ n \div d \in Nat /\ n = d * (n \div d)
  BY <1>1, Quotient
<1>4. n \div d <= MaxUInt64
  <2>. DEFINE k == n \div d
  <2>1. k \in Nat /\ n = d * k
    BY <1>3
  <2>. HIDE DEF k
  <2>2. SUFFICES ASSUME k > MaxUInt64 PROVE FALSE
    BY <2>1, Widths DEF k
  <2>3. MaxUInt64 + 1 \in Nat /\ MaxUInt64 + 1 <= k
    BY <2>1, <2>2, Widths
  <2>4. (MaxUInt64 + 1) * d <= k * d
    BY <2>1, <2>3, <1>1, Scaled
  <2>. QED  BY <2>1, <2>4, <1>1, Widths
<1>5. d = 1 => n \div d = n
  BY <1>3
<1>6. CASE v.type = "intValue"
  <2>1. AsUInt64(v) = {Got(n)}
    BY <1>6 DEF AsUInt64, n
  <2>. QED  BY <2>1, <1>1, <1>2, <1>3, <1>4, <1>5, <1>6 DEF IsNonNegativeInteger
<1>7. CASE v.type = "uintValue"
  <2>1. AsUInt64(v) = {Got(n)}
    BY <1>7 DEF AsUInt64, n
  <2>. QED  BY <2>1, <1>1, <1>2, <1>3, <1>4, <1>5, <1>7 DEF IsNonNegativeInteger
<1>8. CASE v.type = "realValue"
  <2>1. AtLeast(v, 0) /\ AtMost(v, MaxUInt64)
    BY DEF IsUInt64, WholeIn
  <2>2. AtMost(v, MaxUInt64 + 1)
    <3>1. n <= (MaxUInt64 + 1) * d
      BY <1>1, Widths
    <3>. QED  BY <3>1 DEF AtMost, n, d
  <2>3. ~ (Trunc(v) = 0 /\ n # 0)
    BY <1>1, <1>2, <1>3
  <2>4. RealInRange(v, MaxUInt64)
    BY <2>1, <2>2, <2>3 DEF RealInRange, n
  <2>5. AsUInt64(v) = {Got(Trunc(v))}
    BY <1>8, <2>1, <2>4 DEF AsUInt64
  <2>. QED  BY <2>5, <1>2, <1>3, <1>4 DEF IsNonNegativeInteger
<1>. QED  BY <1>1, <1>6, <1>7, <1>8

(* Nothing else passes the check of the server.                            *)
LEMMA CheckRefuses ==
  ASSUME NEW v, IsJson(v), IsNonNegativeInteger(v)
  PROVE  IsUInt64(v)
<1>. DEFINE n == v.number[1]
            d == v.number[2]
<1>1. IsNumber(v) /\ Whole(v)
  BY DEF IsNonNegativeInteger, IsUInt, IsUInt64, IsInt, IsInt64, WholeIn
<1>2. /\ v.type \in {"intValue", "uintValue", "realValue"}
      /\ n \in Int /\ d \in Nat \ {0} /\ n % d = 0
      /\ v.type # "realValue" => d = 1
  BY <1>1 DEF IsJson, IsNumber, Whole
<1>3. \A k \in Int : k * d \in Int
  BY <1>2
<1>4. ASSUME NEW k \in Nat, k <= MaxUInt64, AtMost(v, k), n >= 0 PROVE IsUInt64(v)
  <2>1. k * d <= MaxUInt64 * d /\ n <= k * d
    BY <1>2, <1>4, Scaled, Widths DEF AtMost
  <2>2. n <= MaxUInt64 * d /\ n >= 0 * d
    BY <1>2, <1>3, <1>4, <2>1, Widths
  <2>. QED  BY <1>1, <2>2 DEF IsUInt64, WholeIn, AtLeast, AtMost
<1>5. Trunc(v) >= 0 => n >= 0
  <2>. SUFFICES ASSUME n < 0, Trunc(v) >= 0 PROVE FALSE
    BY <1>2
  <2>. DEFINE m == -n
  <2>1. Trunc(v) = -(m \div d)
    BY DEF Trunc
  <2>2. m \in Nat /\ m > 0
    BY <1>2
  <2>3. m % d = 0
    BY <1>2, Negated
  <2>. HIDE DEF m
  <2>4. m \div d \in Nat /\ m = d * (m \div d)
    BY <1>2, <2>2, <2>3, Quotient
  <2>5. m \div d = 0
    BY <2>1, <2>4
  <2>. QED  BY <2>2, <2>4, <2>5, <1>2
<1>6. CASE IsUInt(v)
  <2>1. n >= 0 * d /\ AtMost(v, MaxUInt)
    BY <1>6 DEF IsUInt, WholeIn, AtLeast
  <2>. QED  BY <1>2, <2>1, <1>4, Widths
<1>7. CASE IsInt(v) /\ AsInt(v).value >= 0
  <2>1. AtLeast(v, MinInt) /\ AtMost(v, MaxInt)
    BY <1>7 DEF IsInt, WholeIn
  <2>2. AsInt(v) = IF v.type = "realValue" THEN Got(Trunc(v)) ELSE Got(n)
    BY <1>2, <1>7, <2>1 DEF AsInt
  <2>3. AsInt(v).value = IF v.type = "realValue" THEN Trunc(v) ELSE n
    BY <2>2 DEF Got
  <2>. QED  BY <1>7, <2>1, <2>3, <1>4, <1>5, Widths
<1>8. CASE IsInt64(v) /\ AsInt64(v).value >= 0
  <2>1. AtMost(v, MaxInt64)
    BY <1>8 DEF IsInt64, WholeIn
  <2>2. CASE v.type = "realValue"
    <3>1. AtLeast(v, MinInt64 + 1)
      BY <1>8, <2>2 DEF IsInt64, WholeIn
    <3>2. AtLeast(v, MinInt64) /\ v.number # <<MinInt64, 1>>
      <4>1. n >= (MinInt64 + 1) * d
        BY <3>1 DEF AtLeast
      <4>2. (MinInt64 + 1) * d = MinInt64 * d + d /\ MinInt64 * d \in Int
        BY <1>2, Widths
      <4>3. n >= MinInt64 * d
        BY <4>1, <4>2, <1>2
      <4>4. ~ (n = MinInt64 /\ d = 1)
        BY <4>1, Widths
      <4>. QED  BY <4>3, <4>4 DEF AtLeast
    <3>3. AsInt64(v) = Got(Trunc(v))
      BY <2>1, <2>2, <3>2 DEF AsInt64
    <3>. QED  BY <1>8, <2>1, <3>3, <1>4, <1>5, Widths DEF Got
  <2>3. CASE v.type # "realValue"
    <3>1. AsInt64(v) = Got(n)
      BY <1>2, <1>8, <2>3 DEF AsInt64
    <3>. QED  BY <1>8, <2>1, <3>1, <1>4, Widths DEF Got
  <2>. QED  BY <2>2, <2>3
<1>. QED  BY <1>6, <1>7, <1>8 DEF IsNonNegativeInteger

(* What the writer is given is converted back.                             *)
LEMMA IntegerConverts ==
  ASSUME NEW n \in 0 .. MaxUInt64
  PROVE  AsUInt64(Integer(n)) = {Got(n)}
<1>1. CASE n <= MaxInt64
  <2>. DEFINE v == IntOf(n)
  <2>1. v.type = "intValue" /\ v.number[1] = n /\ v.number[2] = 1
    BY DEF IntOf
  <2>. HIDE DEF v
  <2>2. n % 1 = 0 /\ n >= 0 * 1 /\ n <= MaxUInt64 * 1
    BY Widths
  <2>3. IsUInt64(v)
    BY <2>1, <2>2 DEF IsUInt64, WholeIn, IsNumber, Whole, AtLeast, AtMost
  <2>4. AsUInt64(v) = {Got(n)}
    BY <2>1, <2>3 DEF AsUInt64
  <2>. QED  BY <2>4, <1>1 DEF Integer, v
<1>2. CASE ~ (n <= MaxInt64)
  <2>. DEFINE v == UIntOf(n)
  <2>1. v.type = "uintValue" /\ v.number[1] = n
    BY DEF UIntOf
  <2>. HIDE DEF v
  <2>2. AsUInt64(v) = {Got(n)}
    BY <2>1 DEF AsUInt64
  <2>. QED  BY <2>2, <1>2 DEF Integer, v
<1>. QED  BY <1>1, <1>2

\* asString and asBool give what an allowed member stands for.
LEMMA PayloadConverts ==
  ASSUME NEW s
  PROVE  /\ AsString(String(s)) = Got(s) /\ AsBool(Bool(s)) = Got(s)
         /\ String(s).type = "stringValue" /\ String(s).string = s
         /\ Bool(s).type = "booleanValue"
<1>1. String(s).type = "stringValue" /\ String(s).string = s
  BY DEF String
<1>2. Bool(s).type = "booleanValue" /\ Bool(s).bool = s
  BY DEF Bool
<1>3. AsString(String(s)) = Got(s)
  BY <1>1 DEF AsString, IsNumber
<1>4. AsBool(Bool(s)) = Got(s)
  BY <1>2 DEF AsBool, IsNumber
<1>. QED  BY <1>1, <1>2, <1>3, <1>4

\* A conversion that gives a value has not thrown, and gives that value.
LEMMA GotFacts ==
  ASSUME NEW x
  PROVE  /\ Got(x).thrown = FALSE /\ Got(x).value = x
         /\ Results({Got(x)}) = {x} /\ ~ Throws({Got(x)})
<1>1. Got(x).thrown = FALSE /\ Got(x).value = x
  BY DEF Got
<1>. QED  BY <1>1 DEF Results, Throws

-----------------------------------------------------------------------------
(* Metadata.                                                               *)

(* w is the object v with member k assigned x.                             *)
Assigns(v, w, k, x) ==
    /\ w = Object(w.map) /\ DOMAIN w.map = DOMAIN v.map \cup {k}
    /\ w.map = [n \in DOMAIN w.map |-> w.map[n]]
    /\ w.map[k] = x /\ \A n \in DOMAIN v.map : n # k => w.map[n] = v.map[n]

\* WithMember sets the one member and leaves the others.
LEMMA Assigned ==
  ASSUME NEW v, NEW k, NEW x, v = Object(v.map)
  PROVE  Assigns(v, WithMember(v, k, x), k, x)
<1>. DEFINE w == WithMember(v, k, x)
<1>1. Members(v) = v.map
  <2>1. v.type = "objectValue"
    BY DEF Object
  <2>. QED  BY <2>1 DEF Members
<1>2. w.map = [n \in DOMAIN v.map \cup {k} |-> IF n = k THEN x ELSE v.map[n]]
  BY <1>1 DEF WithMember, Object
<1>3. w = Object(w.map)
  BY <1>1, <1>2 DEF WithMember
<1>. HIDE DEF w
<1>4. Assigns(v, w, k, x)
  BY <1>2, <1>3 DEF Assigns
<1>. QED  BY <1>4 DEF w

\* The first member makes an object of the null value.
LEMMA AssignedFirst ==
  ASSUME NEW k, NEW x, NEW w, w = WithMember(Null, k, x)
  PROVE  w = Object(w.map) /\ DOMAIN w.map = {k} /\ w.map[k] = x
<1>1. DOMAIN Members(Null) = {}
  BY DEF Members, Null, NoMembers
<1>2. w.map = [n \in {k} |-> x]
  BY <1>1 DEF WithMember, Object
<1>3. w = Object(w.map)
  BY DEF WithMember, Object
<1>. QED  BY <1>2, <1>3

(* The six members of the metadata and their names.                        *)
Names == {Chars("upload_id"), Chars("md5"), Chars("name"), Chars("total_size"),
          Chars("chunk_size"), Chars("completed")}

HasMembers(v, t, completed, size, chunk) ==
    /\ v = Object(v.map) /\ v.map = [x \in Names |-> v.map[x]]
    /\ v.map[Chars("upload_id")] = String(UploadId)
    /\ v.map[Chars("md5")] = String(t.md5) /\ v.map[Chars("name")] = String(t.name)
    /\ v.map[Chars("total_size")] = size /\ v.map[Chars("chunk_size")] = chunk
    /\ v.map[Chars("completed")] = Bool(completed)

\* The names of the members are different texts.
LEMMA NamesDiffer ==
  /\ Chars("upload_id") \notin {Chars("md5"), Chars("name"), Chars("total_size"),
                                Chars("chunk_size"), Chars("completed")}
  /\ Chars("md5") \notin {Chars("name"), Chars("total_size"), Chars("chunk_size"), Chars("completed")}
  /\ Chars("name") \notin {Chars("total_size"), Chars("chunk_size"), Chars("completed")}
  /\ Chars("total_size") \notin {Chars("chunk_size"), Chars("completed")}
  /\ Chars("chunk_size") # Chars("completed")
BY NamesAssumption DEF SyncFields

\* What MetaValue builds (LogicWorker.cpp:220-226), member by member.
LEMMA WrittenMembers ==
  ASSUME NEW t, NEW completed
  PROVE  HasMembers(MetaOf(t, completed), t, completed, UIntOf(t.total_size), UIntOf(t.chunk_size))
<1>. DEFINE v1 == WithMember(Null, Chars("upload_id"), String(UploadId))
            v2 == WithMember(v1, Chars("md5"), String(t.md5))
            v3 == WithMember(v2, Chars("name"), String(t.name))
            v4 == WithMember(v3, Chars("total_size"), UIntOf(t.total_size))
            v5 == WithMember(v4, Chars("chunk_size"), UIntOf(t.chunk_size))
            v6 == WithMember(v5, Chars("completed"), Bool(completed))
<1>1. MetaOf(t, completed) = v6
  BY DEF MetaOf, MetaValue, MetaMembers
<1>2. /\ v1 = Object(v1.map) /\ DOMAIN v1.map = {Chars("upload_id")}
      /\ v1.map[Chars("upload_id")] = String(UploadId)
  BY AssignedFirst
<1>. HIDE DEF v1
<1>3. Assigns(v1, v2, Chars("md5"), String(t.md5))
  BY <1>2, Assigned
<1>. HIDE DEF v2
<1>4. Assigns(v2, v3, Chars("name"), String(t.name))
  BY <1>3, Assigned DEF Assigns
<1>. HIDE DEF v3
<1>5. Assigns(v3, v4, Chars("total_size"), UIntOf(t.total_size))
  BY <1>4, Assigned DEF Assigns
<1>. HIDE DEF v4
<1>6. Assigns(v4, v5, Chars("chunk_size"), UIntOf(t.chunk_size))
  BY <1>5, Assigned DEF Assigns
<1>. HIDE DEF v5
<1>7. Assigns(v5, v6, Chars("completed"), Bool(completed))
  BY <1>6, Assigned DEF Assigns
<1>. HIDE DEF v6
<1>8. /\ DOMAIN v2.map = {Chars("upload_id"), Chars("md5")}
      /\ DOMAIN v3.map = {Chars("upload_id"), Chars("md5"), Chars("name")}
      /\ DOMAIN v4.map = {Chars("upload_id"), Chars("md5"), Chars("name"), Chars("total_size")}
      /\ DOMAIN v5.map = Names \ {Chars("completed")}
      /\ DOMAIN v6.map = Names
  BY <1>2, <1>3, <1>4, <1>5, <1>6, <1>7, NamesDiffer DEF Assigns, Names
<1>9. /\ v6.map[Chars("upload_id")] = String(UploadId)
      /\ v6.map[Chars("md5")] = String(t.md5) /\ v6.map[Chars("name")] = String(t.name)
      /\ v6.map[Chars("total_size")] = UIntOf(t.total_size)
      /\ v6.map[Chars("chunk_size")] = UIntOf(t.chunk_size)
      /\ v6.map[Chars("completed")] = Bool(completed)
  BY <1>2, <1>3, <1>4, <1>5, <1>6, <1>7, <1>8, NamesDiffer DEF Assigns, Names
<1>10. v6 = Object(v6.map) /\ v6.map = [x \in Names |-> v6.map[x]]
  BY <1>7, <1>8 DEF Assigns
<1>. QED  BY <1>1, <1>9, <1>10 DEF HasMembers

\* The same members, as they are read back: small numbers become ints.
LEMMA ReadMembers ==
  ASSUME NEW t, NEW completed
  PROVE  HasMembers(AsRead(MetaOf(t, completed)), t, completed,
                    Integer(t.total_size), Integer(t.chunk_size))
<1>. DEFINE v == MetaOf(t, completed)
            w == AsRead(v)
<1>1. HasMembers(v, t, completed, UIntOf(t.total_size), UIntOf(t.chunk_size))
  BY WrittenMembers
<1>. HIDE DEF v
<1>2. w.map = [k \in Names |->
          IF v.map[k].type = "uintValue" THEN Integer(v.map[k].number[1]) ELSE v.map[k]]
  <2>1. DOMAIN v.map = Names
    BY <1>1 DEF HasMembers
  <2>. QED  BY <2>1 DEF AsRead, Object
<1>3. w = Object(w.map)
  BY DEF AsRead, Object
<1>. HIDE DEF w
<1>4. \A n : UIntOf(n).type = "uintValue" /\ UIntOf(n).number[1] = n
  BY DEF UIntOf
<1>5. \A s : String(s).type # "uintValue" /\ Bool(s).type # "uintValue"
  BY DEF String, Bool
<1>6. Chars("total_size") \in Names /\ Chars("chunk_size") \in Names
  BY DEF Names
<1>7. /\ w.map[Chars("total_size")] = Integer(t.total_size)
      /\ w.map[Chars("chunk_size")] = Integer(t.chunk_size)
  <2>1. /\ v.map[Chars("total_size")] = UIntOf(t.total_size)
        /\ v.map[Chars("chunk_size")] = UIntOf(t.chunk_size)
    BY <1>1 DEF HasMembers
  <2>. QED  BY <2>1, <1>2, <1>4, <1>6
<1>8. \A k \in {Chars("upload_id"), Chars("md5"), Chars("name"), Chars("completed")} :
         w.map[k] = v.map[k]
  <2>1. \A k \in {Chars("upload_id"), Chars("md5"), Chars("name"), Chars("completed")} :
          k \in Names /\ v.map[k].type # "uintValue"
    <3>1. /\ v.map[Chars("upload_id")] = String(UploadId) /\ v.map[Chars("md5")] = String(t.md5)
          /\ v.map[Chars("name")] = String(t.name) /\ v.map[Chars("completed")] = Bool(completed)
      BY <1>1 DEF HasMembers
    <3>2. \A k \in {Chars("upload_id"), Chars("md5"), Chars("name"), Chars("completed")} : k \in Names
      BY DEF Names
    <3>. QED  BY <3>1, <3>2, <1>5
  <2>. QED  BY <1>2, <2>1
<1>9. w.map = [x \in Names |-> w.map[x]]
  BY <1>2
<1>. QED  BY <1>1, <1>3, <1>7, <1>8, <1>9 DEF HasMembers, v, w

(* Metadata that the last chunk completes are those of the finished task.  *)
LEMMA Completed ==
  ASSUME NEW t, NEW completed
  PROVE  WithMember(AsRead(MetaOf(t, completed)), Chars("completed"), Bool(TRUE))
           = AsRead(MetaOf(t, TRUE))
<1>. DEFINE v == AsRead(MetaOf(t, completed))
            w == AsRead(MetaOf(t, TRUE))
<1>1. /\ HasMembers(v, t, completed, Integer(t.total_size), Integer(t.chunk_size))
      /\ HasMembers(w, t, TRUE, Integer(t.total_size), Integer(t.chunk_size))
  BY ReadMembers
<1>. HIDE DEF v, w
<1>2. Members(v) = v.map
  <2>1. v.type = "objectValue"
    BY <1>1 DEF HasMembers, Object
  <2>. QED  BY <2>1 DEF Members
<1>3. DOMAIN v.map = Names /\ Names \cup {Chars("completed")} = Names
  BY <1>1 DEF HasMembers, Names
<1>4. WithMember(v, Chars("completed"), Bool(TRUE))
        = Object([n \in Names |-> IF n = Chars("completed") THEN Bool(TRUE) ELSE v.map[n]])
  BY <1>2, <1>3 DEF WithMember
<1>5. ASSUME NEW n \in Names
      PROVE  (IF n = Chars("completed") THEN Bool(TRUE) ELSE v.map[n]) = w.map[n]
  BY <1>1, <1>5 DEF HasMembers, Names
<1>6. [n \in Names |-> IF n = Chars("completed") THEN Bool(TRUE) ELSE v.map[n]] = w.map
  <2>1. w.map = [x \in Names |-> w.map[x]]
    BY <1>1 DEF HasMembers
  <2>. QED  BY <1>5, <2>1
<1>7. w = Object(w.map)
  BY <1>1 DEF HasMembers
<1>. QED  BY <1>4, <1>6, <1>7 DEF v, w

(* What is read of the metadata of a task is the task and nothing else.    *)
LEMMA ReadTask ==
  ASSUME NEW t, NEW completed, NEW w, w = AsRead(MetaOf(t, completed)),
         t.total_size \in 0 .. MaxUInt64, t.chunk_size \in 0 .. MaxUInt64
  PROVE  /\ AsString(Get(w, "md5")) = Got(t.md5) /\ AsString(Get(w, "name")) = Got(t.name)
         /\ AsUInt64(Get(w, "total_size")) = {Got(t.total_size)}
         /\ AsUInt64(Get(w, "chunk_size")) = {Got(t.chunk_size)}
         /\ AsBool(Get(w, "completed")) = Got(completed)
         /\ \A q : IsSameTask(w, q) <=>
                     q.md5 = t.md5 /\ q.name = t.name /\ q.total_size = t.total_size
<1>1. HasMembers(w, t, completed, Integer(t.total_size), Integer(t.chunk_size))
  BY ReadMembers
<1>2. ASSUME NEW s, Chars(s) \in Names PROVE Get(w, s) = w.map[Chars(s)]
  <2>1. w.type = "objectValue" /\ DOMAIN w.map = Names
    BY <1>1 DEF HasMembers, Object
  <2>. QED  BY <1>2, <2>1 DEF Get, Member, Members
<1>3. /\ Get(w, "md5") = String(t.md5) /\ Get(w, "name") = String(t.name)
      /\ Get(w, "total_size") = Integer(t.total_size) /\ Get(w, "chunk_size") = Integer(t.chunk_size)
      /\ Get(w, "completed") = Bool(completed)
  <2>1. /\ w.map[Chars("md5")] = String(t.md5) /\ w.map[Chars("name")] = String(t.name)
        /\ w.map[Chars("total_size")] = Integer(t.total_size)
        /\ w.map[Chars("chunk_size")] = Integer(t.chunk_size)
        /\ w.map[Chars("completed")] = Bool(completed)
    BY <1>1 DEF HasMembers
  <2>2. /\ Chars("md5") \in Names /\ Chars("name") \in Names /\ Chars("total_size") \in Names
        /\ Chars("chunk_size") \in Names /\ Chars("completed") \in Names
    BY DEF Names
  <2>. QED  BY <2>1, <2>2, <1>2
<1>4. /\ AsString(Get(w, "md5")) = Got(t.md5) /\ AsString(Get(w, "name")) = Got(t.name)
      /\ AsUInt64(Get(w, "total_size")) = {Got(t.total_size)}
      /\ AsUInt64(Get(w, "chunk_size")) = {Got(t.chunk_size)}
      /\ AsBool(Get(w, "completed")) = Got(completed)
  BY <1>3, PayloadConverts, IntegerConverts
<1>5. \A a, b : Got(a) = Got(b) <=> a = b
  BY GotFacts
<1>. HIDE DEF Get
<1>6. ASSUME NEW q
      PROVE  IsSameTask(w, q) <=> q.md5 = t.md5 /\ q.name = t.name /\ q.total_size = t.total_size
  BY <1>4, <1>5, Zenon DEF IsSameTask
<1>. QED  BY <1>4, <1>6

\* The member "name" of such an object is the name of the file.
LEMMA NameOf ==
  ASSUME NEW v, NEW t, NEW completed, NEW size, NEW chunk,
         HasMembers(v, t, completed, size, chunk)
  PROVE  Get(v, "name").string = t.name
<1>1. v.type = "objectValue" /\ Chars("name") \in DOMAIN v.map
  BY DEF HasMembers, Object, Names
<1>2. Get(v, "name") = String(t.name)
  BY <1>1 DEF Get, Member, Members, HasMembers
<1>. QED  BY <1>2, PayloadConverts

\* The same of the metadata of a task.
LEMMA NameOfMeta ==
  ASSUME NEW t, NEW completed
  PROVE  /\ Get(MetaOf(t, completed), "name").string = t.name
         /\ Get(AsRead(MetaOf(t, completed)), "name").string = t.name
BY WrittenMembers, ReadMembers, NameOf

-----------------------------------------------------------------------------
(* Requests.                                                               *)

(* The fields that both handlers convert, and the query they make of them. *)
Common == {"upload_id", "md5", "name", "total_size"}
Query(r, number) == [id |-> r.upload_id.value, md5 |-> r.md5.value, name |-> r.name.value,
                     total_size |-> r.total_size.value, number |-> r[number].value]

\* A request that is not malformed is understood as what it means.
LEMMA Understood ==
  ASSUME NEW root, NEW r, NEW number \in {"chunk_size", "offset"},
         \A k \in Common \cup {number} :
            /\ IsJson(Get(root, k)) /\ Allowed(k, Get(root, k))
            /\ StandsFor(k, Get(root, k), r[k].value)
  PROVE  /\ ~ ConversionThrows(root, number)
         /\ Converted(root, number) = {Query(r, number)}
         /\ ValidFields(root, number, Query(r, number))
         /\ r.total_size.value \in 0 .. MaxUInt64 /\ r[number].value \in 0 .. MaxUInt64
<1>. DEFINE v(k) == Get(root, k)
<1>1. ASSUME NEW k \in {"total_size", number}
      PROVE  /\ AsUInt64(v(k)) = {Got(r[k].value)} /\ IsNonNegativeInteger(v(k))
             /\ r[k].value \in 0 .. MaxUInt64
  <2>1. IsJson(v(k)) /\ IsUInt64(v(k)) /\ Trunc(v(k)) = r[k].value
    BY DEF Allowed, StandsFor, Common
  <2>2. /\ Trunc(v(k)) \in Nat /\ Trunc(v(k)) <= MaxUInt64
        /\ AsUInt64(v(k)) = {Got(Trunc(v(k)))} /\ IsNonNegativeInteger(v(k))
    BY <2>1, SizeConverts
  <2>. QED  BY <2>1, <2>2, Widths
<1>2. \A k \in {"upload_id", "md5", "name"} :
         ~ AsString(v(k)).thrown /\ AsString(v(k)).value = r[k].value
  BY DEF Allowed, StandsFor, Common
<1>3. IsSafeUploadId(r.upload_id.value) /\ r.md5.value # <<>> /\ FileName(r.name.value) # <<>>
  <2>1. /\ IsSafeUploadId(AsString(v("upload_id")).value)
        /\ AsString(v("md5")).value # <<>> /\ FileName(AsString(v("name")).value) # <<>>
    BY DEF Allowed, Common
  <2>. QED  BY <1>2, <2>1
<1>. HIDE DEF v
<1>4. ~ ConversionThrows(root, number)
  BY <1>1, <1>2, GotFacts DEF ConversionThrows, v
<1>5. /\ Results(AsUInt64(v("total_size"))) = {r["total_size"].value}
      /\ Results(AsUInt64(v(number))) = {r[number].value}
  BY <1>1, GotFacts
<1>6. Converted(root, number) = {Query(r, number)}
  BY <1>2, <1>5 DEF Converted, Query, v
<1>7. ValidFields(root, number, Query(r, number))
  BY <1>1, <1>3 DEF ValidFields, Query, v
<1>. QED  BY <1>1, <1>4, <1>6, <1>7

(* A request that passes the checks has no member that is not allowed.     *)
LEMMA Checked ==
  ASSUME NEW root, NEW number \in {"chunk_size", "offset"},
         \A k \in Common \cup {number} : IsJson(Get(root, k)),
         ~ ConversionThrows(root, number),
         NEW q \in Converted(root, number), ValidFields(root, number, q)
  PROVE  /\ \A k \in Common : Allowed(k, Get(root, k))
         /\ IsUInt64(Get(root, number)) /\ q.number = Trunc(Get(root, number))
<1>. DEFINE v(k) == Get(root, k)
<1>1. /\ IsUInt64(v("total_size")) /\ IsUInt64(v(number))
  BY CheckRefuses DEF ValidFields, Common
<1>2. AsUInt64(v(number)) = {Got(Trunc(v(number)))}
  BY <1>1, SizeConverts
<1>3. PICK t \in Results(AsUInt64(v("total_size"))), n \in Results(AsUInt64(v(number))) :
        q = [id |-> AsString(v("upload_id")).value, md5 |-> AsString(v("md5")).value,
             name |-> AsString(v("name")).value, total_size |-> t, number |-> n]
  BY DEF Converted
<1>4. /\ q.number = Trunc(v(number)) /\ q.id = AsString(v("upload_id")).value
      /\ q.md5 = AsString(v("md5")).value /\ q.name = AsString(v("name")).value
  <2>1. n \in {Trunc(v(number))}
    <3>1. Results({Got(Trunc(v(number)))}) = {Trunc(v(number))}
      BY GotFacts
    <3>. QED  BY <1>2, <1>3, <3>1
  <2>. QED  BY <1>3, <2>1
<1>5. \A k \in {"upload_id", "md5", "name"} : ~ AsString(v(k)).thrown
  BY DEF ConversionThrows
<1>6. ASSUME NEW k \in Common PROVE Allowed(k, v(k))
  <2>. HIDE DEF v
  <2>1. CASE k = "upload_id"
    BY <1>4, <1>5, <2>1 DEF Allowed, ValidFields
  <2>2. CASE k = "md5"
    BY <1>4, <1>5, <2>2 DEF Allowed, ValidFields
  <2>3. CASE k = "name"
    BY <1>4, <1>5, <2>3 DEF Allowed, ValidFields
  <2>4. CASE k = "total_size"
    BY <1>1, <2>4 DEF Allowed
  <2>. QED  BY <2>1, <2>2, <2>3, <2>4 DEF Common
<1>. QED  BY <1>1, <1>4, <1>6

\* What is assumed of a request and the reader, for the request at hand.
LEMMA ReadRequest ==
  ASSUME NEW x \in ParsedSyncs \cup ParsedUploads
  PROVE  /\ x.parsed.result \in {"ok", "error", "throws"}
         /\ x.parsed.result = "ok" /\ IsObjectLike(x.parsed.value) =>
              /\ \A k \in DOMAIN x.request : IsJson(Get(x.parsed.value, k))
              /\ IsMalformed(x.request) =>
                   \E k \in DOMAIN x.request : ~ Allowed(k, Get(x.parsed.value, k))
         /\ ~ IsMalformed(x.request) =>
              /\ x.parsed.result = "ok" /\ IsObjectLike(x.parsed.value)
              /\ x.request.upload_id.value = UploadId
              /\ \A k \in DOMAIN x.request :
                   /\ Allowed(k, Get(x.parsed.value, k))
                   /\ StandsFor(k, Get(x.parsed.value, k), x.request[k].value)
BY RequestsAssumption

\* A parsed HandleSyncFile request has the fields of one.
LEMMA SyncShape ==
  ASSUME NEW x \in ParsedSyncs
  PROVE  /\ x.request \in SyncRequests /\ DOMAIN x.request = SyncFields /\ IsSync(x.request)
         /\ SyncFields = Common \cup {"chunk_size"}
<1>1. x.request \in SyncRequests
  BY DEF ParsedSyncs
<1>2. DOMAIN x.request = SyncFields
  BY <1>1, RequestsAssumption
<1>. QED  BY <1>1, <1>2 DEF IsSync, SyncFields, Common

\* A parsed HandleUploadFile request has the fields of one.
LEMMA UploadShape ==
  ASSUME NEW x \in ParsedUploads
  PROVE  /\ x.request \in UploadRequests /\ DOMAIN x.request = UploadFields /\ ~ IsSync(x.request)
         /\ UploadFields = Common \cup {"offset", "is_last", "data"}
<1>1. x.request \in UploadRequests
  BY DEF ParsedUploads
<1>2. DOMAIN x.request = UploadFields
  BY <1>1, RequestsAssumption
<1>. QED  BY <1>1, <1>2 DEF IsSync, UploadFields, Common

(* The answer of a handler that has nothing to do with the task.           *)
Declines(r) == /\ \E a \in {ErrorJson, NoAnswer} : Reply(r, a)
               /\ up' \in BOOLEAN /\ UNCHANGED disk

\* A request is declined with Error_Json or no answer, and with the disk as it is.
LEMMA Declined ==
  ASSUME NEW r, up \in BOOLEAN,
         Refuse(r, ErrorJson) \/ Refuse(r, NoAnswer) \/ Terminates(r)
  PROVE  Declines(r)
BY DEF Declines, Refuse, Terminates, disk

(* The size of a chunk that is allowed is positive.                        *)
LEMMA PositiveChunk ==
  ASSUME NEW v, NEW x, Allowed("chunk_size", v), StandsFor("chunk_size", v, x)
  PROVE  x > 0
BY DEF Allowed, StandsFor

(* HandleSyncFile acts on what its request means.                          *)
LEMMA SyncHandled ==
  ASSUME up \in BOOLEAN, NEW x \in ParsedSyncs, NEW m,
         HandleSyncFile(x.request, x.parsed, m)
  PROVE  LET r == x.request
         IN  \/ IsMalformed(r) /\ Declines(r)
             \/ /\ ~ IsMalformed(r) /\ SyncTask(r, Query(r, "chunk_size"), m)
                /\ TaskOf(r) \in Tasks /\ r.total_size.value \in 0 .. MaxUInt64
                /\ r.chunk_size.value \in 0 .. MaxUInt64 /\ r.upload_id.value = UploadId
<1>. DEFINE r == x.request
            p == x.parsed
            root == p.value
            throws == ~ IsObjectLike(root) \/ ConversionThrows(root, "chunk_size")
<1>1. r \in SyncRequests /\ DOMAIN r = Common \cup {"chunk_size"}
  BY SyncShape
<1>2. CASE IsMalformed(r)
  <2>1. p.result = "ok" /\ ~ throws =>
          \A q \in Converted(root, "chunk_size") : ~ (ValidFields(root, "chunk_size", q) /\ q.number > 0)
    <3>. SUFFICES ASSUME p.result = "ok", ~ throws, NEW q \in Converted(root, "chunk_size"),
                         ValidFields(root, "chunk_size", q), q.number > 0
                  PROVE  FALSE
      OBVIOUS
    <3>1. /\ \A k \in DOMAIN r : IsJson(Get(root, k))
          /\ \E k \in DOMAIN r : ~ Allowed(k, Get(root, k))
      BY <1>2, ReadRequest
    <3>2. /\ \A k \in Common : Allowed(k, Get(root, k))
          /\ IsUInt64(Get(root, "chunk_size")) /\ q.number = Trunc(Get(root, "chunk_size"))
      BY <1>1, <3>1, Checked
    <3>3. Allowed("chunk_size", Get(root, "chunk_size"))
      BY <3>2 DEF Allowed
    <3>. QED  BY <1>1, <3>1, <3>2, <3>3
  <2>2. Refuse(r, ErrorJson) \/ Terminates(r)
    BY <2>1 DEF HandleSyncFile
  <2>. QED  BY <1>2, <2>2, Declined
<1>3. CASE ~ IsMalformed(r)
  <2>1. /\ p.result = "ok" /\ IsObjectLike(root)
        /\ \A k \in DOMAIN r : /\ IsJson(Get(root, k)) /\ Allowed(k, Get(root, k))
                               /\ StandsFor(k, Get(root, k), r[k].value)
    BY <1>3, ReadRequest
  <2>2. /\ ~ ConversionThrows(root, "chunk_size")
        /\ Converted(root, "chunk_size") = {Query(r, "chunk_size")}
        /\ ValidFields(root, "chunk_size", Query(r, "chunk_size"))
        /\ r.total_size.value \in 0 .. MaxUInt64 /\ r["chunk_size"].value \in 0 .. MaxUInt64
    BY <1>1, <2>1, Understood
  <2>3. Query(r, "chunk_size").number > 0
    <3>1. r["chunk_size"].value > 0
      BY <1>1, <2>1, PositiveChunk
    <3>. QED  BY <3>1 DEF Query
  <2>4. SyncTask(r, Query(r, "chunk_size"), m)
    BY <2>1, <2>2, <2>3 DEF HandleSyncFile
  <2>5. TaskOf(r) \in Tasks /\ r.upload_id.value = UploadId
    BY <1>1, <1>3, ReadRequest DEF Tasks
  <2>. QED  BY <1>3, <2>2, <2>4, <2>5
<1>. QED  BY <1>2, <1>3

(* Data that are allowed, and only those, are decoded, to what they stand  *)
(* for.                                                                    *)
LEMMA DataDecoded ==
  ASSUME NEW v, NEW x
  PROVE  /\ ~ AsString(v).thrown /\ Decoded(AsString(v).value).ok => Allowed("data", v)
         /\ StandsFor("data", v, x) =>
              /\ Decoded(AsString(v).value) = [ok |-> TRUE, data |-> x]
              /\ x \in Seq(Byte)
<1>. DEFINE t == Codes(AsString(v).value)
<1>1. Decoded(AsString(v).value) = Base64Decode(t)
  BY DEF Decoded
<1>. HIDE DEF t
<1>2. ASSUME ~ Valid(t) PROVE ~ Base64Decode(t).ok
  BY <1>2 DEF Base64Decode, Rejected
<1>3. ~ AsString(v).thrown /\ Valid(t) => Allowed("data", v)
  BY DEF Allowed, t
<1>4. ASSUME StandsFor("data", v, x)
      PROVE  Base64Decode(t) = [ok |-> TRUE, data |-> x] /\ x \in Seq(Byte)
  <2>1. x \in Seq(Byte) /\ IsEncoded(t, x)
    BY <1>4 DEF StandsFor, t
  <2>. QED  BY <2>1, RoundTrip DEF IsEncoded
<1>. QED  BY <1>1, <1>2, <1>3, <1>4

(* The chunk of a request ends within the file, and is the last if its end *)
(* is that of the file.                                                    *)
Fits(r) == /\ InRange(Query(r, "offset"), Len(r.data.value))
           /\ r.is_last.value <=> EndOf(r) = r.total_size.value

(* HandleUploadFile acts on what its request means.                        *)
LEMMA UploadHandled ==
  ASSUME up \in BOOLEAN, NEW x \in ParsedUploads, NEW m,
         HandleUploadFile(x.request, x.parsed, m)
  PROVE  LET r == x.request
         IN  \/ IsMalformed(r) /\ Declines(r)
             \/ /\ ~ IsMalformed(r)
                /\ \/ ~ Fits(r) /\ Refuse(r, ErrorJson)
                   \/ Fits(r) /\ UploadTask(r, Query(r, "offset"), r.data.value, r.is_last.value, m)
                /\ r.total_size.value \in 0 .. MaxUInt64 /\ r.offset.value \in 0 .. MaxUInt64
                /\ r.data.value \in Seq(Byte)
<1>. DEFINE r == x.request
            p == x.parsed
            root == p.value
            data == AsString(Get(root, "data"))
            decoded == Decoded(data.value)
            isLast == AsBool(Get(root, "is_last"))
            dataThrows == ~ IsObjectLike(root) \/ data.thrown
            throws == ConversionThrows(root, "offset") \/ isLast.thrown
            Accepted(q) == /\ ValidFields(root, "offset", q) /\ InRange(q, Len(decoded.data))
                           /\ isLast.value <=> q.number + Len(decoded.data) = q.total_size
<1>1. r \in UploadRequests /\ DOMAIN r = Common \cup {"offset", "is_last", "data"}
  BY UploadShape
<1>2. \/ Refuse(r, ErrorJson) \/ Refuse(r, NoAnswer) \/ Terminates(r)
      \/ /\ p.result = "ok" /\ ~ dataThrows /\ decoded.ok /\ ~ throws
         /\ \E q \in Converted(root, "offset") :
              /\ Accepted(q)
              /\ UploadTask(r, q, decoded.data, isLast.value, m)
  BY DEF HandleUploadFile
<1>3. CASE IsMalformed(r)
  <2>1. ~ \E q \in Converted(root, "offset") :
            p.result = "ok" /\ ~ dataThrows /\ decoded.ok /\ ~ throws /\ Accepted(q)
    <3>. SUFFICES ASSUME p.result = "ok", ~ dataThrows, decoded.ok, ~ throws,
                         NEW q \in Converted(root, "offset"), ValidFields(root, "offset", q)
                  PROVE  FALSE
      OBVIOUS
    <3>1. /\ \A k \in DOMAIN r : IsJson(Get(root, k))
          /\ \E k \in DOMAIN r : ~ Allowed(k, Get(root, k))
      BY <1>3, ReadRequest
    <3>2. /\ \A k \in Common : Allowed(k, Get(root, k))
          /\ IsUInt64(Get(root, "offset")) /\ q.number = Trunc(Get(root, "offset"))
      BY <1>1, <3>1, Checked
    <3>3. Allowed("offset", Get(root, "offset")) /\ Allowed("is_last", Get(root, "is_last"))
      BY <3>2 DEF Allowed
    <3>4. Allowed("data", Get(root, "data"))
      BY DataDecoded
    <3>. QED  BY <1>1, <3>1, <3>2, <3>3, <3>4
  <2>2. Refuse(r, ErrorJson) \/ Refuse(r, NoAnswer) \/ Terminates(r)
    BY <1>2, <2>1
  <2>. QED  BY <1>3, <2>2, Declined
<1>4. CASE ~ IsMalformed(r)
  <2>1. /\ p.result = "ok" /\ IsObjectLike(root)
        /\ \A k \in DOMAIN r : /\ IsJson(Get(root, k)) /\ Allowed(k, Get(root, k))
                               /\ StandsFor(k, Get(root, k), r[k].value)
    BY <1>4, ReadRequest
  <2>2. /\ ~ ConversionThrows(root, "offset")
        /\ Converted(root, "offset") = {Query(r, "offset")}
        /\ ValidFields(root, "offset", Query(r, "offset"))
        /\ r.total_size.value \in 0 .. MaxUInt64 /\ r["offset"].value \in 0 .. MaxUInt64
    BY <1>1, <2>1, Understood
  <2>3. decoded = [ok |-> TRUE, data |-> r.data.value] /\ r.data.value \in Seq(Byte)
    BY <1>1, <2>1, DataDecoded
  <2>4. ~ data.thrown /\ ~ isLast.thrown /\ isLast.value = r.is_last.value
    BY <1>1, <2>1 DEF Allowed, StandsFor
  <2>5. decoded.ok = TRUE /\ decoded.data = r.data.value
    BY <2>3
  <2>6. Query(r, "offset").number = r.offset.value /\ Query(r, "offset").total_size = r.total_size.value
    BY DEF Query
  <2>7. Accepted(Query(r, "offset")) <=> Fits(r)
    BY <2>2, <2>4, <2>5, <2>6 DEF Fits, EndOf
  <2>8. \/ ~ Fits(r) /\ Refuse(r, ErrorJson)
        \/ Fits(r) /\ UploadTask(r, Query(r, "offset"), r.data.value, r.is_last.value, m)
    <3>1. \/ ~ Accepted(Query(r, "offset")) /\ Refuse(r, ErrorJson)
          \/ /\ Accepted(Query(r, "offset"))
             /\ UploadTask(r, Query(r, "offset"), decoded.data, isLast.value, m)
      BY <2>1, <2>2, <2>4, <2>5 DEF HandleUploadFile
    <3>. HIDE DEF Accepted
    <3>. QED  BY <2>4, <2>5, <2>7, <3>1
  <2>. QED  BY <1>4, <2>2, <2>3, <2>8
<1>. QED  BY <1>3, <1>4

-----------------------------------------------------------------------------
(* The inductive invariant.                                                *)

IsDone == final # NoFile

\* A text of the metadata of t: all that was written, or what a crash left.
Keeps(text, t, completed) ==
    LET w == Write(MetaOf(t, completed))
    IN  \/ text = w \/ text = Front(w)
        \/ t.name \in TornTasks /\ \E k \in 0 .. Len(w) - 2 : text = SubSeq(w, 1, k)

MetaKept == Keeps(meta, task, IsDone)

\* What is stored is a part of the file that the task has room for.
PartKept == part # NoFile =>
    \E n \in 0 .. Len(FileBytes) : n <= task.total_size /\ part = SubSeq(FileBytes, 1, n)

\* A published file is complete, and nothing is left beside it.
FinalKept == IsDone =>
    /\ part = NoFile /\ task.total_size <= Len(FileBytes)
    /\ final = [name |-> FileName(task.name), bytes |-> SubSeq(FileBytes, 1, task.total_size)]

IInv ==
    /\ up \in BOOLEAN
    /\ task = NoFile => meta = NoFile /\ part = NoFile /\ final = NoFile
    /\ task # NoFile =>
         /\ task \in Tasks
         /\ task.total_size \in 0 .. MaxUInt64 /\ task.chunk_size \in 0 .. MaxUInt64
         /\ MetaKept /\ PartKept /\ FinalKept

(* What the library does with the text of a task.                          *)
LEMMA TextFacts ==
  ASSUME NEW t \in Tasks, NEW completed \in BOOLEAN, NEW w, w = Write(MetaOf(t, completed))
  PROVE  /\ Reads(w, AsRead(MetaOf(t, completed))) /\ Reads(Front(w), AsRead(MetaOf(t, completed)))
         /\ Write(AsRead(MetaOf(t, completed))) = w
         /\ t.name \in TornTasks =>
              \A k \in 0 .. Len(w) - 2 : Read(SubSeq(w, 1, k)).result = "error"
         /\ Len(w) \in Nat \ {0} /\ SubSeq(w, 1, Len(w)) = w
         /\ Front(w) = SubSeq(w, 1, Len(w) - 1)
         /\ w # NoFile /\ \A k \in 0 .. Len(w) : SubSeq(w, 1, k) # NoFile
<1>1. MetaOf(t, completed) \in Metadata
  BY DEF Metadata
<1>2. w \in Seq(STRING) \ {<<>>}
  BY <1>1, LibraryAssumption
<1>3. Len(w) \in Nat \ {0} /\ SubSeq(w, 1, Len(w)) = w
  BY <1>2
<1>4. \A k \in 0 .. Len(w) : SubSeq(w, 1, k) \in Seq(STRING)
  BY <1>2, <1>3
<1>5. w # NoFile /\ \A k \in 0 .. Len(w) : SubSeq(w, 1, k) # NoFile
  BY <1>2, <1>4, NoFileAssumption
<1>6. Front(w) = SubSeq(w, 1, Len(w) - 1)
  BY DEF Front
<1>7. /\ Reads(w, AsRead(MetaOf(t, completed))) /\ Reads(Front(w), AsRead(MetaOf(t, completed)))
      /\ Write(AsRead(MetaOf(t, completed))) = w
      /\ t.name \in TornTasks =>
              \A k \in 0 .. Len(w) - 2 : Read(SubSeq(w, 1, k)).result = "error"
  BY <1>1, LibraryAssumption, NameOfMeta
<1>. QED  BY <1>3, <1>5, <1>6, <1>7

(* The metadata are read back as written, or found to be torn.             *)
LEMMA ReadBack ==
  ASSUME IInv, task # NoFile
  PROVE  /\ meta # NoFile
         /\ \/ /\ Intact /\ ReadJsonFile.result = "ok"
               /\ ReadJsonFile.value = AsRead(MetaOf(task, IsDone))
            \/ ~ Intact /\ ReadJsonFile.result = "error"
<1>1. task \in Tasks /\ MetaKept
  BY DEF IInv
<1>2. \A c \in BOOLEAN : Written(c) = Write(MetaOf(task, c))
  BY DEF Written
<1>3. IsDone \in BOOLEAN
  BY DEF IsDone
<1>. DEFINE w == Written(IsDone)
<1>4. w = Write(MetaOf(task, IsDone))
  BY DEF Written
<1>5. /\ Reads(w, AsRead(MetaOf(task, IsDone))) /\ Reads(Front(w), AsRead(MetaOf(task, IsDone)))
      /\ task.name \in TornTasks =>
              \A k \in 0 .. Len(w) - 2 : Read(SubSeq(w, 1, k)).result = "error"
      /\ w # NoFile /\ Front(w) # NoFile
      /\ \A k \in 0 .. Len(w) - 2 : SubSeq(w, 1, k) # NoFile
  <2>. HIDE DEF w
  <2>. QED  BY <1>1, <1>3, <1>4, TextFacts, SMTT(30)
<1>6. CASE meta = w \/ meta = Front(w)
  <2>1. Intact
    BY <1>3, <1>6 DEF Intact
  <2>2. Reads(meta, AsRead(MetaOf(task, IsDone))) /\ meta # NoFile
    BY <1>5, <1>6
  <2>. QED  BY <2>1, <2>2 DEF ReadJsonFile, Reads
<1>7. CASE /\ task.name \in TornTasks
           /\ \E k \in 0 .. Len(w) - 2 : meta = SubSeq(w, 1, k)
  <2>1. Read(meta).result = "error" /\ meta # NoFile
    BY <1>5, <1>7
  <2>2. ASSUME Intact PROVE FALSE
    <3>1. PICK c \in BOOLEAN : meta = Written(c) \/ meta = Front(Written(c))
      BY <2>2 DEF Intact
    <3>2. Reads(meta, AsRead(MetaOf(task, c)))
      BY <1>1, <1>2, <3>1, TextFacts
    <3>. QED  BY <2>1, <3>2 DEF Reads
  <2>. QED  BY <2>1, <2>2 DEF ReadJsonFile
<1>. QED  BY <1>1, <1>6, <1>7 DEF MetaKept, Keeps, Written

(* How far an upload of the task is, for a query that means the task.      *)
LEMMA ProgressOfTask ==
  ASSUME IInv, task # NoFile, NEW q, q.name = task.name, q.total_size = task.total_size
  PROVE  /\ Confirmed \in 0 .. task.total_size
         /\ Progress(q) = IF IsDone THEN Answer("Success", task.total_size, TRUE)
                                    ELSE Answer("Success", Confirmed, FALSE)
<1>1. /\ task.total_size \in Nat /\ PartKept /\ FinalKept
  BY Widths DEF IInv
<1>2. Len(FileBytes) \in Nat /\ FileBytes \in Seq(Byte)
  BY FileAssumption
<1>3. Confirmed \in 0 .. task.total_size
  <2>1. CASE part = NoFile
    BY <1>1, <2>1 DEF Confirmed
  <2>2. CASE part # NoFile
    <3>1. PICK n \in 0 .. Len(FileBytes) : n <= task.total_size /\ part = SubSeq(FileBytes, 1, n)
      BY <1>1, <2>2 DEF PartKept
    <3>2. Len(part) = n
      BY <1>2, <3>1
    <3>. QED  BY <1>1, <2>2, <3>1, <3>2 DEF Confirmed
  <2>. QED  BY <2>1, <2>2
<1>4. CASE IsDone
  <2>1. final.name = FileName(task.name) /\ final.bytes = SubSeq(FileBytes, 1, task.total_size)
    BY <1>1, <1>4 DEF FinalKept
  <2>2. Len(final.bytes) = task.total_size
    BY <1>1, <1>2, <1>4, <2>1 DEF FinalKept
  <2>3. Published(q)
    BY <1>4, <2>1 DEF Published, IsDone
  <2>. QED  BY <1>3, <1>4, <2>2, <2>3 DEF Progress
<1>5. CASE ~ IsDone
  <2>1. ~ Published(q)
    BY <1>5 DEF Published, IsDone
  <2>2. ~ (Confirmed > q.total_size)
    BY <1>1, <1>3
  <2>. QED  BY <1>3, <1>5, <2>1, <2>2 DEF Progress
<1>. QED  BY <1>3, <1>4, <1>5

(* WriteJsonFile leaves a text of the metadata, or what a crash leaves.    *)
LEMMA Saved ==
  ASSUME NEW r, NEW v, NEW a, WriteJsonFile(r, v, a), up \in BOOLEAN,
         NEW t \in Tasks, NEW completed \in BOOLEAN,
         Write(v) = Write(MetaOf(t, completed)), Get(v, "name").string = t.name
  PROVE  /\ Keeps(meta', t, completed) /\ meta' # NoFile /\ up' \in BOOLEAN
         /\ Reply(r, a) \/ Reply(r, Killed)
<1>. DEFINE w == Write(MetaOf(t, completed))
<1>1. /\ Len(w) \in Nat \ {0} /\ SubSeq(w, 1, Len(w)) = w
      /\ Front(w) = SubSeq(w, 1, Len(w) - 1)
      /\ w # NoFile /\ \A k \in 0 .. Len(w) : SubSeq(w, 1, k) # NoFile
  BY TextFacts
<1>. HIDE DEF w
<1>2. \/ meta' = w /\ Reply(r, a) /\ UNCHANGED up
      \/ /\ t.name \in TornTasks /\ \E k \in 0 .. Len(w) : meta' = SubSeq(w, 1, k)
         /\ up' = FALSE /\ Reply(r, Killed)
  BY DEF WriteJsonFile, w
<1>3. CASE meta' = w /\ Reply(r, a) /\ UNCHANGED up
  BY <1>1, <1>3 DEF Keeps, w
<1>4. ASSUME t.name \in TornTasks, NEW k \in 0 .. Len(w), meta' = SubSeq(w, 1, k)
      PROVE  Keeps(meta', t, completed) /\ meta' # NoFile
  <2>1. meta' # NoFile
    BY <1>1, <1>4
  <2>. DEFINE n == Len(w)
  <2>2. k = Len(w) \/ k = Len(w) - 1 \/ k \in 0 .. Len(w) - 2
    <3>1. n \in Nat /\ k \in 0 .. n
      BY <1>1
    <3>. HIDE DEF n
    <3>2. k = n \/ k = n - 1 \/ k \in 0 .. n - 2
      BY <3>1
    <3>. QED  BY <3>2 DEF n
  <2>3. \/ meta' = w \/ meta' = Front(w)
        \/ t.name \in TornTasks /\ \E j \in 0 .. Len(w) - 2 : meta' = SubSeq(w, 1, j)
    BY <1>1, <1>4, <2>2
  <2>. QED  BY <2>1, <2>3 DEF Keeps, w
<1>. QED  BY <1>2, <1>3, <1>4

(* The bytes of a chunk that begins where the file ends continue it.       *)
LEMMA Continued ==
  ASSUME NEW s \in Seq(Byte), NEW i \in 0 .. Len(s), NEW j \in i .. Len(s)
  PROVE  SubSeq(s, 1, i) \o SubSeq(s, i + 1, j) = SubSeq(s, 1, j)
<1>1. /\ SubSeq(s, 1, i) \in Seq(Byte) /\ Len(SubSeq(s, 1, i)) = i
      /\ \A k \in 1 .. i : SubSeq(s, 1, i)[k] = s[k]
  OBVIOUS
<1>2. /\ SubSeq(s, i + 1, j) \in Seq(Byte) /\ Len(SubSeq(s, i + 1, j)) = j - i
      /\ \A k \in 1 .. j - i : SubSeq(s, i + 1, j)[k] = s[i + k]
  OBVIOUS
<1>3. /\ SubSeq(s, 1, j) \in Seq(Byte) /\ Len(SubSeq(s, 1, j)) = j
      /\ \A k \in 1 .. j : SubSeq(s, 1, j)[k] = s[k]
  OBVIOUS
<1>. DEFINE a == SubSeq(s, 1, i)
            b == SubSeq(s, i + 1, j)
            c == SubSeq(s, 1, j)
<1>. HIDE DEF a, b, c
<1>4. a \o b \in Seq(Byte) /\ Len(a \o b) = j
  BY <1>1, <1>2 DEF a, b
<1>5. ASSUME NEW k \in 1 .. j PROVE (a \o b)[k] = c[k]
  <2>. DEFINE m == k - i
  <2>0. i \in Nat /\ j \in Nat /\ k \in Nat /\ k = i + m
    BY <1>1
  <2>1. CASE k <= i
    BY <1>1, <1>2, <1>3, <2>1 DEF a, b, c
  <2>2. CASE k > i
    <3>1. (a \o b)[k] = b[m] /\ m \in 1 .. j - i
      BY <1>1, <1>2, <2>2 DEF a, b
    <3>. HIDE DEF m
    <3>2. b[m] = s[i + m]
      BY <3>1, <1>2 DEF b
    <3>3. c[k] = s[k]
      BY <1>3 DEF c
    <3>. QED  BY <2>0, <3>1, <3>2, <3>3
  <2>3. k <= i \/ k > i
    BY <2>0
  <2>. HIDE DEF m
  <2>. QED  BY <2>1, <2>2, <2>3
<1>6. c \in Seq(Byte) /\ Len(c) = j
  BY <1>3 DEF c
<1>7. a \o b = c
  BY <1>4, <1>5, <1>6
<1>. QED  BY <1>7 DEF a, b, c

-----------------------------------------------------------------------------
(* What the handlers do for a request that is not malformed.               *)

\* The values that both kinds of requests name are those of the task.
Same(r) == /\ r.md5.value = task.md5 /\ r.name.value = task.name
           /\ r.total_size.value = task.total_size

Unchanged == UNCHANGED <<up, disk>>

SyncRefused(r) ==
    /\ task # NoFile /\ Unchanged /\ Reply(r, Conflict)
    /\ ~ (Intact /\ Same(r) /\ r.chunk_size.value = task.chunk_size)

SyncConfirmed(r) ==
    /\ task # NoFile /\ Unchanged /\ Same(r) /\ r.chunk_size.value = task.chunk_size
    /\ \E a : Reply(r, a) /\ a.error = "Success"

SyncCreated(r) ==
    /\ task = NoFile /\ task' = TaskOf(r) /\ UNCHANGED <<part, final>>
    /\ Keeps(meta', task', FALSE) /\ meta' # NoFile /\ up' \in BOOLEAN
    /\ Reply(r, Answer("Success", 0, FALSE)) \/ Reply(r, Killed)

\* HandleSyncFile refuses, confirms or creates the task, by what r means.
LEMMA SyncEffect ==
  ASSUME IInv, NEW r, SyncTask(r, Query(r, "chunk_size"), ReadJsonFile),
         TaskOf(r) \in Tasks, r.total_size.value \in 0 .. MaxUInt64,
         r.chunk_size.value \in 0 .. MaxUInt64, r.upload_id.value = UploadId
  PROVE  SyncRefused(r) \/ SyncConfirmed(r) \/ SyncCreated(r)
<1>. DEFINE q == Query(r, "chunk_size")
            m == ReadJsonFile
            same == /\ m.result = "ok" /\ IsSameTask(m.value, q)
                    /\ Got(q.number) \in AsUInt64(Get(m.value, "chunk_size"))
<1>1. /\ q.md5 = r.md5.value /\ q.name = r.name.value /\ q.total_size = r.total_size.value
      /\ q.number = r.chunk_size.value
  BY DEF Query
<1>2. CASE task = NoFile
  <2>1. meta = NoFile /\ part = NoFile /\ final = NoFile /\ up \in BOOLEAN
    BY <1>2 DEF IInv
  <2>2. /\ task' = Values(q, q.number) /\ UNCHANGED <<part, final>>
        /\ WriteJsonFile(r, MetaValue(q, q.number, FALSE), Progress(q))
    BY <2>1 DEF SyncTask
  <2>3. Values(q, q.number) = TaskOf(r)
    BY <1>1 DEF Values, TaskOf
  <2>. DEFINE v == MetaValue(q, q.number, FALSE)
  <2>4. v = MetaOf(TaskOf(r), FALSE)
    <3>1. q.id = UploadId
      BY DEF Query
    <3>. HIDE DEF q
    <3>2. MetaOf(TaskOf(r), FALSE)
            = MetaValue([id |-> UploadId, md5 |-> r.md5.value, name |-> r.name.value,
                         total_size |-> r.total_size.value], r.chunk_size.value, FALSE)
      BY DEF MetaOf, TaskOf
    <3>. QED  BY <1>1, <3>1, <3>2 DEF MetaValue, MetaMembers
  <2>. HIDE DEF v
  <2>5. Progress(q) = Answer("Success", 0, FALSE)
    <3>1. ~ Published(q) /\ Confirmed = 0
      BY <2>1 DEF Published, Confirmed
    <3>. HIDE DEF q
    <3>2. ~ (Confirmed > q.total_size)
      BY <3>1, <1>1, Widths
    <3>. QED  BY <3>1, <3>2 DEF Progress
  <2>6. WriteJsonFile(r, v, Answer("Success", 0, FALSE))
    BY <2>2, <2>5 DEF v
  <2>7. Write(v) = Write(MetaOf(TaskOf(r), FALSE)) /\ Get(v, "name").string = TaskOf(r).name
    BY <2>4, NameOfMeta
  <2>8. /\ Keeps(meta', TaskOf(r), FALSE) /\ meta' # NoFile /\ up' \in BOOLEAN
        /\ Reply(r, Answer("Success", 0, FALSE)) \/ Reply(r, Killed)
    BY <2>1, <2>6, <2>7, Saved
  <2>. QED  BY <1>2, <2>2, <2>3, <2>8 DEF SyncCreated
<1>3. CASE task # NoFile
  <2>1. task \in Tasks /\ task.total_size \in 0 .. MaxUInt64 /\ task.chunk_size \in 0 .. MaxUInt64
    BY <1>3 DEF IInv
  <2>2. /\ meta # NoFile
        /\ \/ Intact /\ m.result = "ok" /\ m.value = AsRead(MetaOf(task, IsDone))
           \/ ~ Intact /\ m.result = "error"
    BY <1>3, ReadBack
  <2>. DEFINE equal == Same(r) /\ r.chunk_size.value = task.chunk_size
  <2>3. same <=> Intact /\ equal
    <3>1. CASE ~ Intact
      BY <2>2, <3>1
    <3>2. CASE Intact
      <4>1. /\ IsSameTask(m.value, q) <=> Same(r)
            /\ AsUInt64(Get(m.value, "chunk_size")) = {Got(task.chunk_size)}
        BY <1>1, <2>1, <2>2, <3>2, ReadTask DEF Same
      <4>2. Got(q.number) = Got(task.chunk_size) <=> r.chunk_size.value = task.chunk_size
        BY <1>1, GotFacts
      <4>. QED  BY <2>2, <3>2, <4>1, <4>2
    <3>. QED  BY <3>1, <3>2
  <2>4. \/ ~ same /\ Refuse(r, Conflict)
        \/ same /\ Refuse(r, Progress(q))
    BY <2>2 DEF SyncTask
  <2>. HIDE DEF same, q
  <2>5. CASE ~ same /\ Refuse(r, Conflict)
    BY <1>3, <2>3, <2>5 DEF SyncRefused, Refuse, Unchanged
  <2>6. CASE same /\ Refuse(r, Progress(q))
    <3>1. Progress(q).error = "Success"
      <4>1. q.name = task.name /\ q.total_size = task.total_size
        BY <1>1, <2>3, <2>6 DEF Same
      <4>. QED  BY <1>3, <4>1, ProgressOfTask DEF Answer
    <3>. QED  BY <1>3, <2>3, <2>6, <3>1 DEF SyncConfirmed, Refuse, Unchanged
  <2>. QED  BY <2>4, <2>5, <2>6
<1>. QED  BY <1>2, <1>3

UploadRefused(r) ==
    /\ Unchanged /\ Reply(r, Conflict)
    /\ task # NoFile => ~ (Intact /\ Same(r))

UploadKept(r) ==
    /\ task # NoFile /\ Unchanged /\ Same(r)
    /\ \E a : Reply(r, a) /\ a.error \in {"Success", "UploadOffsetMismatch"}

Continues(r) == /\ task # NoFile /\ ~ IsDone /\ Same(r) /\ EndOf(r) \in 0 .. Len(FileBytes)
                /\ EndOf(r) <= task.total_size

UploadStored(r) ==
    /\ Continues(r) /\ part' = SubSeq(FileBytes, 1, EndOf(r))
    /\ UNCHANGED <<up, meta, final, task>>
    /\ \E a : Reply(r, a) /\ a.error = "Success"

UploadFinished(r) ==
    /\ Continues(r) /\ EndOf(r) = task.total_size
    /\ part' = NoFile /\ UNCHANGED task
    /\ final' = [name |-> FileName(task.name), bytes |-> SubSeq(FileBytes, 1, task.total_size)]
    /\ Keeps(meta', task, TRUE) /\ meta' # NoFile /\ up' \in BOOLEAN
    /\ \E a : Reply(r, a) /\ a.error \in {"Success", "killed"}

\* HandleUploadFile refuses, keeps, stores or finishes, by what r means.
LEMMA UploadEffect ==
  ASSUME IInv, NEW r \in UploadRequests, ~ IsMalformed(r), Fits(r),
         UploadTask(r, Query(r, "offset"), r.data.value, r.is_last.value, ReadJsonFile),
         r.total_size.value \in 0 .. MaxUInt64, r.offset.value \in 0 .. MaxUInt64,
         r.data.value \in Seq(Byte)
  PROVE  UploadRefused(r) \/ UploadKept(r) \/ UploadStored(r) \/ UploadFinished(r)
<1>. DEFINE q == Query(r, "offset")
            m == ReadJsonFile
            same == m.result = "ok" /\ IsSameTask(m.value, q)
            p == Progress(q)
            open == p.error = "Success" /\ ~ p.completed
            bytes == r.data.value
            stored == (IF part = NoFile THEN <<>> ELSE part) \o bytes
<1>1. /\ q.md5 = r.md5.value /\ q.name = r.name.value /\ q.total_size = r.total_size.value
      /\ q.number = r.offset.value
  BY DEF Query
<1>2. \/ ~ same /\ Refuse(r, Conflict)
      \/ same /\ (~ open \/ q.number < p.offset) /\ Refuse(r, p)
      \/ same /\ open /\ q.number > p.offset
         /\ Refuse(r, Answer("UploadOffsetMismatch", p.offset, FALSE))
      \/ same /\ open /\ q.number = p.offset /\ UploadChunk(r, q, bytes, r.is_last.value, m)
  BY DEF UploadTask
<1>3. CASE task = NoFile
  <2>1. m = Failed
    BY <1>3 DEF IInv, ReadJsonFile
  <2>2. ~ same
    BY <2>1 DEF Failed
  <2>. QED  BY <1>2, <1>3, <2>2 DEF UploadRefused, Refuse, Unchanged
<1>4. CASE task # NoFile
  <2>1. /\ task \in Tasks /\ task.total_size \in 0 .. MaxUInt64
        /\ task.chunk_size \in 0 .. MaxUInt64 /\ PartKept /\ up \in BOOLEAN
    BY <1>4 DEF IInv
  <2>2. \/ Intact /\ m.result = "ok" /\ m.value = AsRead(MetaOf(task, IsDone))
        \/ ~ Intact /\ m.result = "error"
    BY <1>4, ReadBack
  <2>3. same <=> Intact /\ Same(r)
    <3>1. CASE ~ Intact
      BY <2>2, <3>1
    <3>2. CASE Intact
      <4>1. IsSameTask(m.value, q) <=> Same(r)
        BY <1>1, <2>1, <2>2, <3>2, ReadTask DEF Same
      <4>. QED  BY <2>2, <3>2, <4>1
    <3>. QED  BY <3>1, <3>2
  <2>. HIDE DEF q, m, same
  <2>4. CASE ~ same
    BY <1>2, <1>4, <2>3, <2>4 DEF UploadRefused, Refuse, Unchanged
  <2>5. ASSUME same
        PROVE  /\ Same(r) /\ Intact /\ q.name = task.name /\ q.total_size = task.total_size
               /\ Confirmed \in 0 .. task.total_size
               /\ p = IF IsDone THEN Answer("Success", task.total_size, TRUE)
                                ELSE Answer("Success", Confirmed, FALSE)
    <3>1. Same(r) /\ Intact /\ q.name = task.name /\ q.total_size = task.total_size
      BY <1>1, <2>3, <2>5 DEF Same
    <3>. QED  BY <1>4, <3>1, ProgressOfTask
  <2>. HIDE DEF p
  <2>6. same => p.error = "Success"
    BY <2>5 DEF Answer
  <2>7. same /\ open => ~ IsDone /\ p.offset = Confirmed
    BY <2>5 DEF Answer
  <2>8. CASE same /\ (~ open \/ q.number < p.offset) /\ Refuse(r, p)
    BY <1>4, <2>5, <2>6, <2>8 DEF UploadKept, Refuse, Unchanged
  <2>9. CASE /\ same /\ open /\ q.number > p.offset
             /\ Refuse(r, Answer("UploadOffsetMismatch", p.offset, FALSE))
    <3>1. Answer("UploadOffsetMismatch", p.offset, FALSE).error = "UploadOffsetMismatch"
      BY DEF Answer
    <3>. QED  BY <1>4, <2>5, <2>9, <3>1 DEF UploadKept, Refuse, Unchanged
  <2>10. CASE /\ same /\ open /\ q.number = p.offset
              /\ UploadChunk(r, q, bytes, r.is_last.value, m)
    <3>1. /\ ~ IsDone /\ r.offset.value = Confirmed
      BY <1>1, <2>7, <2>10
    <3>2. /\ EndOf(r) = r.offset.value + Len(bytes) /\ Len(bytes) \in Nat
          /\ EndOf(r) <= r.total_size.value /\ r.total_size.value = task.total_size
          /\ r.is_last.value <=> EndOf(r) = r.total_size.value
      <4>1. Len(bytes) \in Nat /\ r.offset.value \in Nat /\ r.total_size.value \in Nat
        BY Widths
      <4>2. /\ r.offset.value <= r.total_size.value
            /\ Len(bytes) <= r.total_size.value - r.offset.value
        BY <1>1 DEF Fits, InRange, q
      <4>3. EndOf(r) = r.offset.value + Len(bytes)
        BY DEF EndOf
      <4>4. r.total_size.value = task.total_size
        BY <2>5, <2>10 DEF Same
      <4>5. r.is_last.value <=> EndOf(r) = r.total_size.value
        BY DEF Fits
      <4>6. EndOf(r) <= r.total_size.value
        BY <4>1, <4>2, <4>3
      <4>. QED  BY <4>1, <4>3, <4>4, <4>5, <4>6
    <3>3. EndOf(r) \in Confirmed .. Len(FileBytes) /\ Len(FileBytes) \in Nat
          /\ bytes = SubSeq(FileBytes, Confirmed + 1, EndOf(r)) /\ FileBytes \in Seq(Byte)
      <4>1. /\ EndOf(r) <= Len(FileBytes) /\ FileBytes \in Seq(Byte)
            /\ bytes = SubSeq(FileBytes, r.offset.value + 1, EndOf(r))
        BY <3>2, FileAssumption
      <4>2. Len(FileBytes) \in Nat
        BY <4>1
      <4>3. EndOf(r) \in Int /\ Confirmed \in Int /\ Confirmed <= EndOf(r)
        BY <3>1, <3>2, Widths
      <4>. QED  BY <3>1, <4>1, <4>2, <4>3
    <3>4. stored = SubSeq(FileBytes, 1, EndOf(r))
      <4>1. (IF part = NoFile THEN <<>> ELSE part) = SubSeq(FileBytes, 1, Confirmed)
        <5>1. CASE part = NoFile
          <6>1. SubSeq(FileBytes, 1, 0) = <<>>
            BY <3>3
          <6>. QED  BY <5>1, <6>1 DEF Confirmed
        <5>2. CASE part # NoFile
          <6>1. PICK n \in 0 .. Len(FileBytes) : part = SubSeq(FileBytes, 1, n)
            BY <2>1, <5>2 DEF PartKept
          <6>2. Len(part) = n
            BY <3>3, <6>1
          <6>. QED  BY <5>2, <6>1, <6>2 DEF Confirmed
        <5>. QED  BY <5>1, <5>2
      <4>2. Confirmed \in 0 .. Len(FileBytes)
        BY <2>1, <2>5, <2>10, <3>3, Widths
      <4>. QED  BY <3>3, <4>1, <4>2, Continued
    <3>5. Continues(r)
      <4>1. EndOf(r) \in 0 .. Len(FileBytes)
        BY <2>1, <2>5, <2>10, <3>3, Widths
      <4>2. EndOf(r) <= task.total_size
        BY <3>2
      <4>. QED  BY <1>4, <2>5, <2>10, <3>1, <4>1, <4>2 DEF Continues
    <3>. HIDE DEF stored
    <3>6. CASE ~ r.is_last.value
      <4>1. /\ part' = stored /\ Reply(r, Answer("Success", Len(stored), FALSE))
            /\ UNCHANGED <<up, meta, final, task>>
        BY <2>10, <3>6 DEF UploadChunk, stored
      <4>2. Answer("Success", Len(stored), FALSE).error = "Success"
        BY DEF Answer
      <4>. QED  BY <3>4, <3>5, <4>1, <4>2 DEF UploadStored
    <3>7. CASE r.is_last.value
      <4>. DEFINE v == WithMember(m.value, Chars("completed"), Bool(TRUE))
      <4>1. /\ part' = NoFile /\ final' = [name |-> FileName(q.name), bytes |-> stored]
            /\ WriteJsonFile(r, v, Answer("Success", Len(stored), TRUE)) /\ UNCHANGED task
        BY <2>10, <3>7 DEF UploadChunk, stored
      <4>2. v = AsRead(MetaOf(task, TRUE))
        BY <2>2, <2>3, <2>10, Completed
      <4>. HIDE DEF v
      <4>3. Write(v) = Write(MetaOf(task, TRUE)) /\ Get(v, "name").string = task.name
        BY <2>1, <4>2, TextFacts, NameOfMeta
      <4>4. /\ Keeps(meta', task, TRUE) /\ meta' # NoFile /\ up' \in BOOLEAN
            /\ Reply(r, Answer("Success", Len(stored), TRUE)) \/ Reply(r, Killed)
        BY <2>1, <4>1, <4>3, Saved
      <4>5. \E a : Reply(r, a) /\ a.error \in {"Success", "killed"}
        BY <4>4 DEF Answer, Killed
      <4>6. final' = [name |-> FileName(task.name), bytes |-> SubSeq(FileBytes, 1, task.total_size)]
        BY <2>5, <2>10, <3>2, <3>4, <3>7, <4>1
      <4>. QED  BY <3>2, <3>5, <3>7, <4>1, <4>4, <4>5, <4>6 DEF UploadFinished
    <3>. QED  BY <3>6, <3>7
  <2>. QED  BY <1>2, <2>4, <2>8, <2>9, <2>10
<1>. QED  BY <1>3, <1>4

(* The steps of Handle, told by what they do.                              *)
SyncActs(r) ==
    /\ r \in SyncRequests /\ IsSync(r) /\ ~ IsMalformed(r)
    /\ TaskOf(r) \in Tasks /\ r.total_size.value \in 0 .. MaxUInt64
    /\ r.chunk_size.value \in 0 .. MaxUInt64
    /\ SyncRefused(r) \/ SyncConfirmed(r) \/ SyncCreated(r)

UploadActs(r) ==
    /\ r \in UploadRequests /\ ~ IsSync(r) /\ ~ IsMalformed(r) /\ Fits(r)
    /\ r.total_size.value \in 0 .. MaxUInt64 /\ r.offset.value \in 0 .. MaxUInt64
    /\ r.data.value \in Seq(Byte)
    /\ UploadRefused(r) \/ UploadKept(r) \/ UploadStored(r) \/ UploadFinished(r)

UploadMisfits(r) ==
    /\ r \in UploadRequests /\ ~ IsSync(r) /\ ~ IsMalformed(r) /\ ~ Fits(r)
    /\ r.total_size.value \in 0 .. MaxUInt64 /\ r.offset.value \in 0 .. MaxUInt64
    /\ r.data.value \in Seq(Byte)
    /\ Unchanged /\ Reply(r, ErrorJson)

\* Every step of Handle declines a malformed request, acts on what a request
\* means, or refuses a chunk that does not fit.
LEMMA HandleEffect ==
  ASSUME IInv, Handle
  PROVE  \E r : \/ IsMalformed(r) /\ Declines(r)
                \/ SyncActs(r) \/ UploadActs(r) \/ UploadMisfits(r)
<1>0. up \in BOOLEAN
  BY DEF IInv
<1>1. ASSUME NEW x \in ParsedSyncs, HandleSyncFile(x.request, x.parsed, ReadJsonFile)
      PROVE  (IsMalformed(x.request) /\ Declines(x.request)) \/ SyncActs(x.request)
  <2>1. x.request \in SyncRequests /\ IsSync(x.request)
    BY SyncShape
  <2>2. \/ IsMalformed(x.request) /\ Declines(x.request)
        \/ /\ ~ IsMalformed(x.request)
           /\ SyncTask(x.request, Query(x.request, "chunk_size"), ReadJsonFile)
           /\ TaskOf(x.request) \in Tasks /\ x.request.total_size.value \in 0 .. MaxUInt64
           /\ x.request.chunk_size.value \in 0 .. MaxUInt64
           /\ x.request.upload_id.value = UploadId
    BY <1>0, <1>1, SyncHandled
  <2>. QED  BY <2>1, <2>2, SyncEffect DEF SyncActs
<1>2. ASSUME NEW x \in ParsedUploads, HandleUploadFile(x.request, x.parsed, ReadJsonFile)
      PROVE  \/ IsMalformed(x.request) /\ Declines(x.request)
             \/ UploadActs(x.request) \/ UploadMisfits(x.request)
  <2>1. x.request \in UploadRequests /\ ~ IsSync(x.request)
    BY UploadShape
  <2>2. \/ IsMalformed(x.request) /\ Declines(x.request)
        \/ /\ ~ IsMalformed(x.request)
           /\ \/ ~ Fits(x.request) /\ Refuse(x.request, ErrorJson)
              \/ /\ Fits(x.request)
                 /\ UploadTask(x.request, Query(x.request, "offset"), x.request.data.value,
                               x.request.is_last.value, ReadJsonFile)
           /\ x.request.total_size.value \in 0 .. MaxUInt64
           /\ x.request.offset.value \in 0 .. MaxUInt64
           /\ x.request.data.value \in Seq(Byte)
    BY <1>0, <1>2, UploadHandled
  <2>3. Refuse(x.request, ErrorJson) => Unchanged /\ Reply(x.request, ErrorJson)
    BY DEF Refuse, Unchanged
  <2>. QED  BY <2>1, <2>2, <2>3, UploadEffect DEF UploadActs, UploadMisfits
<1>3. \/ \E x \in ParsedSyncs : HandleSyncFile(x.request, x.parsed, ReadJsonFile)
      \/ \E x \in ParsedUploads : HandleUploadFile(x.request, x.parsed, ReadJsonFile)
  BY DEF Handle
<1>. QED  BY <1>1, <1>2, <1>3

-----------------------------------------------------------------------------
(* The invariant is inductive.                                             *)

\* Nothing is stored yet.
LEMMA InitIInv == Init => IInv
BY DEF Init, IInv

\* Steps that leave the disk alone keep the invariant.
LEMMA DiskKept ==
  ASSUME IInv, UNCHANGED disk, up' \in BOOLEAN
  PROVE  IInv'
BY DEF IInv, disk, MetaKept, Keeps, PartKept, FinalKept, IsDone

\* A new task keeps it, killed while saving or not.
LEMMA CreatedKeeps ==
  ASSUME IInv, NEW r, SyncCreated(r), TaskOf(r) \in Tasks,
         r.total_size.value \in 0 .. MaxUInt64, r.chunk_size.value \in 0 .. MaxUInt64
  PROVE  IInv'
<1>1. part = NoFile /\ final = NoFile
  BY DEF SyncCreated, IInv
<1>2. /\ task' = TaskOf(r) /\ part' = NoFile /\ final' = NoFile /\ up' \in BOOLEAN
      /\ Keeps(meta', task', FALSE)
  BY <1>1 DEF SyncCreated
<1>3. task' \in Tasks /\ task' # NoFile
  BY <1>2, NoFileAssumption
<1>4. task'.total_size \in 0 .. MaxUInt64 /\ task'.chunk_size \in 0 .. MaxUInt64
  BY <1>2 DEF TaskOf
<1>5. IsDone' = FALSE
  BY <1>2 DEF IsDone
<1>6. MetaKept'
  BY <1>2, <1>5 DEF MetaKept
<1>7. PartKept' /\ FinalKept'
  BY <1>2, <1>5 DEF PartKept, FinalKept
<1>. QED  BY <1>2, <1>3, <1>4, <1>6, <1>7 DEF IInv

\* So does a stored chunk,
LEMMA StoredKeeps ==
  ASSUME IInv, NEW r, UploadStored(r)
  PROVE  IInv'
<1>1. /\ task # NoFile /\ ~ IsDone /\ EndOf(r) \in 0 .. Len(FileBytes)
      /\ EndOf(r) <= task.total_size /\ part' = SubSeq(FileBytes, 1, EndOf(r))
      /\ UNCHANGED <<up, meta, final, task>>
  BY DEF UploadStored, Continues
<1>2. MetaKept /\ up \in BOOLEAN /\ task \in Tasks /\ task.total_size \in 0 .. MaxUInt64
      /\ task.chunk_size \in 0 .. MaxUInt64
  BY <1>1 DEF IInv
<1>3. IsDone' = IsDone /\ MetaKept'
  BY <1>1, <1>2 DEF MetaKept, IsDone, Keeps
<1>4. PartKept'
  BY <1>1 DEF PartKept
<1>5. FinalKept'
  BY <1>1, <1>3 DEF FinalKept
<1>. QED  BY <1>1, <1>2, <1>3, <1>4, <1>5 DEF IInv

\* and the last one, killed while saving or not.
LEMMA FinishedKeeps ==
  ASSUME IInv, NEW r, UploadFinished(r)
  PROVE  IInv'
<1>1. /\ task # NoFile /\ task.total_size <= Len(FileBytes)
      /\ part' = NoFile /\ UNCHANGED task /\ Keeps(meta', task, TRUE) /\ up' \in BOOLEAN
      /\ final' = [name |-> FileName(task.name), bytes |-> SubSeq(FileBytes, 1, task.total_size)]
  <2>1. /\ task # NoFile /\ EndOf(r) \in 0 .. Len(FileBytes) /\ EndOf(r) = task.total_size
        /\ part' = NoFile /\ UNCHANGED task /\ Keeps(meta', task, TRUE) /\ up' \in BOOLEAN
        /\ final' = [name |-> FileName(task.name), bytes |-> SubSeq(FileBytes, 1, task.total_size)]
    BY DEF UploadFinished, Continues
  <2>. HIDE DEF EndOf
  <2>2. task.total_size <= Len(FileBytes)
    BY <2>1, FileAssumption
  <2>. QED  BY <2>1, <2>2
<1>2. task \in Tasks /\ task.total_size \in 0 .. MaxUInt64 /\ task.chunk_size \in 0 .. MaxUInt64
  BY <1>1 DEF IInv
<1>3. final' # NoFile
  <2>1. SubSeq(FileBytes, 1, task.total_size) \in Seq(Byte)
    BY <1>1, <1>2, FileAssumption, Widths
  <2>2. final' \in Files
    BY <1>1, <1>2, <2>1 DEF Files
  <2>. QED  BY <2>2, NoFileAssumption
<1>4. IsDone' = TRUE
  BY <1>3 DEF IsDone
<1>5. MetaKept'
  BY <1>1, <1>4 DEF MetaKept
<1>6. PartKept' /\ FinalKept'
  BY <1>1 DEF PartKept, FinalKept
<1>. QED  BY <1>1, <1>2, <1>5, <1>6 DEF IInv

\* The invariant is inductive.
LEMMA NextIInv == IInv /\ [Next]_vars => IInv'
<1>. SUFFICES ASSUME IInv, [Next]_vars PROVE IInv'
  OBVIOUS
<1>1. CASE Handle
  <2>1. PICK r : \/ IsMalformed(r) /\ Declines(r)
                 \/ SyncActs(r) \/ UploadActs(r) \/ UploadMisfits(r)
    BY <1>1, HandleEffect
  <2>2. Unchanged => IInv'
    <3>1. Unchanged => UNCHANGED disk /\ up' \in BOOLEAN
      BY DEF Unchanged, IInv
    <3>. QED  BY <3>1, DiskKept
  <2>3. CASE Declines(r)
    BY <2>3, DiskKept DEF Declines
  <2>4. CASE SyncActs(r)
    BY <2>2, <2>4, CreatedKeeps DEF SyncActs, SyncRefused, SyncConfirmed
  <2>5. CASE UploadActs(r)
    BY <2>2, <2>5, StoredKeeps, FinishedKeeps DEF UploadActs, UploadRefused, UploadKept
  <2>6. CASE UploadMisfits(r)
    BY <2>2, <2>6 DEF UploadMisfits
  <2>. QED  BY <2>1, <2>3, <2>4, <2>5, <2>6
<1>2. CASE Await
  BY <1>2, DiskKept DEF Await
<1>3. CASE UNCHANGED vars
  <2>1. UNCHANGED disk /\ up' \in BOOLEAN
    BY <1>3 DEF vars, IInv
  <2>. QED  BY <2>1, DiskKept
<1>. QED  BY <1>1, <1>2, <1>3 DEF Next

(* Each step keeps the inductive invariant.                                *)
THEOREM Inductive == Spec => []IInv
<1>. QED  BY InitIInv, NextIInv, PTL DEF Spec

-----------------------------------------------------------------------------
(* The properties of the disk.                                             *)

\* It implies the properties of the disk.
LEMMA DiskFacts == IInv => TypeOK /\ ReadsBack /\ BytesKept
<1>. SUFFICES ASSUME IInv PROVE TypeOK /\ ReadsBack /\ BytesKept
  OBVIOUS
<1>0. FileBytes \in Seq(Byte) /\ Len(FileBytes) \in Nat
  BY FileAssumption
<1>1. CASE task = NoFile
  <2>1. meta = NoFile /\ part = NoFile /\ final = NoFile /\ up \in BOOLEAN
    BY <1>1 DEF IInv
  <2>. QED  BY <1>1, <2>1 DEF TypeOK, ReadsBack, BytesKept
<1>2. CASE task # NoFile
  <2>1. /\ up \in BOOLEAN /\ task.total_size \in 0 .. MaxUInt64
        /\ task.chunk_size \in 0 .. MaxUInt64 /\ PartKept /\ FinalKept
    BY <1>2 DEF IInv
  <2>2. /\ meta # NoFile
        /\ \/ /\ Intact /\ ReadJsonFile.result = "ok"
              /\ ReadJsonFile.value = AsRead(MetaOf(task, IsDone))
           \/ ~ Intact /\ ReadJsonFile.result = "error"
    BY <1>2, ReadBack
  <2>3. ASSUME part # NoFile PROVE part \in Seq(0 .. 255) /\ IsPrefix(part, FileBytes)
    <3>1. PICK n \in 0 .. Len(FileBytes) : part = SubSeq(FileBytes, 1, n)
      BY <2>1, <2>3 DEF PartKept
    <3>2. part \in Seq(Byte) /\ Len(part) = n
      BY <1>0, <3>1
    <3>3. Len(part) <= Len(FileBytes)
      BY <1>0, <3>2
    <3>4. SubSeq(part, 1, Len(part)) = SubSeq(FileBytes, 1, Len(part))
      <4>1. SubSeq(part, 1, Len(part)) = part
        BY <3>2
      <4>. QED  BY <3>1, <3>2, <4>1
    <3>. QED  BY <3>2, <3>3, <3>4 DEF IsPrefix, Byte
  <2>4. ASSUME final # NoFile
        PROVE  /\ final.bytes = SubSeq(FileBytes, 1, task.total_size)
               /\ final.bytes \in Seq(0 .. 255)
    <3>1. final.bytes = SubSeq(FileBytes, 1, task.total_size) /\ task.total_size <= Len(FileBytes)
      BY <2>1, <2>4 DEF FinalKept, IsDone
    <3>2. SubSeq(FileBytes, 1, task.total_size) \in Seq(Byte)
      BY <1>0, <2>1, <3>1, Widths
    <3>. QED  BY <3>1, <3>2 DEF Byte
  <2>5. TypeOK /\ BytesKept
    BY <1>2, <2>1, <2>2, <2>3, <2>4 DEF TypeOK, BytesKept
  <2>6. ReadsBack
    <3>1. CASE ~ Intact
      BY <2>2, <3>1 DEF ReadsBack
    <3>2. CASE Intact
      <4>. DEFINE m == ReadJsonFile
      <4>1. m.result = "ok" /\ m.value = AsRead(MetaOf(task, IsDone))
        BY <2>2, <3>2
      <4>. HIDE DEF m
      <4>2. /\ AsString(Get(m.value, "md5")) = Got(task.md5)
            /\ AsString(Get(m.value, "name")) = Got(task.name)
            /\ AsUInt64(Get(m.value, "total_size")) = {Got(task.total_size)}
            /\ AsUInt64(Get(m.value, "chunk_size")) = {Got(task.chunk_size)}
            /\ AsBool(Get(m.value, "completed")) = Got(IsDone)
        BY <2>1, <4>1, ReadTask
      <4>. QED  BY <3>2, <4>1, <4>2 DEF ReadsBack, IsDone, m
    <3>. QED  BY <3>1, <3>2
  <2>. QED  BY <2>5, <2>6
<1>. QED  BY <1>1, <1>2

(* Every variable keeps its type.                                          *)
THEOREM TypeCorrect == Spec => []TypeOK
<1>. QED  BY Inductive, DiskFacts, PTL

(* Metadata, in whatever characters and numbers, are read back as they     *)
(* were written; what a crash leaves of them is never taken for metadata   *)
(* (LogicWorker.cpp:213-218).                                              *)
THEOREM MetadataReadBack == Spec => []ReadsBack
<1>. QED  BY Inductive, DiskFacts, PTL

(* What is stored, and what is published, are the bytes of the file        *)
(* (LogicWorker.cpp:280-299).                                              *)
THEOREM BytesThroughCodings == Spec => []BytesKept
<1>. QED  BY Inductive, DiskFacts, PTL

-----------------------------------------------------------------------------
(* The properties of answers.                                              *)

\* The errors of the answers.
LEMMA Errors ==
  /\ ErrorJson.error = "Error_Json" /\ NoAnswer.error = "none" /\ Killed.error = "killed"
  /\ Conflict.error = "UploadTaskConflict" /\ Answer("Success", 0, FALSE).error = "Success"
BY DEF ErrorJson, NoAnswer, Killed, Conflict, Answer

\* What Reply leaves in last.
LEMMA Replied ==
  ASSUME NEW r, NEW a, Reply(r, a)
  PROVE  last'.request = r /\ last'.answer = a
BY DEF Reply

\* The task is what request r means, for a request that is not malformed.
Meant(r) == Same(r) /\ (IsSync(r) => r.chunk_size.value = task.chunk_size)

\* MeansTask, in the words of the lemmas.
LEMMA MeantIs ==
  ASSUME NEW r, ~ IsMalformed(r)
  PROVE  /\ MeansTask(r) <=> Meant(r)
         /\ MeansTask(r)' <=> Meant(r)'
BY DEF MeansTask, Means, Meant, Same

\* Request r is answered with one of some errors, in accord with the task.
Answered(r, errors) ==
    LET error == last.answer.error
    IN  /\ last.request = r /\ error \in errors
        /\ error = "Success" => Meant(r)
        /\ error = "UploadTaskConflict" => ~ (task # NoFile /\ Meant(r) /\ Intact)

SyncErrors   == {"Success", "UploadTaskConflict", "killed"}
UploadErrors == SyncErrors \cup {"UploadOffsetMismatch"}

\* HandleSyncFile answers in accord with the task,
LEMMA SyncAnswers ==
  ASSUME IInv, NEW r, SyncActs(r)
  PROVE  Answered(r, SyncErrors)'
<1>1. IsSync(r)
  BY DEF SyncActs
<1>2. CASE SyncRefused(r)
  <2>1. Unchanged => (Intact' <=> Intact) /\ task' = task
    BY DEF Unchanged, disk, Intact, Written
  <2>2. Reply(r, Conflict) /\ ~ (task' # NoFile /\ Meant(r)' /\ Intact')
    BY <1>1, <1>2, <2>1 DEF SyncRefused, Meant, Same
  <2>. QED  BY <2>2, Errors, Replied DEF Answered, SyncErrors
<1>3. CASE SyncConfirmed(r)
  <2>1. task' = task /\ Meant(r)
    BY <1>3 DEF SyncConfirmed, Unchanged, disk, Meant
  <2>2. Meant(r)'
    BY <2>1 DEF Meant, Same
  <2>. QED  BY <1>3, <2>2, Replied DEF SyncConfirmed, Answered, SyncErrors
<1>4. CASE SyncCreated(r)
  <2>1. task' = TaskOf(r) /\ (Reply(r, Answer("Success", 0, FALSE)) \/ Reply(r, Killed))
    BY <1>4 DEF SyncCreated
  <2>2. Meant(r)'
    BY <2>1 DEF Meant, Same, TaskOf
  <2>. QED  BY <2>1, <2>2, Errors, Replied DEF Answered, SyncErrors
<1>. QED  BY <1>2, <1>3, <1>4 DEF SyncActs

\* and so does HandleUploadFile.
LEMMA UploadAnswers ==
  ASSUME IInv, NEW r, UploadActs(r)
  PROVE  Answered(r, UploadErrors)'
<1>1. ~ IsSync(r)
  BY DEF UploadActs
<1>2. CASE UploadRefused(r)
  <2>1. Unchanged => (Intact' <=> Intact) /\ task' = task
    BY DEF Unchanged, disk, Intact, Written
  <2>2. Reply(r, Conflict) /\ ~ (task' # NoFile /\ Meant(r)' /\ Intact')
    BY <1>2, <2>1 DEF UploadRefused, Meant, Same
  <2>. QED  BY <2>2, Errors, Replied DEF Answered, UploadErrors, SyncErrors
<1>3. CASE UploadKept(r)
  <2>1. task' = task /\ Same(r)
    BY <1>3 DEF UploadKept, Unchanged, disk
  <2>2. Meant(r)'
    BY <1>1, <2>1 DEF Meant, Same
  <2>3. PICK a : Reply(r, a) /\ a.error \in {"Success", "UploadOffsetMismatch"}
    BY <1>3 DEF UploadKept
  <2>. QED  BY <2>2, <2>3, Replied DEF Answered, UploadErrors, SyncErrors
<1>4. CASE UploadStored(r) \/ UploadFinished(r)
  <2>1. task' = task /\ Same(r)
    BY <1>4 DEF UploadStored, UploadFinished, Continues
  <2>2. Meant(r)'
    BY <1>1, <2>1 DEF Meant, Same
  <2>3. PICK a : Reply(r, a) /\ a.error \in {"Success", "killed"}
    BY <1>4 DEF UploadStored, UploadFinished
  <2>. QED  BY <2>2, <2>3, Replied DEF Answered, UploadErrors, SyncErrors
<1>. QED  BY <1>2, <1>3, <1>4 DEF UploadActs

\* Such an answer is one of the errors, and in accord with what r means.
LEMMA AnswersMean ==
  ASSUME NEW r, NEW errors, Answered(r, errors)', ~ IsMalformed(r)
  PROVE  SameMeaning' /\ last'.request = r /\ last'.answer.error \in errors
<1>1. MeansTask(r)' <=> Meant(r)'
  BY MeantIs
<1>. QED  BY <1>1 DEF Answered, SameMeaning

(* A chunk fits if and only if it is sent as the client sends it, and never*)
(* when it ends behind the file: no sum of the code can wrap.              *)
LEMMA FitsMeans ==
  ASSUME NEW r, r.total_size.value \in 0 .. MaxUInt64, r.offset.value \in 0 .. MaxUInt64,
         r.data.value \in Seq(Byte)
  PROVE  Fits(r) <=> /\ EndOf(r) <= r.total_size.value
                     /\ r.is_last.value <=> EndOf(r) = r.total_size.value
<1>. DEFINE q == Query(r, "offset")
            len == Len(r.data.value)
<1>1. q.number = r.offset.value /\ q.total_size = r.total_size.value
  BY DEF Query
<1>2. /\ len \in Nat /\ r.offset.value \in Nat /\ r.total_size.value \in Nat
  BY Widths
<1>3. EndOf(r) = r.offset.value + len
  BY DEF EndOf
<1>. HIDE DEF q, len
<1>4. InRange(q, len) <=> EndOf(r) <= r.total_size.value
  BY <1>1, <1>2, <1>3 DEF InRange
<1>. QED  BY <1>4, Zenon DEF Fits, q, len

\* Every step of Handle makes the properties of answers true.
LEMMA HandleAnswers ==
  ASSUME IInv, Handle
  PROVE  SameMeaning' /\ EndsInFile' /\ ClientServed' /\ MalformedStep
<1>1. PICK r : \/ IsMalformed(r) /\ Declines(r)
               \/ SyncActs(r) \/ UploadActs(r) \/ UploadMisfits(r)
  BY HandleEffect
<1>2. CASE IsMalformed(r) /\ Declines(r)
  <2>1. PICK a \in {ErrorJson, NoAnswer} : last'.request = r /\ last'.answer = a
    BY <1>2, Replied DEF Declines
  <2>2. a.error # "Success" /\ a.error # "UploadTaskConflict"
    BY <2>1, Errors
  <2>3. SameMeaning'
    BY <2>1, <2>2 DEF SameMeaning
  <2>4. EndsInFile'
    BY <1>2, <2>1 DEF EndsInFile
  <2>5. ClientServed'
    BY <1>2, <2>1, ClientAssumption DEF ClientServed
  <2>6. MalformedStep
    BY <1>2 DEF Declines, MalformedStep
  <2>. QED  BY <2>3, <2>4, <2>5, <2>6
<1>3. CASE SyncActs(r)
  <2>1. IsSync(r) /\ ~ IsMalformed(r)
    BY <1>3 DEF SyncActs
  <2>2. SameMeaning' /\ last'.request = r /\ last'.answer.error \in SyncErrors
    BY <1>3, <2>1, SyncAnswers, AnswersMean
  <2>3. last'.answer.error # "Error_Json" /\ last'.answer.error # "none"
    BY <2>2 DEF SyncErrors
  <2>6. EndsInFile'
    BY <2>1, <2>2 DEF EndsInFile
  <2>7. ClientServed'
    BY <2>2, <2>3, Errors DEF ClientServed
  <2>8. MalformedStep
    BY <2>1, <2>2 DEF MalformedStep
  <2>. QED  BY <2>2, <2>6, <2>7, <2>8
<1>4. CASE UploadActs(r)
  <2>1. ~ IsMalformed(r) /\ EndOf(r) <= r.total_size.value /\ r.total_size.value \in Nat
        /\ EndOf(r) \in Nat
    BY <1>4, FitsMeans, Widths DEF UploadActs, EndOf
  <2>2. SameMeaning' /\ last'.request = r /\ last'.answer.error \in UploadErrors
    BY <1>4, <2>1, UploadAnswers, AnswersMean
  <2>3. last'.answer.error # "Error_Json" /\ last'.answer.error # "none"
    BY <2>2 DEF UploadErrors, SyncErrors
  <2>6. EndsInFile'
    <3>1. ~ (EndOf(r) > r.total_size.value)
      BY <2>1
    <3>. QED  BY <2>2, <3>1 DEF EndsInFile
  <2>7. ClientServed'
    BY <2>2, <2>3, Errors DEF ClientServed
  <2>8. MalformedStep
    BY <2>1, <2>2 DEF MalformedStep
  <2>. QED  BY <2>2, <2>6, <2>7, <2>8
<1>5. CASE UploadMisfits(r)
  <2>1. ~ IsMalformed(r) /\ r \in UploadRequests /\ last'.request = r /\ last'.answer = ErrorJson
    BY <1>5, Replied DEF UploadMisfits
  <2>2. r \notin ClientRequests
    BY <1>5, <2>1, FitsMeans, ClientAssumption DEF UploadMisfits
  <2>3. SameMeaning'
    BY <2>1, Errors DEF SameMeaning
  <2>4. EndsInFile'
    BY <2>1 DEF EndsInFile
  <2>5. ClientServed'
    BY <2>1, <2>2 DEF ClientServed
  <2>6. MalformedStep
    BY <2>1 DEF MalformedStep
  <2>. QED  BY <2>3, <2>4, <2>5, <2>6
<1>. QED  BY <1>1, <1>2, <1>3, <1>4, <1>5

\* Before the first request nothing is answered.
LEMMA AnswersFirst == Init => SameMeaning /\ EndsInFile /\ ClientServed
BY DEF Init, SameMeaning, EndsInFile, ClientServed

\* Every step keeps the properties of answers,
LEMMA AnswersNext ==
  ASSUME IInv, SameMeaning, EndsInFile, ClientServed, [Next]_vars
  PROVE  SameMeaning' /\ EndsInFile' /\ ClientServed'
<1>1. CASE Handle
  BY <1>1, HandleAnswers
<1>2. CASE Await
  BY <1>2 DEF Await, SameMeaning, EndsInFile, ClientServed
<1>3. CASE UNCHANGED vars
  <2>1. UNCHANGED <<meta, task, last>>
    BY <1>3 DEF vars, disk
  <2>2. SameMeaning'
    BY <2>1 DEF SameMeaning, MeansTask, Means, Intact, Written
  <2>3. EndsInFile' /\ ClientServed'
    BY <2>1 DEF EndsInFile, ClientServed
  <2>. QED  BY <2>2, <2>3
<1>. QED  BY <1>1, <1>2, <1>3 DEF Next

\* so they hold of every reachable state.
LEMMA AnswersRight == Spec => [](SameMeaning /\ EndsInFile /\ ClientServed)
<1>. DEFINE P == SameMeaning /\ EndsInFile /\ ClientServed
<1>1. Init => P
  BY AnswersFirst
<1>2. IInv /\ P /\ [Next]_vars => P'
  BY AnswersNext
<1>. HIDE DEF P
<1>3. Spec => []P
  BY Inductive, <1>1, <1>2, PTL DEF Spec
<1>. QED  BY <1>3 DEF P

(* A request is answered with success only if each of its values is the one*)
(* the task was made for, however it is spelled, and one that means the    *)
(* task gets no conflict while the metadata are intact.                    *)
THEOREM OneMeaning == Spec => []SameMeaning
<1>. QED  BY AnswersRight, PTL

(* A chunk that does not end within the file is refused, for every width of*)
(* the integers: the comparison never adds (LogicWorker.cpp:291).          *)
THEOREM WithinFile == Spec => []EndsInFile
<1>. QED  BY AnswersRight, PTL

(* A request as the client makes it is understood in any state of its task *)
(* (mainwindow.cpp:190-197, 240-252).                                      *)
THEOREM ClientUnderstood == Spec => []ClientServed
<1>. QED  BY AnswersRight, PTL

(* What is malformed never changes the disk: no value that the protocol    *)
(* does not allow passes the checks (LogicWorker.cpp:29-36, 180-198).      *)
THEOREM MalformedHarmless == Spec => MalformedKept
<1>1. ASSUME IInv, [Next]_vars PROVE [MalformedStep]_vars
  <2>1. CASE Handle
    BY <1>1, <2>1, HandleAnswers
  <2>2. CASE Await
    BY <2>2 DEF Await, MalformedStep
  <2>. QED  BY <1>1, <2>1, <2>2 DEF Next
<1>. QED  BY Inductive, <1>1, PTL DEF Spec, MalformedKept
===============================================================================
