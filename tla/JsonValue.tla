------------------------------ MODULE JsonValue ------------------------------
(***************************************************************************)
(* Json::Value as the server uses it: a value of the JSON library that is  *)
(* kept beside the server (src/server/jsoncpp), the tests and conversions  *)
(* the handlers make, and the members of an object.                        *)
(*                                                                         *)
(* A text is a sequence of characters.  A printable character is the       *)
(* string of that one character, any other byte goes by its two hex        *)
(* digits: "E9" is the byte 0xE9.  Integers keep their width.  A double    *)
(* is an exact decimal n/d, d a power of ten: its rounding to 53 bits is   *)
(* abstracted.  Comments and text offsets are left out.                    *)
(***************************************************************************)
EXTENDS JsonCoding, FiniteSets, SequencesExt

Chars(s) == [i \in 1..Len(s) |-> SubSeq(s, i, i)]

HexDigits == Chars("0123456789abcdef")
Hex(n) == HexDigits[n + 1]

\* The bytes 32..95 and 97..126; the byte between them goes by its digits.
Printable == Chars(" !\"#$%&'(" \o ")" \o "*+,-./0123456789:;<=>?@"
                   \o "ABCDEFGHIJKLMNOPQRSTUVWXYZ[\\]^_")
Printable2 == Chars("abcdefghijklmnopqrstuvwxyz{|}~")

UpperHex(n) == SubSeq("0123456789ABCDEF", n + 1, n + 1)

CharOf == [n \in 0..255 |->
    CASE n \in 32..95  -> Printable[n - 31]
      [] n \in 97..126 -> Printable2[n - 96]
      [] n = 9  -> "\t" [] n = 10 -> "\n" [] n = 12 -> "\f" [] n = 13 -> "\r"
      [] OTHER  -> UpperHex(n \div 16) \o UpperHex(n % 16)]

Code == [c \in Range(CharOf) |-> CHOOSE n \in DOMAIN CharOf : CharOf[n] = c]

\* The bytes of a text, and a text of bytes.
Codes(s) == [i \in 1..Len(s) |-> Code[s[i]]]
TextOf(bytes) == [i \in 1..Len(bytes) |-> CharOf[bytes[i]]]

Digits == {CharOf[n] : n \in 48..57}
DigitOf(c) == Code[c] - 48

-----------------------------------------------------------------------------
(* The eight types of a value.  A field is named for the type, so that two *)
(* values of different types never compare their payloads.                 *)

Null        == [type |-> "nullValue"]
IntOf(n)    == [type |-> "intValue",  number |-> <<n, 1>>]
UIntOf(n)   == [type |-> "uintValue", number |-> <<n, 1>>]
Real(n, d)  == [type |-> "realValue", number |-> <<n, d>>]
String(s)   == [type |-> "stringValue", string |-> s]
Bool(b)     == [type |-> "booleanValue", bool |-> b]
Array(a)    == [type |-> "arrayValue", array |-> a]
Object(m)   == [type |-> "objectValue", map |-> m]

IsNumber(v) == v.type \in {"intValue", "uintValue", "realValue"}

\* A number, its whole part, and its comparison with a limit.
Whole(v)     == v.number[1] % v.number[2] = 0
Trunc(v)     == LET n == v.number[1]  d == v.number[2]
                IN  IF n < 0 THEN -((-n) \div d) ELSE n \div d
AtLeast(v, k) == v.number[1] >= k * v.number[2]
AtMost(v, k)  == v.number[1] <= k * v.number[2]

\* Value(UInt64), Value(Int64) after reading: the reader keeps what fits an
\* Int64 as an intValue and only the rest as an uintValue.
Integer(n) == IF n <= MaxInt64 THEN IntOf(n) ELSE UIntOf(n)

-----------------------------------------------------------------------------
(* isInt, isUInt, isInt64, isUInt64.                                       *)

WholeIn(v, lo, hi) == IsNumber(v) /\ Whole(v) /\ AtLeast(v, lo) /\ AtMost(v, hi)

IsInt(v)    == WholeIn(v, MinInt, MaxInt)
IsUInt(v)   == WholeIn(v, 0, MaxUInt)
IsUInt64(v) == WholeIn(v, 0, MaxUInt64)
\* A double next to the lower limit may have been rounded to it.
IsInt64(v)  == WholeIn(v, IF v.type = "realValue" THEN MinInt64 + 1 ELSE MinInt64, MaxInt64)

-----------------------------------------------------------------------------
(* A conversion has a set of possible results: a value, or the exception   *)
(* Json::LogicError, and more than one where the conversion is undefined.  *)

Got(x)     == [thrown |-> FALSE, value |-> x]
LogicError == [thrown |-> TRUE]

\* InRange(d, 0, max): a double is in range up to double(max), the power of
\* two above max, but not strictly between 0 and 1.
RealInRange(v, hi) ==
    /\ AtLeast(v, 0) /\ AtMost(v, hi + 1)
    /\ ~ (Trunc(v) = 0 /\ v.number[1] # 0)

AsUInt64(v) ==
    CASE v.type = "intValue"  -> {IF IsUInt64(v) THEN Got(v.number[1]) ELSE LogicError}
      [] v.type = "uintValue" -> {Got(v.number[1])}
      [] v.type = "realValue" ->
           IF ~ RealInRange(v, MaxUInt64) THEN {LogicError}
           ELSE IF AtMost(v, MaxUInt64) THEN {Got(Trunc(v))}
           ELSE {Got(0), Got(MaxInt64 + 1), Got(MaxUInt64)}
      [] v.type = "nullValue"    -> {Got(0)}
      [] v.type = "booleanValue" -> {Got(IF v.bool THEN 1 ELSE 0)}
      [] OTHER                   -> {LogicError}

AsInt64(v) ==
    CASE v.type = "intValue"  -> Got(v.number[1])
      [] v.type = "uintValue" -> IF IsInt64(v) THEN Got(v.number[1]) ELSE LogicError
      [] v.type = "realValue" ->
           IF AtLeast(v, MinInt64) /\ AtMost(v, MaxInt64) /\ v.number # <<MinInt64, 1>>
           THEN Got(Trunc(v)) ELSE LogicError
      [] v.type = "nullValue"    -> Got(0)
      [] v.type = "booleanValue" -> Got(IF v.bool THEN 1 ELSE 0)
      [] OTHER                   -> LogicError

AsInt(v) ==
    CASE v.type \in {"intValue", "uintValue"} -> IF IsInt(v) THEN Got(v.number[1]) ELSE LogicError
      [] v.type = "realValue" ->
           IF AtLeast(v, MinInt) /\ AtMost(v, MaxInt) THEN Got(Trunc(v)) ELSE LogicError
      [] v.type = "nullValue"    -> Got(0)
      [] v.type = "booleanValue" -> Got(IF v.bool THEN 1 ELSE 0)
      [] OTHER                   -> LogicError

AsBool(v) ==
    CASE v.type = "booleanValue" -> Got(v.bool)
      [] v.type = "nullValue"    -> Got(FALSE)
      [] IsNumber(v)             -> Got(v.number[1] # 0)
      [] OTHER                   -> LogicError

\* valueToString
DecimalText(n) == LET d == Decimal(n) IN TextOf([i \in 1..Len(d) |-> 48 + d[i]])

IntText(n) == IF n < 0 THEN <<"-">> \o DecimalText(-n) ELSE DecimalText(n)

\* valueToString(double): at least one digit behind the point
RealText(v) ==
    LET n == v.number[1]  d == v.number[2]
        m == IF n < 0 THEN -n ELSE n
    IN  (IF n < 0 THEN <<"-">> ELSE <<>>) \o DecimalText(m \div d) \o <<".">>
        \o (IF d = 1 THEN <<"0">> ELSE Tail(DecimalText(d + (m % d))))

NumberText(v) == IF v.type = "realValue" THEN RealText(v) ELSE IntText(v.number[1])
BoolText(b)   == IF b THEN Chars("true") ELSE Chars("false")

AsString(v) ==
    CASE v.type = "nullValue"    -> Got(<<>>)
      [] v.type = "stringValue"  -> Got(v.string)
      [] v.type = "booleanValue" -> Got(BoolText(v.bool))
      [] IsNumber(v)             -> Got(NumberText(v))
      [] OTHER                   -> LogicError

-----------------------------------------------------------------------------
(* Members.  A name is compared byte by byte, a prefix comes first: the    *)
(* order in which the members of an object are written.                    *)

Before(s, t) ==
    \/ Len(s) < Len(t) /\ IsPrefix(s, t)
    \/ \E i \in 1..Len(s) :
         /\ i <= Len(t)
         /\ Code[s[i]] < Code[t[i]]
         /\ \A j \in 1..(i - 1) : s[j] = t[j]

MemberNames(v) ==
    LET names == DOMAIN v.map
    IN  [i \in 1..Cardinality(names) |->
           CHOOSE k \in names : Cardinality({n \in names : Before(n, k)}) = i - 1]

\* array[size] = x
WithElement(a, x) == Append(a, x)

\* array[i]: null behind the end
Element(a, i) == IF i \in DOMAIN a THEN a[i] ELSE Null

NoMembers == [k \in {} |-> Null]

\* resolveReference makes an object of null; any other type but an object throws.
IsObjectLike(v) == v.type \in {"nullValue", "objectValue"}
Members(v) == IF v.type = "nullValue" THEN NoMembers ELSE v.map

\* value[key]: the member, null when there is none
Member(v, k) == IF k \in DOMAIN Members(v) THEN Members(v)[k] ELSE Null

\* value[key] = x
WithMember(v, k, x) ==
    LET m == Members(v) IN Object([n \in DOMAIN m \cup {k} |-> IF n = k THEN x ELSE m[n]])

\* Reading a value: the value and the position behind it, an error, or the
\* exception RuntimeError.
Done(v, i) == [result |-> "ok", value |-> v, next |-> i]
Failed     == [result |-> "error"]
Exceeded   == [result |-> "throws"]
=============================================================================
