------------------------------ MODULE JsonReader ------------------------------
(***************************************************************************)
(* Json::parseFromStream with the default CharReaderBuilder: OurReader of  *)
(* src/server/jsoncpp, the way the server reads requests and metadata.     *)
(*                                                                         *)
(* The settings decide which branches exist.  A comma may trail, and what  *)
(* is off and would need tokens of its own - numeric names, single quotes, *)
(* special floats, dropped nulls - is left out.  Once a value has an error *)
(* the rest of the text is only skipped, so a failure is one result here;  *)
(* what comments say and where errors are is left out.                     *)
(***************************************************************************)
EXTENDS JsonValue

CONSTANT StackLimit

ASSUME StackAssumption == StackLimit \in Nat \ {0}

\* setDefaults: a repeated name keeps its last value, any type may be the
\* root, what follows it is ignored.
Settings == [allowComments |-> TRUE, strictRoot |-> FALSE, stackLimit |-> StackLimit,
             failIfExtra |-> FALSE, rejectDupKeys |-> FALSE, skipBom |-> TRUE]

newCharReader(settings) ==
    [allowComments |-> settings.allowComments, strictRoot |-> settings.strictRoot,
     stackLimit |-> settings.stackLimit, failIfExtra |-> settings.failIfExtra,
     rejectDupKeys |-> settings.rejectDupKeys, skipBom |-> settings.skipBom]

\* The features_ of the reader
Features == newCharReader(Settings)

Spaces == {" ", "\t", "\r", "\n"}

RECURSIVE SkipWhile(_, _, _)
SkipWhile(t, i, S) == IF i <= Len(t) /\ t[i] \in S THEN SkipWhile(t, i + 1, S) ELSE i

\* getNextChar
At(t, i) == IF i <= Len(t) THEN t[i] ELSE "00"

\* match: the pattern stands at i
Matches(t, i, p) == i + Len(p) - 1 <= Len(t) /\ SubSeq(t, i, i + Len(p) - 1) = p

skipBom(t) == IF Matches(t, 1, <<"EF", "BB", "BF">>) THEN 4 ELSE 1

-----------------------------------------------------------------------------
(* Tokens: [start, next) of a text.                                        *)

Token(type, i, j) == [type |-> type, start |-> i, next |-> j]
BadToken          == [type |-> "tokenError"]

Punctuation == [c \in {"{", "}", "[", "]", ",", ":", "00"} |->
    CASE c = "{" -> "tokenObjectBegin" [] c = "}" -> "tokenObjectEnd"
      [] c = "[" -> "tokenArrayBegin"  [] c = "]" -> "tokenArrayEnd"
      [] c = "," -> "tokenArraySeparator" [] c = ":" -> "tokenMemberSeparator"
      [] OTHER   -> "tokenEndOfStream"]

\* readString: behind the closing quote, 0 when there is none.  A backslash
\* takes the next character with it.
RECURSIVE readString(_, _)
readString(t, i) ==
    IF i > Len(t) THEN 0
    ELSE IF t[i] = "\\" THEN readString(t, i + 2)
    ELSE IF t[i] = "\"" THEN i + 1
    ELSE readString(t, i + 1)

\* readNumber: digits, a fraction, an exponent, each of them possibly empty.
readNumber(t, i) ==
    LET j == SkipWhile(t, i, Digits)
        k == IF At(t, j) = "." THEN SkipWhile(t, j + 1, Digits) ELSE j
    IN  IF At(t, k) \notin {"e", "E"} THEN k
        ELSE SkipWhile(t, IF At(t, k + 1) \in {"+", "-"} THEN k + 2 ELSE k + 1, Digits)

\* readCStyleComment: behind the closing mark, 0 when there is none.  At the
\* end of the text a slash alone closes it.
RECURSIVE readCStyleComment(_, _)
readCStyleComment(t, i) ==
    IF i >= Len(t) THEN (IF At(t, i) = "/" THEN i + 1 ELSE 0)
    ELSE IF t[i] = "*" /\ t[i + 1] = "/" THEN i + 2
    ELSE readCStyleComment(t, i + 1)

\* readCppStyleComment: to the end of the line, a CR LF ends it once.
readCppStyleComment(t, i) ==
    LET j == SkipWhile(t, i, Range(t) \ {"\r", "\n"})
    IN  IF j > Len(t) THEN j
        ELSE IF t[j] = "\r" /\ At(t, j + 1) = "\n" THEN j + 2
        ELSE j + 1

readComment(t, i) ==
    CASE At(t, i) = "*" -> readCStyleComment(t, i + 1)
      [] At(t, i) = "/" -> readCppStyleComment(t, i + 1)
      [] OTHER          -> 0

Keywords == [c \in {"t", "f", "n"} |->
    CASE c = "t" -> [type |-> "tokenTrue",  rest |-> Chars("rue")]
      [] c = "f" -> [type |-> "tokenFalse", rest |-> Chars("alse")]
      [] OTHER   -> [type |-> "tokenNull",  rest |-> Chars("ull")]]

TokenTo(type, i, j) == IF j = 0 THEN BadToken ELSE Token(type, i, j)

\* A sign must not be followed by the I of Infinity.
readToken(t, p) ==
    LET i == SkipWhile(t, p, Spaces)
        c == At(t, i)
    IN  CASE c \in DOMAIN Punctuation -> Token(Punctuation[c], i, IF i > Len(t) THEN i ELSE i + 1)
          [] c = "\""    -> TokenTo("tokenString", i, readString(t, i + 1))
          [] c = "/"     -> TokenTo("tokenComment", i, readComment(t, i + 1))
          [] c \in Digits -> Token("tokenNumber", i, readNumber(t, i))
          [] c \in {"+", "-"} /\ At(t, i + 1) # "I" -> Token("tokenNumber", i, readNumber(t, i + 1))
          [] c \in DOMAIN Keywords /\ Matches(t, i + 1, Keywords[c].rest) ->
                Token(Keywords[c].type, i, i + 1 + Len(Keywords[c].rest))
          [] OTHER -> BadToken

RECURSIVE readTokenSkippingComments(_, _), SkipComment(_, _)
SkipComment(t, token) ==
    IF Features.allowComments /\ token.type = "tokenComment"
    THEN readTokenSkippingComments(t, token.next) ELSE token

readTokenSkippingComments(t, i) == SkipComment(t, readToken(t, i))

-----------------------------------------------------------------------------
(* Numbers.                                                                *)

\* The digits of a text of digits.
DigitsOf(s) == [i \in 1..Len(s) |-> DigitOf(s[i])]

\* A decimal n/d with the smallest power of ten below it.
RECURSIVE Reduced(_, _)
Reduced(n, d) == IF d > 1 /\ n % 10 = 0 THEN Reduced(n \div 10, d \div 10) ELSE Real(n, d)

\* decodeDouble: what a stream reads of the token; it needs a digit before
\* the exponent, and one in the exponent if there is an e.
decodeDouble(s) ==
    LET i == IF s[1] \in {"+", "-"} THEN 2 ELSE 1
        j == SkipWhile(s, i, Digits)
        k == IF At(s, j) = "." THEN SkipWhile(s, j + 1, Digits) ELSE j
        fraction == SubSeq(s, j + 1, k - 1)
        mantissa == SubSeq(s, i, j - 1) \o fraction
        e == IF At(s, k + 1) \in {"+", "-"} THEN k + 2 ELSE k + 1
        exponent == (IF At(s, k + 1) = "-" THEN -1 ELSE 1) * NumberOf(DigitsOf(SubSeq(s, e, Len(s))))
        scale == exponent - Len(fraction)
        n == (IF s[1] = "-" THEN -1 ELSE 1) * NumberOf(DigitsOf(mantissa))
    IN  IF mantissa = <<>> \/ (k <= Len(s) /\ e > Len(s)) THEN Failed
        ELSE Done(IF scale >= 0 THEN Real(n * 10^scale, 1) ELSE Reduced(n, 10^(-scale)), 0)

\* decodeNumber: a whole number that fits becomes an Int64, else an UInt64,
\* else a double.  A lone minus sign is zero.
decodeNumber(s) ==
    LET negative == s[1] = "-"
        digits == IF negative THEN Tail(s) ELSE s
        value == Magnitude(negative, DigitsOf(digits))
    IN  IF Range(digits) \subseteq Digits /\ value # Double
        THEN Done(IF negative THEN IntOf(Signed(negative, value)) ELSE Integer(value), 0)
        ELSE decodeDouble(s)

-----------------------------------------------------------------------------
(* Strings.                                                                *)

HexValue == [c \in Range(HexDigits) \cup Range(Chars("ABCDEF")) |->
    CASE c \in Digits -> DigitOf(c)
      [] c \in Range(HexDigits) \ Digits -> Code[c] - 87
      [] OTHER -> Code[c] - 55]

\* decodeUnicodeEscapeSequence: the four hex digits at i, -1 when they are not.
decodeUnicodeEscapeSequence(s, i) ==
    IF Len(s) - i < 3 \/ \E k \in i..(i + 3) : s[k] \notin DOMAIN HexValue THEN -1
    ELSE UnitOf([k \in 1..4 |-> HexValue[s[i + k - 1]]])

\* decodeUnicodeCodePoint: code point and the position behind it, -1 on an
\* error.
Surrogates(high, low, i) ==
    IF ~IsHigh(high) THEN <<high, i + 4>>
    ELSE IF low >= 0 THEN <<Paired(high, low), i + 10>>
    ELSE <<-1, i>>

decodeUnicodeCodePoint(s, i) ==
    Surrogates(decodeUnicodeEscapeSequence(s, i),
               IF Len(s) - i >= 9 /\ s[i + 4] = "\\" /\ s[i + 5] = "u"
               THEN decodeUnicodeEscapeSequence(s, i + 6) ELSE -1,
               i)

Unescaped == [c \in {"\"", "/", "\\", "b", "f", "n", "r", "t"} |->
    CASE c = "b" -> "08" [] c = "f" -> "\f" [] c = "n" -> "\n"
      [] c = "r" -> "\r" [] c = "t" -> "\t" [] OTHER -> c]

\* decodeString of s, the text between the quotes, from i on.
RECURSIVE Decode(_, _, _)
AfterCodePoint(s, cp, decoded) ==
    IF cp[1] < 0 THEN Failed ELSE Decode(s, cp[2], decoded \o TextOf(codePointToUTF8(cp[1])))

Decode(s, i, decoded) ==
    IF i > Len(s) THEN Done(decoded, 0)
    ELSE IF s[i] # "\\"
    THEN IF Code[s[i]] < 32 THEN Failed ELSE Decode(s, i + 1, Append(decoded, s[i]))
    ELSE IF At(s, i + 1) \in DOMAIN Unescaped
    THEN Decode(s, i + 2, Append(decoded, Unescaped[s[i + 1]]))
    ELSE IF At(s, i + 1) # "u" THEN Failed
    ELSE AfterCodePoint(s, decodeUnicodeCodePoint(s, i + 2), decoded)

decodeString(t, token) == Decode(SubSeq(t, token.start + 1, token.next - 2), 1, <<>>)

-----------------------------------------------------------------------------
(* Values.  depth is the size of nodes_, the root counts.                  *)

RECURSIVE readValue(_, _, _), readObject(_, _, _, _), readArray(_, _, _, _)

\* The result r of reading a scalar token.
Scalar(r, V(_), token) == IF r.result = "ok" THEN Done(V(r.value), token.next) ELSE Failed

Same(v) == v

\* readValue from its first token on; a container is read with nothing in it.
ValueFrom(t, token, depth) ==
    CASE token.type = "tokenObjectBegin" -> readObject(t, token.next, depth, NoMembers)
      [] token.type = "tokenArrayBegin"  -> readArray(t, token.next, depth, <<>>)
      [] token.type = "tokenNumber" ->
           Scalar(decodeNumber(SubSeq(t, token.start, token.next - 1)), Same, token)
      [] token.type = "tokenString" -> Scalar(decodeString(t, token), String, token)
      [] token.type = "tokenTrue"   -> Done(Bool(TRUE), token.next)
      [] token.type = "tokenFalse"  -> Done(Bool(FALSE), token.next)
      [] token.type = "tokenNull"   -> Done(Null, token.next)
      [] OTHER                      -> Failed

readValue(t, i, depth) ==
    IF depth > Features.stackLimit THEN Exceeded
    ELSE ValueFrom(t, readTokenSkippingComments(t, i), depth)

\* Behind a member: the end of the object m, or its next member.
EndMember(t, depth, m, comma) ==
    IF comma.type = "tokenObjectEnd" THEN Done(Object(m), comma.next)
    ELSE IF comma.type = "tokenArraySeparator" THEN readObject(t, comma.next, depth, m)
    ELSE Failed

\* The value of a member is read; a repeated name keeps the last one.
AddMember(t, depth, m, name, value) ==
    IF value.result # "ok" THEN value
    ELSE EndMember(t, depth,
                   [k \in DOMAIN m \cup {name} |-> IF k = name THEN value.value ELSE m[k]],
                   readTokenSkippingComments(t, value.next))

\* The name of a member and the token behind it are read.
ReadMember(t, depth, m, name, colon) ==
    IF name.result # "ok" \/ (Features.rejectDupKeys /\ name.value \in DOMAIN m) THEN Failed
    ELSE IF colon.type # "tokenMemberSeparator" THEN Failed
    ELSE AddMember(t, depth, m, name.value, readValue(t, colon.next, depth + 1))

\* readObject behind the brace or a comma, from its token on.
ObjectFrom(t, depth, m, token) ==
    IF token.type = "tokenObjectEnd" THEN Done(Object(m), token.next)
    ELSE IF token.type # "tokenString" THEN Failed
    ELSE ReadMember(t, depth, m, decodeString(t, token), readToken(t, token.next))

\* m are the members read so far.
readObject(t, i, depth, m) == ObjectFrom(t, depth, m, readTokenSkippingComments(t, i))

\* Behind an element: the end of the array a, or its next element.
EndElement(t, depth, a, comma) ==
    IF comma.type = "tokenArrayEnd" THEN Done(Array(a), comma.next)
    ELSE IF comma.type = "tokenArraySeparator" THEN readArray(t, comma.next, depth, a)
    ELSE Failed

AddElement(t, depth, a, value) ==
    IF value.result # "ok" THEN value
    ELSE EndElement(t, depth, WithElement(a, value.value), readTokenSkippingComments(t, value.next))

\* readArray behind the bracket or a comma, with the elements read so far.
readArray(t, i, depth, a) ==
    LET j == SkipWhile(t, i, Spaces)
    IN  IF At(t, j) = "]" THEN Done(Array(a), j + 1)
        ELSE AddElement(t, depth, a, readValue(t, j, depth + 1))

\* The text behind the root, and the type of the root.
CheckRoot(t, value) ==
    IF value.result # "ok" THEN value
    ELSE IF \/ /\ Features.failIfExtra
               /\ readTokenSkippingComments(t, value.next).type # "tokenEndOfStream"
            \/ /\ Features.strictRoot
               /\ value.value.type \notin {"arrayValue", "objectValue"}
    THEN Failed ELSE value

\* OurReader::parse on the whole text
Parse(t) == CheckRoot(t, readValue(t, IF Features.skipBom THEN skipBom(t) ELSE 1, 1))

parseFromStream(t) == Parse(t)
=============================================================================
