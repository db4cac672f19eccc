------------------------------ MODULE JsonCoding ------------------------------
(***************************************************************************)
(* Whole numbers and characters as src/server/jsoncpp writes and reads     *)
(* them: decimal digits, UTF-8, and the escapes \uXXXX.  Digits and bytes   *)
(* are their values here; JsonValue, JsonReader and JsonWriter turn them   *)
(* into characters of a text and back.                                     *)
(*                                                                         *)
(* The four constants are the limits of Int/UInt and Int64/UInt64, scaled  *)
(* down: an unsigned sum wraps at MaxUInt64.                               *)
(***************************************************************************)
EXTENDS Integers, Sequences

CONSTANTS MaxInt, MaxUInt, MaxInt64, MaxUInt64

ASSUME WidthAssumption ==
    /\ MaxInt \in Nat /\ MaxInt64 \in Nat
    /\ MaxUInt = 2 * MaxInt + 1
    /\ MaxUInt64 = 2 * MaxInt64 + 1
    /\ MaxUInt < MaxInt64
    /\ 9 <= MaxInt64            \* the limits have two digits

MinInt == -MaxInt - 1
MinInt64 == -MaxInt64 - 1

Digit == 0..9

\* uintToString: the last digit is found first.
Decimal(n) ==
    LET digits[m \in 0..n] ==
          IF m < 10 THEN <<m>> ELSE Append(digits[m \div 10], m % 10)
    IN  digits[n]

\* The number of a sequence of digits, of any size.
NumberOf(d) ==
    LET value[k \in 0..Len(d)] == IF k = 0 THEN 0 ELSE 10 * value[k - 1] + d[k]
    IN  value[Len(d)]

-----------------------------------------------------------------------------
(* decodeNumber.                                                           *)

Double == -1        \* the number is left to decodeDouble

\* The digit d[k] behind the number value would pass 10 * threshold + last.
PassesLimit(value, d, k, threshold, last) ==
    value >= threshold /\ (value > threshold \/ k # Len(d) \/ d[k] > last)

\* The loop over the digits.
Accumulate(d, threshold, last) ==
    LET value[k \in 0..Len(d)] ==
          IF k = 0 THEN 0
          ELSE IF \/ value[k - 1] = Double
                  \/ PassesLimit(value[k - 1], d, k, threshold, last)
          THEN Double
          ELSE (value[k - 1] * 10 + d[k]) % (MaxUInt64 + 1)
    IN  value[Len(d)]

\* The magnitude that the digits d may have behind a minus sign or without one.
Limit(negative) == IF negative THEN -MinInt64 ELSE MaxUInt64

Magnitude(negative, d) == Accumulate(d, Limit(negative) \div 10, Limit(negative) % 10)

\* The negative number is put together without passing MinInt64.
Signed(negative, value) ==
    IF negative THEN -(value \div 10) * 10 - (value % 10) ELSE value

-----------------------------------------------------------------------------
(* Characters: a code point, its bytes in UTF-8, its UTF-16 units, and the *)
(* four hex digits of a unit.                                              *)

\* The last code points of one, two, three and four bytes.
Last1 == 127
Last2 == 2047
Last3 == 65535
Last4 == 1114111

Rest(cp, shift) == 128 + ((cp \div shift) % 64)
Bytes2(cp) == <<192 + (cp \div 64), Rest(cp, 1)>>
Bytes3(cp) == <<224 + (cp \div 4096), Rest(cp, 64), Rest(cp, 1)>>
Bytes4(cp) == <<240 + (cp \div 262144), Rest(cp, 4096), Rest(cp, 64), Rest(cp, 1)>>

codePointToUTF8(cp) ==
    IF cp <= Last1 THEN <<cp>>
    ELSE IF cp <= Last2 THEN Bytes2(cp)
    ELSE IF cp <= Last3 THEN Bytes3(cp)
    ELSE IF cp <= Last4 THEN Bytes4(cp) ELSE <<>>

\* utf8ToCodepoint at byte i: the code point and the bytes it takes.  What is
\* no UTF-8 becomes the replacement character; the rest bytes of a sequence
\* are not looked at, so any byte may be taken with it.
Replacement == 65533

LengthFrom(first) ==
    IF first < 128 THEN 1 ELSE IF first < 224 THEN 2
    ELSE IF first < 240 THEN 3 ELSE IF first < 248 THEN 4 ELSE 0

\* The bits of the n bytes from i on.
Bits(s, i, n) ==
    LET Low(k) == s[i + k] % 64
    IN  IF n = 1 THEN s[i]
        ELSE IF n = 2 THEN (s[i] % 32) * 64 + Low(1)
        ELSE IF n = 3 THEN (s[i] % 16) * 4096 + Low(1) * 64 + Low(2)
        ELSE (s[i] % 8) * 262144 + Low(1) * 4096 + Low(2) * 64 + Low(3)

\* An encoding longer than needed, or one of half a pair.
Oversized(cp, n) == n > 1 /\ cp <= (IF n = 2 THEN Last1 ELSE IF n = 3 THEN Last2 ELSE Last3)
IsSurrogate(cp)  == cp >= 55296 /\ cp <= 57343

utf8ToCodepoint(s, i) ==
    LET n  == LengthFrom(s[i])
        cp == Bits(s, i, n)
    IN  IF n = 0 \/ i + n - 1 > Len(s) THEN <<Replacement, 1>>
        ELSE IF Oversized(cp, n) \/ (n = 3 /\ IsSurrogate(cp)) THEN <<Replacement, n>>
        ELSE <<cp, n>>

\* The units escaped for a code point: beyond 16 bits two surrogates, whose
\* high one has ten bits even if the code point is out of range.
Units(cp) ==
    IF cp < 65536 THEN <<cp>>
    ELSE <<55296 + (((cp - 65536) \div 1024) % 1024), 56320 + (cp % 1024)>>

toHex16Bit(unit) ==
    <<unit \div 4096, (unit \div 256) % 16, (unit \div 16) % 16, unit % 16>>

\* The loop of decodeUnicodeEscapeSequence over four digits.
UnitOf(hex) == ((hex[1] * 16 + hex[2]) * 16 + hex[3]) * 16 + hex[4]

\* decodeUnicodeCodePoint: what stands behind a high surrogate is taken for
\* the low one whatever its value is.
IsHigh(unit) == unit >= 55296 /\ unit <= 56319
Paired(high, low) == 65536 + (high % 1024) * 1024 + (low % 1024)
=============================================================================
