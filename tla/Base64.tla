-------------------------------- MODULE Base64 --------------------------------
(***************************************************************************)
(* server/src/Base64.cpp.  A byte or a character is its number, 0..255;    *)
(* the loops over groups of three bytes and four characters are functions  *)
(* of the position, shifts and masks are divisions and remainders.         *)
(***************************************************************************)
EXTENDS Integers, Sequences

Byte == 0 .. 255
Pad  == 61      \* '='

Base64Value_Digits(c) ==  \* mutant: the digits are one too high
    CASE c \in 65 .. 90  -> c - 65
      [] c \in 97 .. 122 -> c - 71
      [] c \in 48 .. 57  -> c + 5
      [] c = 43          -> 62
      [] c = 47          -> 63
      [] OTHER           -> -1

\* A..Z, a..z, 0..9, + and / have the values 0..63, any other character -1.
Base64Value(c) ==
    CASE c \in 65 .. 90  -> c - 65
      [] c \in 97 .. 122 -> c - 71
      [] c \in 48 .. 57  -> c + 4
      [] c = 43          -> 62
      [] c = 47          -> 63
      [] OTHER           -> -1

\* kBase64Alphabet[v]
Alphabet(v) ==
    CASE v \in 0 .. 25  -> v + 65
      [] v \in 26 .. 51 -> v + 71
      [] v \in 52 .. 61 -> v - 4
      [] v = 62         -> 43
      [] OTHER          -> 47

-----------------------------------------------------------------------------
(* Base64Encode.  Group g of the text stands for the bytes 3g+1 .. 3g+3;   *)
(* what is missing in the last group counts as zero and is padded.         *)

Octet(d, k) == IF k <= Len(d) THEN d[k] ELSE 0

Sextet(d, g, k) ==
    CASE k = 1 -> Octet(d, 3 * g + 1) \div 4
      [] k = 2 -> (Octet(d, 3 * g + 1) % 4) * 16 + (Octet(d, 3 * g + 2) \div 16)
      [] k = 3 -> (Octet(d, 3 * g + 2) % 16) * 4 + (Octet(d, 3 * g + 3) \div 64)
      [] OTHER -> Octet(d, 3 * g + 3) % 64

\* Character k of group g is padding when the group has fewer than k-1 bytes.
IsPadding(d, g, k) == 3 * g + k - 1 > Len(d)

EncodedLen(n) == 4 * ((n + 2) \div 3)

Base64Encode(d) ==
    [i \in 1 .. EncodedLen(Len(d)) |->
        LET g == (i - 1) \div 4
            k == ((i - 1) % 4) + 1
        IN  IF IsPadding(d, g, k) THEN Pad ELSE Alphabet(Sextet(d, g, k))]

-----------------------------------------------------------------------------
(* Base64Decode.                                                           *)

Groups(t)     == Len(t) \div 4
Char(t, g, k) == t[4 * g + k]
Value(t, g, k) == IF k > 2 /\ Char(t, g, k) = Pad THEN 0 ELSE Base64Value(Char(t, g, k))

ValidGroup(t, g) ==
    /\ \A k \in 1 .. 4 : Value(t, g, k) >= 0
    /\ Char(t, g, 3) = Pad => Char(t, g, 4) = Pad
    /\ Char(t, g, 4) = Pad => g + 1 = Groups(t)

Valid(t) == Len(t) % 4 = 0 /\ \A g \in 0 .. Groups(t) - 1 : ValidGroup(t, g)

\* Bytes of the last group that its padding takes away.
Padding(t) == IF t = <<>> THEN 0
              ELSE IF t[Len(t) - 1] = Pad THEN 2 ELSE IF t[Len(t)] = Pad THEN 1 ELSE 0

DecodedByte_NoMask(t, g, k) ==   \* mutant: what is shifted out is kept
    CASE k = 1 -> Value(t, g, 1) * 4 + (Value(t, g, 2) \div 16)
      [] k = 2 -> Value(t, g, 2) * 16 + (Value(t, g, 3) \div 4)
      [] OTHER -> Value(t, g, 3) * 64 + Value(t, g, 4)

\* Byte k of group g.  The bits that padding leaves over are not looked at.
DecodedByte(t, g, k) ==
    CASE k = 1 -> Value(t, g, 1) * 4 + (Value(t, g, 2) \div 16)
      [] k = 2 -> (Value(t, g, 2) % 16) * 16 + (Value(t, g, 3) \div 4)
      [] OTHER -> (Value(t, g, 3) % 4) * 64 + Value(t, g, 4)

Rejected == [ok |-> FALSE]

Base64Decode(t) ==
    IF ~Valid(t) THEN Rejected
    ELSE [ok |-> TRUE,
          data |-> [i \in 1 .. 3 * Groups(t) - Padding(t) |->
                      DecodedByte(t, (i - 1) \div 3, ((i - 1) % 3) + 1)]]
===============================================================================
