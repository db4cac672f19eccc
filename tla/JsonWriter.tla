------------------------------ MODULE JsonWriter ------------------------------
(***************************************************************************)
(* Value::toStyledString: BuiltStyledStreamWriter with the default         *)
(* StreamWriterBuilder of src/server/jsoncpp.  The default keeps comments  *)
(* (the server's values have none), which makes every array a multi-line   *)
(* one; special floats and precision are left out with the rounding.       *)
(***************************************************************************)
EXTENDS JsonValue

\* setDefaults of the StreamWriterBuilder
WriterSettings == [indentation |-> <<"\t">>, enableYAMLCompatibility |-> FALSE,
                   dropNullPlaceholders |-> FALSE, emitUTF8 |-> FALSE]

newStreamWriter(settings) ==
    [indentation |-> settings.indentation, emitUTF8 |-> settings.emitUTF8,
     colonSymbol |-> IF settings.enableYAMLCompatibility THEN Chars(": ")
                     ELSE IF settings.indentation = <<>> THEN <<":">>
                     ELSE Chars(" : "),
     nullSymbol |-> IF settings.dropNullPlaceholders THEN <<>> ELSE Chars("null"),
     endingLineFeedSymbol |-> <<>>]

Writer == newStreamWriter(WriterSettings)

-----------------------------------------------------------------------------
(* Strings.                                                                *)

appendHex(unit) ==
    LET d == toHex16Bit(unit) IN Chars("\\u") \o [i \in 1..4 |-> Hex(d[i])]

Escapes == [c \in {"\"", "\\", "08", "\f", "\n", "\r", "\t"} |->
    CASE c = "08" -> "b" [] c = "\f" -> "f" [] c = "\n" -> "n"
      [] c = "\r" -> "r" [] c = "\t" -> "t" [] OTHER -> c]

\* One code point of a string, escaped.
Escaped(cp) ==
    IF cp \in 32..127 THEN <<CharOf[cp]>>
    ELSE FlattenSeq([k \in DOMAIN Units(cp) |-> appendHex(Units(cp)[k])])

RECURSIVE EscapedFrom(_, _)
EscapedFrom(s, i) ==
    IF i > Len(s) THEN <<>>
    ELSE IF s[i] \in DOMAIN Escapes THEN <<"\\", Escapes[s[i]]>> \o EscapedFrom(s, i + 1)
    ELSE IF Writer.emitUTF8
    THEN (IF Code[s[i]] < 32 THEN appendHex(Code[s[i]]) ELSE <<s[i]>>) \o EscapedFrom(s, i + 1)
    ELSE LET cp == utf8ToCodepoint(Codes(s), i) IN Escaped(cp[1]) \o EscapedFrom(s, i + cp[2])

doesAnyCharRequireEscaping(s) ==
    \E i \in DOMAIN s : s[i] \in {"\\", "\""} \/ Code[s[i]] < 32 \/ Code[s[i]] > 127

\* valueToQuotedStringN
Quoted(s) == <<"\"">> \o (IF doesAnyCharRequireEscaping(s) THEN EscapedFrom(s, 1) ELSE s) \o <<"\"">>

-----------------------------------------------------------------------------
(* Values.                                                                 *)

\* indentString_ after depth calls of indent
indentString(depth) == FlattenSeq([i \in 1..depth |-> Writer.indentation])

\* Without an indentation there are no new lines either.
writeIndent(depth) == IF Writer.indentation = <<>> THEN <<>> ELSE <<"\n">> \o indentString(depth)

writeWithIndent(text, depth, indented) == (IF indented THEN <<>> ELSE writeIndent(depth)) \o text

\* What pushValue writes of a scalar or an empty container.
Scalars(v) ==
    CASE v.type = "nullValue"    -> Writer.nullSymbol
      [] v.type = "booleanValue" -> BoolText(v.bool)
      [] v.type = "stringValue"  -> Quoted(v.string)
      [] v.type = "arrayValue"   -> Chars("[]")
      [] v.type = "objectValue"  -> Chars("{}")
      [] OTHER                   -> NumberText(v)

IsEmpty(v) == CASE v.type = "arrayValue"  -> v.array = <<>>
                [] v.type = "objectValue" -> DOMAIN v.map = {}
                [] OTHER                  -> TRUE

\* Lines joined by commas.
RECURSIVE Joined(_)
Joined(lines) == IF Len(lines) = 1 THEN lines[1] ELSE lines[1] \o <<",">> \o Joined(Tail(lines))

\* writeValue and writeArrayValue at a depth; indented is indented_, an
\* opening brace or bracket goes to a new line unless it is set.
RECURSIVE writeValue(_, _, _)
writeValue(v, depth, indented) ==
    LET names == MemberNames(v)
    IN  IF IsEmpty(v) THEN Scalars(v)
        ELSE IF v.type = "objectValue"
        THEN writeWithIndent(<<"{">>, depth, indented)
             \o Joined([i \in DOMAIN names |->
                          writeWithIndent(Quoted(names[i]), depth + 1, FALSE) \o Writer.colonSymbol
                          \o writeValue(v.map[names[i]], depth + 1, FALSE)])
             \o writeWithIndent(<<"}">>, depth, FALSE)
        ELSE writeWithIndent(<<"[">>, depth, indented)
             \o Joined([i \in DOMAIN v.array |->
                          writeIndent(depth + 1) \o writeValue(Element(v.array, i), depth + 1, TRUE)])
             \o writeWithIndent(<<"]">>, depth, FALSE)

write(v) == writeValue(v, 0, TRUE) \o Writer.endingLineFeedSymbol

\* The text of write, and a line end
toStyledString(v) == write(v) \o <<"\n">>
=============================================================================
