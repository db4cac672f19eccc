------------------------------ MODULE MCMetaFile ------------------------------
(* MetaFile with a file of five bytes, sent as 3 + 2, and requests that     *)
(* differ from the client's in one field.  The texts of the fields are      *)
(* literal, so that the values beside them are independent of the reader.   *)
EXTENDS MetaFile, JsonReader, JsonWriter

F(text, value) == [text |-> text, value |-> value]
Plain(s)   == F(Chars(s), Malformed)                        \* not a value
Number(s, n) == F(Chars(s), n)
Quote(t)   == <<"\"">> \o t \o <<"\"">>
Txt(s)     == F(Quote(Chars(s)), Chars(s))                  \* needs no escapes
Means_(t, v) == F(Quote(t), v)

Acute == <<"C3", "A9">>
Face  == <<"F0", "9F", "98", "80">>

Ids == {Means_(Chars("a/b"), Malformed), Means_(<<>>, Malformed),
        Means_(Chars("abcdefghi"), Malformed), Means_(<<"C3", "A9">>, Malformed),
        Plain("["), Plain("{}"), Plain("[[[1]]]")}

Md5s == {Means_(Chars("\\u006D"), Chars("m")), Number("10", Chars("10")), Txt("10"),
         Means_(Chars("\\\\\\\"\\t\\u0001\\u007f"), <<"\\", "\"", "\t", "01", "7F">>),
         F(Chars("null"), Malformed), Means_(<<>>, Malformed), Plain("\"m"), Plain("\"\\u00g0\"")}

Names == {Means_(Chars("n\\u00e9"), <<"n">> \o Acute), Means_(<<"n">> \o Acute, <<"n">> \o Acute),
          Means_(Chars("\\uD83D\\uDE00"), Face), Means_(Face, Face),
          Means_(Chars("d\\/n.x"), Chars("d/n.x")), Means_(Chars("d/"), Malformed),
          Plain("\"\\ud83d\""), Plain("nul")}

Totals == {Number("5.0", 5), Number("50e-1", 5), Number("5/*6*/", 5), Number("-0", 0),
           Number("511", 511), Number("512", 512), Number("1023", 1023), Number("5.11E+2", 511),
           Plain("1024"), Plain("1025"), Plain("-1"), Plain("-1.0"), Plain("1.5"), Plain("0.5"),
           Plain("true"), Plain("null"), Plain("\"5\""), Plain("5e"), Plain("[5]")}

Chunks == {Number("3.0", 3), Number("4", 4), Plain("0"), Plain("-3"), Plain("0.3e1e")}

With(r, k, S) == {[r EXCEPT ![k] = f] : f \in S}

Sync == [upload_id |-> Txt("u"), md5 |-> Txt("m"), name |-> Txt("n.x"),
         total_size |-> Number("5", 5), chunk_size |-> Number("3", 3)]

SomeSyncs ==
    {Sync} \cup With(Sync, "upload_id", Ids) \cup With(Sync, "md5", Md5s)
    \cup With(Sync, "name", Names) \cup With(Sync, "total_size", Totals)
    \cup With(Sync, "chunk_size", Chunks)

Bytes == <<251, 255, 62, 0, 10>>
Data(s, from, to) == F(Quote(Chars(s)), SubSeq(Bytes, from, to))

Upload(n, offset, data, isLast) ==
    [upload_id |-> Txt("u"), md5 |-> Txt("m"), name |-> n, total_size |-> Number("5", 5),
     offset |-> offset, is_last |-> isLast, data |-> data]

No    == F(Chars("false"), FALSE)
Yes   == F(Chars("true"), TRUE)
First(n) == Upload(n, Number("0", 0), Data("+/8+", 1, 3), No)
Final(n) == Upload(n, Number("3", 3), Data("AAo=", 4, 5), Yes)
Plainly  == Txt("n.x")

\* The same chunk, not as the client writes it.
OtherFirst == {Upload(Plainly, Number("0.0", 0), Data("+\\/8+", 1, 3), F(Chars("0"), FALSE)),
               Upload(Plainly, Number("-0", 0), Data("+/8=", 1, 2), No)}
OtherLast  == {Upload(Plainly, Number("3", 3), Data("AAp=", 4, 5), F(Chars("1"), TRUE)),
               Upload(Plainly, Number("4", 4), Data("Cg==", 5, 5), Yes),
               Upload(Plainly, Number("0", 0), Data("+/8+AAo=", 1, 5), Yes)}
\* Chunks of no place in the file.
Astray == {Upload(Plainly, Number("3", 3), Data("+/8+", 1, 3), No),
           Upload(Plainly, Number("3", 3), Data("AAo=", 4, 5), No),
           Upload(Plainly, Number("5", 5), Data("", 6, 5), No),
           [Upload(Plainly, Number("1022", 1022), Data("+/8+", 1, 3), No)
                EXCEPT !.total_size = Number("1023", 1023)]}
BadData == {Plain("\"QQ=\""), Plain("\"Q===\""), Plain("\"QQ==QQ==\""), Plain("\"-_8-\""),
            Plain("5"), Plain("[]")}

SomeUploads ==
    {First(Plainly), Final(Plainly)} \cup OtherFirst \cup OtherLast \cup Astray
    \cup With(First(Plainly), "data", BadData)
    \cup With(First(Plainly), "offset", {Plain("-1"), Plain("1e"), Plain("0.5"), Plain("\"0\"")})
    \cup With(First(Plainly), "is_last", {Plain("\"no\""), Plain("[]")})
    \cup With(First(Plainly), "total_size", {Number("512", 512), Plain("1024"), Plain("-5")})
    \cup {First(n) : n \in Names} \cup {Final(n) : n \in Names}

OfClient == {Sync, First(Plainly), Final(Plainly)}
            \cup {[Sync EXCEPT !.name = Means_(Face, Face)], First(Means_(Face, Face)),
                  Final(Means_(Face, Face))}

Torn == {Face}
U == Chars("u")
===============================================================================
