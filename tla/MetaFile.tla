------------------------------- MODULE MetaFile -------------------------------
(***************************************************************************)
(* What HandleSyncFile and HandleUploadFile of server/src/LogicWorker.cpp  *)
(* make of the text of a request and of the text of meta.json, on one task *)
(* directory.  UploadStore has the interleavings and the failures of the   *)
(* files; here a handler is one step, with the number conversions and      *)
(* Base64 in it.  The process may be killed while it writes meta.json; an  *)
(* exception in a handler ends it, as no worker thread catches any.        *)
(*                                                                         *)
(* The reader and the writer of the JSON library are the constants Read    *)
(* and Write: the handlers rely on LibraryAssumption and nothing more.  For*)
(* TLC they are JsonReader and JsonWriter, and the assumption is checked.  *)
(*                                                                         *)
(* A request is a record of fields, a field has a text and the value that  *)
(* a reader of JSON expects of it, or Malformed when it is not a value the *)
(* protocol allows.  The handlers see the text; the value is for the       *)
(* properties.                                                             *)
(***************************************************************************)
EXTENDS JsonValue, Base64

CONSTANTS
  Read(_),         \* Json::parseFromStream: what it makes of a text
  Write(_),        \* Value::toStyledString: the text of a value
  SyncRequests, UploadRequests,
  ClientRequests,  \* those among them that the client of this repository sends
  UploadId,        \* the id of the task whose directory this is
  FileBytes,       \* the file that the upload requests send
  MaxIdLen,        \* longest upload_id
  NoFile, Malformed, Idle,
  TornTasks        \* bound: names of tasks whose metadata may be torn

VARIABLES
  up,      \* the process runs
  meta,    \* the text of meta.json, or NoFile
  part,    \* the bytes of data.part, or NoFile
  final,   \* the published file [name, bytes], or NoFile
  task,    \* history: the values for which the metadata was made, or NoFile
  last     \* the request just handled and its answer, or Idle

disk == <<meta, part, final, task>>
vars == <<up, disk, last>>

-----------------------------------------------------------------------------
(* The texts of requests, as QJsonDocument writes them: no spaces.         *)

Field(name, f) == <<"\"">> \o Chars(name) \o <<"\"", ":">> \o f.text

SyncText(r) ==
    <<"{">> \o Field("upload_id", r.upload_id) \o <<",">> \o Field("md5", r.md5) \o <<",">>
            \o Field("name", r.name) \o <<",">> \o Field("total_size", r.total_size) \o <<",">>
            \o Field("chunk_size", r.chunk_size) \o <<"}">>

UploadText(r) ==
    <<"{">> \o Field("upload_id", r.upload_id) \o <<",">> \o Field("md5", r.md5) \o <<",">>
            \o Field("name", r.name) \o <<",">> \o Field("total_size", r.total_size) \o <<",">>
            \o Field("offset", r.offset) \o <<",">> \o Field("is_last", r.is_last) \o <<",">>
            \o Field("data", r.data) \o <<"}">>

\* The requests, with what the reader makes of them.
ParsedSyncs   == {[request |-> r, parsed |-> Read(SyncText(r))] : r \in SyncRequests}
ParsedUploads == {[request |-> r, parsed |-> Read(UploadText(r))] : r \in UploadRequests}

-----------------------------------------------------------------------------
(* The checks of the handlers.                                             *)

Get(v, name) == Member(v, Chars(name))

IsSafeUploadId(s) ==
    /\ Len(s) \in 1 .. MaxIdLen
    /\ \A i \in 1 .. Len(s) : Code[s[i]] \in (48 .. 57) \cup (65 .. 90) \cup (97 .. 122) \cup {45, 95}

IsNonNegativeInteger_Any(v) == TRUE       \* mutant: not called
IsNonNegativeInteger(v) ==
    \/ IsUInt(v) \/ IsUInt64(v)
    \/ IsInt(v) /\ AsInt(v).value >= 0
    \/ IsInt64(v) /\ AsInt64(v).value >= 0

\* u8path(name).filename(): what follows the last slash
FileName(name) ==
    SubSeq(name, 1 + Max({0} \cup {i \in DOMAIN name : name[i] = "/"}), Len(name))

Decoded(s) == Base64Decode(Codes(s))

Results(S) == {x.value : x \in {y \in S : ~y.thrown}}
Throws(S)  == \E x \in S : x.thrown

\* The conversions that both handlers make: md5, name and total_size; and
\* of the number in a field of their own, offset or chunk_size.
Converted(root, number) ==
    {[id |-> AsString(Get(root, "upload_id")).value, md5 |-> AsString(Get(root, "md5")).value,
      name |-> AsString(Get(root, "name")).value, total_size |-> t, number |-> n] :
        t \in Results(AsUInt64(Get(root, "total_size"))),
        n \in Results(AsUInt64(Get(root, number)))}

ConversionThrows(root, number) ==
    \/ \E k \in {"upload_id", "md5", "name"} : AsString(Get(root, k)).thrown
    \/ \E k \in {"total_size", number} : Throws(AsUInt64(Get(root, k)))

ValidFields(root, number, q) ==
    /\ IsNonNegativeInteger(Get(root, "total_size")) /\ IsNonNegativeInteger(Get(root, number))
    /\ IsSafeUploadId(q.id) /\ q.md5 # <<>> /\ FileName(q.name) # <<>>

\* mutant: the last byte is refused
InRange_Less(q, len) == q.number <= q.total_size /\ len < q.total_size - q.number
\* mutant: the sum of offset and size is compared, as an UInt64
InRange_Sum(q, len) == (q.number + len) % (MaxUInt64 + 1) <= q.total_size
InRange(q, len) == q.number <= q.total_size /\ len <= q.total_size - q.number

-----------------------------------------------------------------------------
(* meta.json.                                                              *)

\* The members are assigned one by one.
MetaMembers(q, size, chunk, completed) ==
    LET Set(v, name, x) == WithMember(v, Chars(name), x)
    IN  Set(Set(Set(Set(Set(Set(Null, "upload_id", String(q.id)), "md5", String(q.md5)),
            "name", String(q.name)), "total_size", size), "chunk_size", chunk),
            "completed", Bool(completed))

\* mutant: total_size is kept as a signed integer
MetaValue_Short(q, chunk, completed) ==
    MetaMembers(q, IntOf(q.total_size % (MaxInt64 + 1)), UIntOf(chunk), completed)

MetaValue(q, chunk, completed) ==
    MetaMembers(q, UIntOf(q.total_size), UIntOf(chunk), completed)

\* ReadJsonFile.  A file that is read throws only on nesting too deep.
ReadJsonFile == IF meta = NoFile THEN Failed ELSE Read(meta)

\* mutant: the size is not compared
IsSameTask_NoSize(m, q) ==
    /\ AsString(Get(m, "md5")) = Got(q.md5)
    /\ AsString(Get(m, "name")) = Got(q.name)

\* What the program itself has written never makes a conversion throw; see
\* the invariant ReadsBack.
IsSameTask(m, q) ==
    /\ AsString(Get(m, "md5")) = Got(q.md5)
    /\ AsString(Get(m, "name")) = Got(q.name)
    /\ Got(q.total_size) \in AsUInt64(Get(m, "total_size"))

-----------------------------------------------------------------------------
(* Answers.                                                                *)

Answer(error, offset, completed) == [error |-> error, offset |-> offset, completed |-> completed]
NoAnswer  == Answer("none", 0, FALSE)
Killed    == Answer("killed", 0, FALSE)
ErrorJson == Answer("Error_Json", 0, FALSE)
Conflict  == Answer("UploadTaskConflict", 0, FALSE)

Reply(r, a)  == last' = [request |-> r, answer |-> a]
Refuse(r, a) == Reply(r, a) /\ UNCHANGED <<up, disk>>

\* An exception leaves the handler, and with it the process.
Terminates(r) == up' = FALSE /\ Reply(r, NoAnswer) /\ UNCHANGED disk

\* WriteJsonFile, then answer a; or the process is killed in it, with any
\* part of the text in the file.
WriteJsonFile(r, v, a) ==
    LET text == Write(v)
    IN  \/ meta' = text /\ Reply(r, a) /\ UNCHANGED up
        \/ /\ Get(v, "name").string \in TornTasks
           /\ \E k \in 0 .. Len(text) : meta' = SubSeq(text, 1, k)
           /\ up' = FALSE /\ Reply(r, Killed)

Confirmed == IF part = NoFile THEN 0 ELSE Len(part)

\* Both handlers: the finished file, or how much of it there is.
Published(q) == final # NoFile /\ final.name = FileName(q.name)
Progress(q) ==
    IF Published(q)
    THEN IF Len(final.bytes) = q.total_size THEN Answer("Success", q.total_size, TRUE) ELSE Conflict
    ELSE IF Confirmed > q.total_size THEN Conflict
    ELSE Answer("Success", Confirmed, FALSE)

-----------------------------------------------------------------------------
(* HandleSyncFile of request r, with p what the reader makes of it and m   *)
(* what ReadJsonFile returns.                                              *)

Values(q, chunk) == [md5 |-> q.md5, name |-> q.name, total_size |-> q.total_size, chunk_size |-> chunk]

SyncTask(r, q, m) ==
    LET same == /\ m.result = "ok" /\ IsSameTask(m.value, q)
                /\ Got(q.number) \in AsUInt64(Get(m.value, "chunk_size"))
    IN  \/ meta # NoFile /\ ~same /\ Refuse(r, Conflict)
        \/ meta # NoFile /\ same /\ Refuse(r, Progress(q))
        \/ /\ meta = NoFile
           /\ task' = Values(q, q.number)
           /\ WriteJsonFile(r, MetaValue(q, q.number, FALSE), Progress(q))
           /\ UNCHANGED <<part, final>>

HandleSyncFile(r, p, m) ==
    LET root == p.value
        throws == ~IsObjectLike(root) \/ ConversionThrows(root, "chunk_size")
    IN  \/ p.result = "error" /\ Refuse(r, ErrorJson)
        \/ p.result = "throws" /\ Terminates(r)
        \/ p.result = "ok" /\ throws /\ Terminates(r)
        \/ /\ p.result = "ok" /\ ~throws
           /\ \E q \in Converted(root, "chunk_size") :
                IF ValidFields(root, "chunk_size", q) /\ q.number > 0
                THEN SyncTask(r, q, m) ELSE Refuse(r, ErrorJson)

-----------------------------------------------------------------------------
(* HandleUploadFile.                                                       *)

UploadChunk(r, q, bytes, isLast, m) ==
    LET stored == (IF part = NoFile THEN <<>> ELSE part) \o bytes
    IN  IF ~isLast
        THEN /\ part' = stored /\ Reply(r, Answer("Success", Len(stored), FALSE))
             /\ UNCHANGED <<up, meta, final, task>>
        ELSE /\ part' = NoFile
             /\ final' = [name |-> FileName(q.name), bytes |-> stored]
             /\ WriteJsonFile(r, WithMember(m.value, Chars("completed"), Bool(TRUE)),
                              Answer("Success", Len(stored), TRUE))
             /\ UNCHANGED task

UploadTask(r, q, bytes, isLast, m) ==
    LET same == m.result = "ok" /\ IsSameTask(m.value, q)
        p == Progress(q)
        open == p.error = "Success" /\ ~p.completed
    IN  \/ ~same /\ Refuse(r, Conflict)
        \/ same /\ (~open \/ q.number < p.offset) /\ Refuse(r, p)
        \/ same /\ open /\ q.number > p.offset
           /\ Refuse(r, Answer("UploadOffsetMismatch", p.offset, FALSE))
        \/ same /\ open /\ q.number = p.offset /\ UploadChunk(r, q, bytes, isLast, m)

HandleUploadFile(r, p, m) ==
    LET root == p.value
        data == AsString(Get(root, "data"))
        decoded == Decoded(data.value)
        isLast == AsBool(Get(root, "is_last"))
        dataThrows == ~IsObjectLike(root) \/ data.thrown
        throws == ConversionThrows(root, "offset") \/ isLast.thrown
        Accepted(q) == /\ ValidFields(root, "offset", q) /\ InRange(q, Len(decoded.data))
                       /\ isLast.value <=> q.number + Len(decoded.data) = q.total_size
    IN  \/ p.result = "error" /\ Refuse(r, NoAnswer)
        \/ p.result = "throws" /\ Terminates(r)
        \/ p.result = "ok" /\ dataThrows /\ Terminates(r)
        \/ p.result = "ok" /\ ~dataThrows /\ ~decoded.ok /\ Refuse(r, ErrorJson)
        \/ p.result = "ok" /\ ~dataThrows /\ decoded.ok /\ throws /\ Terminates(r)
        \/ /\ p.result = "ok" /\ ~dataThrows /\ decoded.ok /\ ~throws
           /\ \E q \in Converted(root, "offset") :
                IF Accepted(q) THEN UploadTask(r, q, decoded.data, isLast.value, m)
                               ELSE Refuse(r, ErrorJson)

-----------------------------------------------------------------------------
Init == /\ up = TRUE /\ last = Idle
        /\ meta = NoFile /\ part = NoFile /\ final = NoFile /\ task = NoFile

Handle == /\ up /\ last = Idle
          /\ \E m \in {ReadJsonFile} :
               \/ \E x \in ParsedSyncs : HandleSyncFile(x.request, x.parsed, m)
               \/ \E x \in ParsedUploads : HandleUploadFile(x.request, x.parsed, m)

\* The next request is awaited; a process that has ended is started again.
Await == last # Idle /\ last' = Idle /\ up' = TRUE /\ UNCHANGED disk

Next == Handle \/ Await

Spec == Init /\ [][Next]_vars

-----------------------------------------------------------------------------
(* What the sender of a request means. *)

IsSync(r)      == "chunk_size" \in DOMAIN r
FieldsOf(r)    == {r[k] : k \in DOMAIN r}
IsMalformed(r) == \E f \in FieldsOf(r) : f.value = Malformed
Means(r, k)    == r[k].value = task[k]
MeansTask(r)   == /\ ~IsMalformed(r) /\ Means(r, "md5") /\ Means(r, "name") /\ Means(r, "total_size")
                  /\ IsSync(r) => Means(r, "chunk_size")
EndOf(r)       == r.offset.value + Len(r.data.value)

\* The metadata of task t, and the text of the task at hand.
MetaOf(t, completed) ==
    MetaValue([id |-> UploadId, md5 |-> t.md5, name |-> t.name, total_size |-> t.total_size],
              t.chunk_size, completed)
Written(completed) == Write(MetaOf(task, completed))

-----------------------------------------------------------------------------
(* What is assumed of the requests and of the JSON library.                *)

SyncFields   == {"upload_id", "md5", "name", "total_size", "chunk_size"}
UploadFields == {"upload_id", "md5", "name", "total_size", "offset", "is_last", "data"}

\* The shape of a value of the library.
IsJson(v) == IsNumber(v) =>
    /\ v.number[1] \in Int /\ v.number[2] \in Nat \ {0}
    /\ v.type # "realValue" => v.number[2] = 1

\* The protocol allows member v as field k.
Allowed(k, v) ==
    /\ k \in {"total_size", "chunk_size", "offset"} => IsUInt64(v)
    /\ k = "chunk_size" => Trunc(v) > 0
    /\ k \in {"upload_id", "md5", "name", "data"} => ~AsString(v).thrown
    /\ k = "upload_id" => IsSafeUploadId(AsString(v).value)
    /\ k = "md5" => AsString(v).value # <<>>
    /\ k = "name" => FileName(AsString(v).value) # <<>>
    /\ k = "data" => Valid(Codes(AsString(v).value))
    /\ k = "is_last" => ~AsBool(v).thrown

\* Base64 text t stands for data d, and may have bits left over at its end.
IsEncoded(t, d) == t = Base64Encode(d) \/ Base64Decode(t) = [ok |-> TRUE, data |-> d]

\* Member v is the value x of field k.
StandsFor(k, v, x) ==
    /\ k \in {"total_size", "chunk_size", "offset"} => Trunc(v) = x
    /\ k \in {"upload_id", "md5", "name"} => AsString(v).value = x
    /\ k = "data" => x \in Seq(Byte) /\ IsEncoded(Codes(AsString(v).value), x)
    /\ k = "is_last" => AsBool(v).value = x

\* The text of a request means what its sender says, or is malformed.
ASSUME RequestsAssumption ==
    /\ \A r \in SyncRequests : DOMAIN r = SyncFields
    /\ \A r \in UploadRequests : DOMAIN r = UploadFields
    /\ \A x \in ParsedSyncs \cup ParsedUploads :
         LET r == x.request
             v(k) == Get(x.parsed.value, k)
             readable == x.parsed.result = "ok" /\ IsObjectLike(x.parsed.value)
         IN  /\ x.parsed.result \in {"ok", "error", "throws"}
             /\ readable => \A k \in DOMAIN r : IsJson(v(k))
             /\ IsMalformed(r) /\ readable => \E k \in DOMAIN r : ~Allowed(k, v(k))
             /\ ~IsMalformed(r) =>
                  /\ readable /\ r.upload_id.value = UploadId
                  /\ \A k \in DOMAIN r : Allowed(k, v(k)) /\ StandsFor(k, v(k), r[k].value)

\* A chunk that ends within the size it names is a part of the file.
ASSUME FileAssumption ==
    /\ FileBytes \in Seq(Byte)
    /\ \A r \in UploadRequests : ~IsMalformed(r) /\ EndOf(r) <= r.total_size.value =>
         /\ EndOf(r) <= Len(FileBytes)
         /\ r.data.value = SubSeq(FileBytes, r.offset.value + 1, EndOf(r))

ASSUME ClientAssumption ==
    /\ ClientRequests \subseteq SyncRequests \cup UploadRequests
    /\ \A r \in ClientRequests : ~IsMalformed(r)
    /\ \A r \in ClientRequests \cap UploadRequests :
         /\ EndOf(r) <= r.total_size.value
         /\ r.is_last.value <=> EndOf(r) = r.total_size.value

\* The tasks that requests make, their metadata and files.
TaskOf(r) == [md5 |-> r.md5.value, name |-> r.name.value,
              total_size |-> r.total_size.value, chunk_size |-> r.chunk_size.value]
Tasks     == {TaskOf(r) : r \in {x \in SyncRequests : ~IsMalformed(x)}}
Metadata  == {MetaOf(t, completed) : t \in Tasks, completed \in BOOLEAN}
Files     == [name : {FileName(t.name) : t \in Tasks}, bytes : Seq(Byte)]

\* The reader makes an intValue of a small uintValue.
AsRead(v) == Object([k \in DOMAIN v.map |->
    IF v.map[k].type = "uintValue" THEN Integer(v.map[k].number[1]) ELSE v.map[k]])

Reads(text, v) == Read(text).result = "ok" /\ Read(text).value = v

\* The library reads the metadata it has written, with or without the last
\* line end, writes what it has read alike, and reads no less of a text.
ASSUME LibraryAssumption ==
    \A v \in Metadata :
        /\ Write(v) \in Seq(STRING) \ {<<>>}
        /\ Reads(Write(v), AsRead(v)) /\ Reads(Front(Write(v)), AsRead(v))
        /\ Write(AsRead(v)) = Write(v)
        /\ Get(v, "name").string \in TornTasks =>
             \A k \in 0 .. Len(Write(v)) - 2 : Read(SubSeq(Write(v), 1, k)).result = "error"

\* No two members of the metadata have the same name.
ASSUME NamesAssumption ==
    \A s, t \in SyncFields \cup {"completed"} : Chars(s) = Chars(t) => s = t

ASSUME NoFileAssumption ==
    /\ NoFile \notin Seq(STRING) /\ NoFile \notin Seq(Byte)
    /\ NoFile \notin Tasks /\ NoFile \notin Files

-----------------------------------------------------------------------------
(* meta.json holds all of its text but possibly the last line end.         *)
Intact == \E completed \in BOOLEAN :
            meta \in {Written(completed), Front(Written(completed))}

(* Every variable keeps its type. *)
TypeOK == /\ up \in BOOLEAN
          /\ meta = NoFile <=> task = NoFile
          /\ part = NoFile \/ part \in Seq(0 .. 255)
          /\ final = NoFile \/ final.bytes \in Seq(0 .. 255)

(* Metadata read back are the ones written, whatever characters and numbers*)
(* are in them; what a crash leaves of them is never taken for metadata    *)
(* (LogicWorker.cpp:213-218).                                              *)
ReadsBack == last = Idle /\ meta # NoFile =>
    LET m == ReadJsonFile
    IN  IF ~Intact THEN m.result = "error"
        ELSE /\ m.result = "ok"
             /\ AsString(Get(m.value, "md5")) = Got(task.md5)
             /\ AsString(Get(m.value, "name")) = Got(task.name)
             /\ AsUInt64(Get(m.value, "total_size")) = {Got(task.total_size)}
             /\ AsUInt64(Get(m.value, "chunk_size")) = {Got(task.chunk_size)}
             /\ AsBool(Get(m.value, "completed")) = Got(final # NoFile)

(* A request gets an answer of success only if each of its values is the   *)
(* one the task was made for; one that means the task gets no conflict     *)
(* while the metadata are intact.                                          *)
SameMeaning == last # Idle =>
    /\ last.answer.error = "Success" => MeansTask(last.request)
    /\ task # NoFile /\ MeansTask(last.request) /\ last.answer.error = "UploadTaskConflict" => ~Intact

(* A chunk that does not end within the file is refused, also where the    *)
(* sum of offset and size does not fit an UInt64 (LogicWorker.cpp:291).    *)
EndsInFile == last # Idle /\ ~IsSync(last.request) /\ ~IsMalformed(last.request) =>
    (EndOf(last.request) > last.request.total_size.value => last.answer = ErrorJson)

(* Nothing malformed - a text for a number, a fraction, a name without     *)
(* characters, broken Base64 - changes anything on the disk.               *)
MalformedStep == last' # Idle /\ last' # last /\ IsMalformed(last'.request) => UNCHANGED disk
MalformedKept == [][MalformedStep]_vars

(* What is stored are the bytes of the file, through JSON and Base64.      *)
BytesKept == /\ part # NoFile => IsPrefix(part, FileBytes)
             /\ final # NoFile => final.bytes = SubSeq(FileBytes, 1, task.total_size)

(* A request as the client of this repository makes it is understood,      *)
(* whatever the state of its task (mainwindow.cpp:190-197, 240-252).       *)
ClientServed == last # Idle /\ last.request \in ClientRequests =>
    last.answer \notin {NoAnswer, ErrorJson}

(* Negative numbers are rejected before anything is converted (the comment *)
(* LogicWorker.cpp:29-30: they are rejected first, on their own).          *)
IsNegative(f) == f.value = Malformed /\ f.text[1] = "-"
NegativesRefused == last # Idle /\ (\E f \in FieldsOf(last.request) : IsNegative(f)) =>
    last.answer = ErrorJson
===============================================================================
