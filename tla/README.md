# Formal models of ResourceServer

ResourceServer is a TCP server for uploads that can be resumed, written in C++
with Boost.Asio, and its Qt client. This directory holds TLA+ modules of the
parts in which the difficulty lies - the upload store, the dispatch of messages
to worker threads, the packets and the life of a connection, the texts of requests
and metadata, start and shutdown, the client's upload state machine - with TLC
configurations that check them on small instances and proofs, checked by TLAPS,
that every safety property the runs check holds for every instance.

Paths below are relative to the repository; `LogicWorker.cpp` and the other
server files are under `server/src`, the client is `resourse_client`.

## 1. Inventory

### Components, state and operations

| Component | State | Operations | Modelled in |
| --- | --- | --- | --- |
| Upload store (`LogicWorker::HandleSyncFile`, `HandleUploadFile`) | `<file path>/<upload_id>/{meta.json, data.part, <name>}`, `g_upload_file_mutex` | query or create a task, append a chunk, publish the file | `UploadStore`, promise in `UploadTask`; texts and conversions in `MetaFile` |
| Dispatch (`LogicSystem`, `LogicWorker`) | `_session_worker_map`, per worker `_msg_que`, `_mutex`, `_consume`, `_b_stop` | `BindSession`, `PostMsgToQue`, `UnbindSession`, `PostTask`, `DealMsg`, destructor | `LogicDispatch` |
| Connections (`CServer`, `CSession`) | `_sessions`, per session socket, read chain, `_send_que` | accept, read, `Send`, `HandleWrite`, `Close`, `ClearSession` | `Session`, bytes in `Wire` |
| Upload client (`MainWindow`) | chosen file, MD5, `_upload_id`, `_upload_active`, `_has_upload_task`, buttons | choose, upload, pause, resume; slots for answers and errors | `UploadClient` |
| Client connection (`TcpClient`) | socket, `_buffer`, `_b_recy_pending` and the pending header | connect, disconnect, send, reassemble, handlers of answers | `UploadClient`, bytes in `Wire` |
| Framing (`MsgNode`, `ReadHead`/`ReadBody`/`asyncReadLen`, `readyRead`) | partial packet on each side | reassemble header and body | `Wire` |
| Base64 | none | encode, decode | `Base64` |
| `server/jsoncpp` | none beside the values | parse, convert, write | `JsonCoding`, `JsonValue`, `JsonReader`, `JsonWriter` |
| IO pool (`AsioIOServicePool`) | contexts, work guards, threads, round-robin index | constructor, `GetIOService`, `Stop`, destructor | `Lifecycle` |
| `main`, `ConfigMgr`, singletons | objects constructed and destroyed, settings | start, signal, unwinding, static destruction | `Lifecycle` |
| `main.cpp` of the client, layout of the window | constant after start | | not modelled |

### How they interact

The main thread accepts, binds each session to a worker (round robin), starts
its read chain and registers it. The IO thread of the session runs the
completion handlers of its socket and posts each message to the queue of the
worker bound to the session. The worker runs the handler, which works on the
disk under one mutex for all tasks and answers with `CSession::Send`; `Send` and
the IO thread's `HandleWrite` hand the write over to each other. On the client
everything runs in one event loop: answers become signals, a signal may send the
next chunk. A connection may break at any time; the task on disk survives it.

### What is hard

* threads: several workers on one task directory; IO threads against a worker
  that falls asleep; `HandleAccept` against the IO thread of the session it has
  just started; `Send` against `HandleWrite`;
* failure: every file operation may fail, some after half of their effect, and
  the process may be killed between any two of them;
* delivery: chunks are repeated, arrive late on an old connection, answers are
  lost, answers of one upload arrive in the next one;
* shutdown: stop requests against waiting workers, queues that are not empty,
  objects destroyed in an order nobody wrote down while threads use them;
* bytes: packets cut and joined anywhere, half a packet left over from the
  connection before; texts that mean the same and are spelled otherwise, numbers
  at the edge of their type, metadata torn at any character.

The list at each source line is in `PROJECT.json`, `hazards`, with the properties that
watch it or the reason why none does.

### What makes each component correct

* Store: `data.part` is a prefix of the file, byte for byte; a visible file is
  whole; an answer never claims more than is stored; a task belongs to one name;
  a conflict is answered only for a conflict.
* Dispatch: each accepted message is handled once, in order, at last; no lost
  wakeup; nothing left behind at shutdown; shutdown ends.
* Connections: open means registered and bound, closed means neither; one
  write at a time and never an answer left lying.
* Client: never a chunk ahead of the server, never more requests than it began
  with, never stalled; what it shows is what the server confirmed, for the file
  it shows.
* Framing: the messages read are the messages sent, whole and in order, and only
  those of this connection.
* Texts: what was written is what is read back; a request is judged by what it
  means, and one that means nothing changes nothing.
* Life of the process: whatever a thread uses is alive, each thread is joined
  before its object goes, and a signal ends them all.

## 2. Modules

```
UploadTask            abstract promise of the store
UploadStore           handlers, disk, mutex, faults        => refines UploadTask
  UploadStoreInv      inductive invariant                  UploadStoreProofs  proofs
  MCUploadStore                                            instances
MetaFile              the handlers on texts                MetaFileProofs, MCMetaFile
  JsonCoding          numbers, UTF-8, escapes              CodingProofs (with Base64)
  JsonValue           Json::Value, conversions             EXTENDS JsonCoding
  JsonReader          OurReader, from text to value        Read in the instance
  JsonWriter          toStyledString, from value to text   Write in the instance
  Base64              the data of a chunk                  CodingProofs
LogicDispatch         queues, condition variable, shutdown LogicDispatchProofs, MCLogicDispatch
Session               accept, read chain, send queue       SessionProofs, MCSession
Wire                  packets over a stream, both sides    WireProofs, MCWire
UploadClient          client over an unreliable connection UploadClientProofs, MCUploadClient
Lifecycle             start, signal, static destruction    LifecycleProofs, MCLifecycle
```

**UploadStore.** `disk[u][p]` is the file at path `p` of the directory of upload
`u`; a byte is named by its position in the uploaded file, so that a hole, a
repetition or a swap is visible. `owner` is `g_upload_file_mutex`, `pc`, `req`
and `reply` are the program counter, request and answer of each worker. An
action runs from one point at which a kill would leave a different disk to the
next: `Receive` (parse and validate), then under the mutex `SyncFound`,
`SyncCreate`, `SyncMeta`, `SyncFails` for `HandleSyncFile` and `UploadRefuse`,
`UploadOpen`, `WriteChunk`, `Rename`, `MetaOpen`, `MetaWrite` for
`HandleUploadFile`, and `Answer` for the `Defer` object. Every file operation has
a failing branch: `Fault(kind)` consumes one of `MaxFaults` faults. `WriteMeta`
follows `WriteJsonFile`: it reports the stream before its destructor flushes, so
a torn file may be reported as success. An upload_id stands for MD5, size and
chunk size, so of what `IsSameTask` compares only the name can differ.

**UploadTask** says the same with two functions, `stored` and `published`, and
the set of success answers. `TaskSpec` in `UploadStore` is its specification
under the mapping `Stored` / `Published`: bytes of the part file, or the size of
the published one.

**LogicDispatch.** `queue`, `mutex`, `worker` and `hand` are the queue, mutex, place
in `DealMsg` and message taken out of each worker; `io` and `mapOwner` the place
of each IO thread in `PostMsgToQue`/`PostTask`. The check of the wait condition
(`Decide`) and the wait itself (`Sleep`) are two steps, the push and the notify
after the unlock too. `stop` and `dtor` follow `~LogicWorker`, which sets
`_b_stop` without the mutex.

**Session.** `step[s]` is how far `HandleAccept` is with `s` (bind, start,
insert), `recv[s]` the outstanding read, `inFlight[s]` the buffers given to
`async_write`, `io[s]` what a failed handler still has to do (`Erase`,
`UnbindSession`). `Arrive` and `Flush` are asio completing an operation on an open
socket: what completed before `Close` still reports success, the rest fails. The
two reads of a message (header, body) are one.

**UploadClient.** The members and buttons of `MainWindow` by name; `toServer`
and `toClient` are the two directions of the TCP connection, in order; `old` holds
the requests of a broken connection which the server handles later, whose
answers go nowhere. The server is one step per request (`HandleSyncFile`,
`HandleUploadFile` here are the summaries of those of `UploadStore`, whose mutex
makes them atomic), and a chunk may fail after a part of it, or all of it, was
done. `Deliver` is the handler of an answer in `TcpClient` with the slot it
calls. Torn metadata are left to `UploadStore`. `cause` in a chunk is history: the
upload whose answer named the offset, which `slot_upload_progress` does not
compare with its own.

**MetaFile** has the same two handlers again, from the other side: one step each
and no failing file, but with the texts. A request is a record of fields; a field
is its text and, for the properties alone, the value a reader of JSON expects of
it, or `Malformed`. `HandleSyncFile` and `HandleUploadFile` get what `Read` makes of
the text, convert it (`asString`, `asUInt64`, `asBool`, each of which may throw),
check it, and write `meta.json` with `Write`, which is read again at the next
request; a kill leaves any prefix of it. An exception ends the process, as no worker
catches any. `Read` and `Write` are operator constants: the run gives them
`parseFromStream` of `JsonReader` and `toStyledString` of `JsonWriter`, the proofs know
of them what `LibraryAssumption` says.

**JsonCoding, JsonValue, JsonReader, JsonWriter** are the part of jsoncpp that the
program uses: how whole numbers and characters are written and read, on the values
of digits and bytes (`JsonCoding`, without a recursive operator); the kinds of `Json::Value` and its conversions, the tokens, the error
recovery, the comments and the numbers of `OurReader` with the settings of
`CharReaderBuilder`, the layout and the escapes of the writer that
`toStyledString` builds. A text is a sequence of bytes, printable ones as
one-character strings, the others by their two hexadecimal digits. The widths
of the integers are constants, so that TLC meets their limits with small numbers. A
conversion that is undefined in C++ (a double that does not fit) yields every
result the build may produce.

**Base64** has both functions as functions of the position, so that they can be
proved about.

**Wire.** `toServer[c]` and `toClient[c]` are the bytes on their way on
connection `c`; `head`, `data` the read of a `CSession`, `buffer`, `pending` the
one `TcpClient`, which outlives its connections. `readyRead(k)` and
`asyncReadLen(c, k)` take any number of bytes that has arrived. The client may
send an empty text, one that looks like a header, the largest body and one that
is too long. Widths of the header are constants. `Reassemble` is the loop of
`readyRead` as a recursive function over its rounds; every round but the first
takes a header from the buffer, so that the length of the buffer bounds their
number. The worker answers one request at a time; `replied[c]` remembers those whose answer
`Send` took: a full queue (`Dropped`) leaves an answer out, for good.

**Lifecycle.** `main` is where main is: start, run, signal, unwinding, statics.
`config`, `server`, `pool`, `logic` are the objects, `thread[i]`, `guard`,
`stopped` the IO threads with their contexts, `handler[i]` the session whose
completion handler runs. `ConfigMgr` is a local static constructed in main and
so the first to go; the two `Singleton` instances go in either order. The workers are
one thread here.

Operators named `X_Something` in front of `X` are the seeded faults with which
each property is tested: `X` replaced by one of them must violate it.

## 3. Runs

| Run | Checks | Instance |
| --- | --- | --- |
| `UploadStoreFaults` | `TypeOK PartIsPrefix FinalIsWhole AckBacked OneOwner CompletedIsPublished TaskSpec ConflictExplained` | 2 workers, 1 task of 3 bytes, 2 names, chunks of up to 2, 2 faults of 8 kinds |
| `LogicDispatch` | `TypeOK NoLostWakeup InOrder DrainedOnExit AllHandled` | 3 sessions, 2 workers, 2 messages each |
| `Session` | `TypeOK Registered NoStaleBinding NoMessageLost OneWriter Released` | 2 sessions, 3 messages each, `MAX_SENDQUE` = 1 |
| `UploadClient` | `TypeOK NeverAhead NoFlood ValidRequests UploadEnds` | 3 files of 3 bytes, 1 byte (unreadable at first) and none, chunk 2, 8 clicks, 2 faults |
| `Wire` | `TypeOK RequestsInOrder AnswersInOrder Answered` | 2 connections, 3 messages, header 1 + 2 bytes, `MAX_LENGTH` = 3, `MAX_SENDQUE` = 1 |
| `MetaFile` | `TypeOK ReadsBack SameMeaning EndsInFile BytesKept ClientServed MalformedKept` | requests that differ from the client's in one field, file of 5 bytes as 3 + 2; integers of 5 and 10 bits, nesting of 3, ids of 8 |
| `Lifecycle` | `TypeOK IoUsesLive JoinedFirst Served SignalStops` | 2 IO threads, 4 sessions, 1 message each |

**Why the bounds are enough.** Two workers are all that can meet at one mutex
with different views of a task; three bytes in chunks of two give a first
chunk, a last one of another length, and offsets that are no multiple of the
chunk after a failed write; requests are not limited in number, only in offset
and length, so every order of repetition, loss and delay is covered. Two faults
allow one during the recovery from another. Two sessions per worker give a
notify that is not the first; three sessions make the round robin wrap. Three
messages overflow a send queue with limit one. Eight clicks are choose, connect,
upload, pause, resume, reconnect, and two more.

`Wire` needs a second connection for what the first leaves behind, a second
message for what is joined to the first and a third whose answer finds the send queue
full (it holds `MAX_SENDQUE + 1`); one byte of id and two of length have
the same order of bytes and the same limits as two and four. In `MetaFile` one
field at a time leaves the form of the client, as no check relates the texts of
two fields; two requests in a row relate all of them through `meta.json`. Limits of
5 and 10 bits lie in the same order as those of 32 and 64, and each is met from
below, exactly and from above, also by a real number and by the sum of offset and
size. Tearing is tried for one task (`TornTasks`), whose name needs an escape
that spans two `\u`. In `Lifecycle` the third session gets the first thread
again, the fourth is the one `StartAccept` has created without a connection.

`CHECK_DEADLOCK FALSE` stands only in the runs of `UploadClient` and `Wire`: there
the system really stops when the user has no more clicks or messages.
`LogicDispatch`, `Session` and `Lifecycle` have an explicit step for the ended
process and for a server without connections. Symmetry is used for workers and
names of `UploadStoreFaults`, whose properties are all safety properties
(`TaskSpec` and `ConflictExplained` have no fairness in them). The inductive
invariants of the proofs are not among the runs: they are proved.

**Fairness.** `LogicDispatch`: an IO thread inside `PostMsgToQue`, a worker
thread and a destructor go on when they can (they are threads; mutexes are held
for finitely many steps); arriving messages, disconnects, spurious wakeups and the
stop signal are not fair. `Session`: the main thread, the IO threads and the
workers go on, and asio ends what is pending on a closed socket; nothing is owed
on an open one. `UploadClient`: the server handles a request it has received and
the event loop delivers an answer that has arrived; no click, no repair of the
connection is assumed. `Wire`: both event loops and the worker go on, bytes on a
connection that stands arrive, and the client hears of a socket the server has
closed; nothing is owed on a broken one, and no message need be sent.
`Lifecycle`: main, the worker and the IO threads go on; no client, no signal and
no completion is owed.

### Where code and documents disagree

These runs end in a violation; `findings` in `PROJECT.json` quotes the statement.

| Run | What happens |
| --- | --- |
| `UploadStoreRestart` | killed while `meta.json` is truncated: the task answers `UploadTaskConflict` for ever |
| `LogicDispatchStop` | stop requested between check and wait: the worker sleeps, `join` hangs |
| `SessionLeak` | failure between `Start` and `insert`: a dead session stays in `_sessions` |
| `UploadClientDone` | a late answer declares the next file complete (`slot_upload_progress` compares no upload_id) |
| `MetaNegative` | a negative size throws in `asUInt64` before the check that should refuse it, and the process ends |

More became visible in the models and are listed under `hazards`, without a run:
a late answer of the former upload may also name the offset of the next file's
first chunk, which the server then refuses as a gap (so `NeverAhead` speaks of the
upload whose answer led to the chunk, and `ValidRequests` of the bounds of the file);
a file called `meta.json` or `data.part` collides with the files of its task; the
send queue holds `MAX_SENDQUE + 1`; pause and resume with an answer under way
make two streams of the same chunks (the store ignores the second of each,
`NoFlood` says that there are never more than the user has caused); a file
unreadable when chosen is later uploaded under the MD5 of the one before; another
file chosen during an upload leaves both buttons disabled; a cancelled file
dialog clears the path of the file the window still shows; an empty test message
makes the server close the connection; every other exception of a conversion
(a text for a number, a root that is no object) ends the process as a negative
size does; a worker that drains its queue at the end of the process uses a
`ConfigMgr` that is already destroyed.

## 4. Proofs

All theorems hold for every value of the constants that satisfies the named
assumptions; TLC evaluates those on every run.

**UploadStoreProofs** (`StoreAssumption`, `PlainNames`: no file is called
`meta.json` or `data.part`; with such a name the final file and the metadata are the
same file). `TypeOK` and the safety properties are not inductive: that a chunk
continues the file, for example, depends on what the thread inside the mutex has
checked several steps before. `IInv` in `UploadStoreInv` adds that: who is past the
lock owns it, the request it handles was valid, the part file ends where its chunk
begins, or holds the whole file before the rename. It is
proved by one lemma per action. From it follow
`StoreTypeOK`, `StorePartIsPrefix`, `StoreFinalIsWhole`, `StoreAckBacked`,
`StoreOneOwner`, `StoreCompletedIsPublished`, and `StoreImplementsTask`: every
step maps to a step of `UploadTask` or a stutter. `StoreConflictExplained` rests on
the same invariant: the part is a prefix and a final file is whole, so a file that
an earlier request of the same upload left behind is never a conflict.

**LogicDispatchProofs** (`DispatchAssumption`). The invariant says who holds
which lock: an IO thread between push and notify owns the map, so that at most
one is there; a worker keeps its mutex from the check to the wait, and finds its
queue empty in between. The step that needs it is a push to a sleeping worker
whose queue is not empty: by the induction hypothesis someone else is about to
notify, but the map is ours - a contradiction. So the queue was empty and the
push notifies itself. For the order of the messages a second invariant (`OInv`)
says that the number posted is the number accepted plus one, because a session that
was unbound is never bound again, that every message of a bound session is with its
worker, and that what that worker holds of a session are the numbers that are
accepted and not yet handled, growing along the queue: the first of them is the next.
Theorems: `DispatchTypeOK`, `DispatchNoLostWakeup`, `DispatchDrainedOnExit`,
`DispatchInOrder`.

**SessionProofs**. The invariant adds that nothing happens on a session before
`Start`, that an open session is bound and has a read pending from `Start` on, and
that only a closed session is being cleared; `SessionTypeOK` counts, too: messages to
handle and answers to write are no more than were received. Theorems: `SessionTypeOK`, `SessionRegistered`,
`SessionNoStaleBinding`, `SessionNoMessageLost`, `SessionOneWriter`. The
symmetric statement about `_sessions`, `NoLeak`, is false (run `SessionLeak`):
`Insert` may come after `Erase`.

**CodingProofs**, of `Base64`. `RoundTrip`: decoding what was encoded gives back the bytes, for
every sequence of bytes. Both functions are defined by position, so that no
induction is needed: a lemma on the four sextets of a group of three bytes, one
for each length of the last group, and the two are put together for the byte at
any position. `EncodedLength`: the text of a chunk of the client is within the
limit of a message.

**LifecycleProofs** (`LifecycleAssumption`). `LInv` says, for each place of main and
of the destructors, which objects are alive, which guards are held and which
threads are joined; that sessions come in the order of their numbers; and that a
thread with a handler has an open session. `IoUsesLive` follows from one conjunct
of `PoolInv`: once main unwinds, no session was ever opened or every thread is
joined, which only the `Stop` of the signal handler brings about. Theorems: `LifecycleTypeOK`, `LifecycleIoUsesLive`,
`LifecycleJoinedFirst`, `LifecycleServed`.

**UploadClientProofs** (`ClientAssumption`). What is under way is typed by what
makes it harmless: `GoodRequests` are chunks inside their file that start where
the server has been, `GoodReplies` claim no more than is stored. The server
only grows (`GrowsC`), so both stay good; a good reply makes `sendNextChunk` build
a good request, whatever upload the reply is of. `NoFlood` needs that a broken
connection carries nothing. Theorems: `ClientTypeOK`, `ClientNoFlood`,
`ClientValidRequests`, `ClientNeverAhead`.

**WireProofs** (`WireAssumption`: ids, and lengths of what is sent, fit in the
header). The properties are about a stream that may be cut between any two bytes,
so the argument is about all that one side has before it, not about its state
alone. `Carries(b, ms)` says that the bytes `b` are the packets of the messages
`ms`, one after the other; `Expects(h, b, ms)` says it of a receiver that has taken the
header `h` off already. Three lemmas are what a receiver does: `ExpectsMore` (a
packet is written at the other end), `HeadArrives` and `BodyArrives` (as soon as there
are enough bytes, what is taken off is the header, or the body, of the first of
`ms`). `WireInv` says with them that an open session has before it, in `_data` and on
the way, exactly the messages of its client that it has not delivered, that
`_send_que` holds the packets of the last answers taken, and that the client has
before it, in its buffer and on the way, the answers that were written and that it
has not received; how many those are (`Written`) is known while the socket is open and
stays what it was when it closes. Nothing is left in the buffer without a connection, or
the next one would not start with `Carries(<<>>, <<>>)`. Theorems:
`WireTypeOK`, `WireRequestsInOrder`, `WireAnswersInOrder`, and `WireByteOrder` (a number
that fits is read back as it was written).

Numbers, packets and the loop of `readyRead` are recursive functions here. Two
facts about them need an induction: that the recursion has a solution (a recursive function
is a `CHOOSE`), and what it computes. `SetInduction` is induction over the natural
numbers for a set instead of a predicate, from the well-foundedness of `<`: the
theorems of the library that take an operator cannot be used, this one can.

**CodingProofs**, of `JsonCoding` (`WidthAssumption`: the unsigned limits are twice the signed ones
and one, as in two's complement, and the 64-bit ones have two digits at least). It is
about what `meta.json` and the requests carry, one number or character at a time, for
integers of any width and all of Unicode. `DecimalDigits`: what `uintToString` writes is
its number, by `SetInduction` over the numbers up to it. `LoopExact`: the test that
`decodeNumber` makes before each digit - against a tenth of the limit and its last
digit - lets exactly the numbers within the limit pass, and the unsigned sum never
wraps. The invariant of the loop is not "the sum is within the limit if and only if it
was kept": one digit before the end a number may be given up that is still below
the limit, and the digit that must follow takes it past. `WholeNumbersReadBack` puts
the two together with the sign. `StaysInText`, `Utf8ReadBack` and `EscapesReadBack` say
the same of characters: arithmetic on groups of six, four and ten bits, with each limit
an operator of its own, since Zenon counts a literal up from zero.

**MetaFileProofs.** The handlers look at members of parsed texts, the properties speak
of what a request means; between the two stand the checks of the code. So the
proof goes in three layers. *Numbers and checks:* `isUInt64`, `isIntegral` and
`asUInt64` take exactly the values that the protocol allows (`Allowed`) and convert
them to the one number each stands for, for integers of any width, fractions and
reals included (`Checked`, `Understood`); `isSafeUploadId`, the base name
and Base64 are checked likewise, the bytes of a chunk by the `RoundTrip` of
`CodingProofs`. *Handlers:* a malformed request is therefore declined with nothing
changed, and any other acts on what it means (`SyncActs`, `UploadActs`), or is a chunk that
does not fit (`UploadMisfits`); after this lemma no text is looked at again. *Steps:*
`IInv` says that `meta.json` is the text of the task, whole, without its last line
end, or torn by a kill in the middle (`MetaKept`), that the part is a prefix of the file for which the
task has room (`PartKept`), and that a published file is complete and alone
(`FinalKept`). It is needed because an answer is judged by the metadata
read back, and those by every write before. A torn text is refused until the end, and so never
taken for another task's. Theorems: `TypeCorrect`, `MetadataReadBack`,
`BytesThroughCodings`, `OneMeaning`, `WithinFile`, `ClientUnderstood`,
`MalformedHarmless`.

What is assumed there, and why. `RequestsAssumption`: the value beside the text of
a request is what the reader makes of the text; an instance must say what its
requests mean, and TLC compares that with `JsonReader` for each of them.
`FileAssumption`: all chunks are of one file, as the client reads them; without it
there is nothing that "the bytes of the file" could mean. `ClientAssumption`: the
client sends what `sendNextChunk` builds. `NamesAssumption`, `NoFileAssumption`: different names
have different texts, and no file is the model value for its absence.
`LibraryAssumption` is the contract of jsoncpp, for the metadata of the tasks
that requests make: what is written is read back as the same value, but for
numbers that become signed when they are small; the last line end can be missing; for
the tasks in `TornTasks` no shorter prefix is read at all. TLC evaluates it with `JsonReader` and
`JsonWriter` on the instance. It is not proved for every text, as the two are
recursive over texts, but its hard parts are: numbers and characters are read back
as written by the theorems of `CodingProofs`. It does not hold of a name
that is no valid UTF-8 (section 5).

**Only model-checked:** that contract, and the properties with liveness in them
(`AllHandled`, `Released`, `Answered`, `UploadEnds`, `SignalStops`): the
prover does neither fairness nor `ENABLED`. Every other property of a passing run
is stated by a theorem.

## 5. Not modelled

* Of jsoncpp: the deprecated `Reader`, `FastWriter`, `StyledWriter`; `Path`,
  iterators, comparison, allocators and the ownership of memory; the comments a
  value keeps; what `CharReaderBuilder` leaves off (single quotes, numeric names,
  dropped nulls, special floats). Real numbers are exact: the rounding of a double
  to 53 bits is left out, so the loss of the last digits of a size beyond 2^53
  that is written as a real is not seen. No request of the client has one.
* A name that is no valid UTF-8 is stored with U+FFFD in the place of the wrong
  bytes and so conflicts with itself; the client sends valid UTF-8 only.
* The grammar of the ini file; a port above 65535 that wraps around in `short`.
* Loss of data that the operating system had not written (the code never syncs);
  memory exhaustion; concurrent calls on one asio socket, which are undefined.
* Changes of a local file during an upload, a limit that `docs/文件上传.md` names;
  progress bar, texts and layout of the window.
* Destruction of sessions that sit in a queue after their `io_context` has gone:
  which of the two singletons goes first is open, and what the socket of such a
  session then does is undefined in asio.

## 6. Plan

1. `UploadSystem`: several clients over `UploadTask`, two of them with files of the
   same MD5 and size; a resumed upload ends up published (liveness under a user who
   resumes), and `UploadClient`'s server shown to implement `UploadTask`.
2. An abstract message channel that `Wire` is shown to implement, and `Session` over it.
3. The strings of the JSON texts, a sequence of characters and escapes, with the loops
   of `Decode` and `EscapedFrom` as recursive functions in `JsonCoding`, and the round
   trip of every valid UTF-8 string from the theorems on single characters.
