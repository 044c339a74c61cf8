# co_server in TLA+

A verification project for co_server, a small coroutine web server in C++ on top of asio. Paths
are relative to the repository root.

## The system

| component | state | operations | used by |
|---|---|---|---|
| `StaticBuffer` (`src/buffer.cpp`) | array, read and write cursor | `writableSpan`, `commit`, `readableSpan`, `consume` | `Connection` |
| `Connection` (`src/connection.h`) | socket, read and write buffer, `readState_`, `writeState_` | coroutines `read(msg)`, `write(msg)` | sessions |
| `MessageLike` (`src/connection.h:20`) | - | `consumeHeaderSome`, `consumeBodySome`, `produceHeaderSome`, `produceBodySome` | `Connection` drives any type that has them |
| `Http::Request` (`src/message/http.cpp`) | head buffer and its fill, end-of-head scanner, parsed head, body and its fill, chunk decoder | consumes a request | sessions, handlers |
| `Http::Response` (same) | head buffer (the caller's or its own), flags of what was set, body, two cursors | `set`, `setBody`, produces a response | handlers, sessions |
| `Http::Router` (same) | a trie of path segments with handlers, a not-found handler | `add`, `notFound`, `handle` | `TestServer` |
| picohttpparser (`lib/`) | none of the parser, `phr_chunked_decoder` of the chunk decoder | `phr_parse_request`, `phr_decode_chunked` | `Http::Request` |
| `BinaryMessage` (`src/message/binaryMessage.cpp`) | length word, body, cursors | consumes and produces a length-prefixed message | nothing in the program |
| msgpack23 (`src/libModules`) | input position, output | pack and unpack | `BinaryMessage` |
| `Server` (`src/server.h`) | io_contexts, work guards, acceptors, threads | constructor, `listen`, `run` | `main` |
| `TestServer` (`src/main.cpp`) | router, a connection counter | `connect`: the session loop read, route, write | `Server` |

Each connection is served by one coroutine on a single-threaded `io_context`; a coroutine runs
undisturbed between two `co_await`s. What makes the code hard is where the pieces meet: the stream
arrives in arbitrary segments and the message parsers are restarted at every segment; `read` and
`write` suspend in the socket with their state machine half way, and other coroutines may call
them meanwhile; the buffers are neither rings nor resizable; errors leave the state machines where
they were; the head buffer of a session is shared by its requests and responses.

### What makes each part correct

- **StaticBuffer**: what is committed comes out once, in order; cursors stay in the array.
- **read**: no byte of the stream is lost, repeated or reordered; one reader at a time; the socket
  is never offered an empty span; a failed connection stays failed; a gone peer releases a reader.
- **write**: the socket gets each message's bytes once, in order and not mixed with another's; OK
  means sent; a write returns.
- **Request**: the same requests are read however the stream is cut; the parser never reads what an
  older message left in the head buffer; a chunked body is decoded to what was encoded; the body
  vector is as long as what is copied into it.
- **Response**: the head that goes out is whole, in order, and says nothing twice; the body is as
  long as announced; a second write sends the same.
- **Router**: each path goes to the best of the routes that fit it, in whatever order they were
  added.
- **Session**: requests are handled as sent and in order, answered in order, every one of them; the
  session ends with its client.
- **Server**: a connection gets one session, on the context that it came to.
- **The text of a head**: the parser's verdict and the slices it returns depend on the bytes received
  and on nothing behind them; the three readings of a head (its end, its slices, the looked-up names)
  agree; a target is cut into the segments and parameters it consists of.
- **BinaryMessage**: a message arrives as it was packed.
- **msgpack23**: what is unpacked is what was packed, and a value's bytes end where the unpacker stops,
  at the edges of the formats too.

## Modules

| module | models | state and actions, in terms of the code |
|---|---|---|
| `StaticBuffer` | `buffer.cpp` | a record `mem`, `rd`, `wr` for `buffer_`, `read_`, `write_`; `Commit` with its clamp, `Consume` with its reset, the two spans. `Byte` and `Cap` are constants. No behaviour of its own |
| `OperatorProofs` | - | lemmas about the operators of `StaticBuffer`, `ChunkAutomaton` and `ChunkCoding`, about sequences, their parts and flattened ones, least and greatest numbers, and the existence of functions over the naturals that the others rest on |
| `ConnectionRead` | `Connection::read` | `readState_`, `readBuffer_`, and for each caller where it stands, its message and its result. One action for each stretch of code between two points where control can go elsewhere: `Call` (the guard), `Suspend`, `Receive`, `ReadFails` (`async_read_some`), `HeaderStep`, `BodyStep`, `MessageFails`. The message type is a parameter, as in the template: `ConsumeHeaderSome` and `ConsumeBodySome` are constants, with the contract read relies on as an assumption |
| `ByteIntake` | - | abstract specification: bytes arrive, are fetched when none is held, are handed over in order. `ConnectionRead` implements it |
| `ConnectionWrite` | `Connection::write` | likewise: `FillHeader`, `FillBody`, `FillEnds`, `Flush`, `Send` (the operation takes its bytes), `Sent` (the coroutine resumes), `FlushEnds`, `SendFails`, `MessageFails`. `writeState_` returns to `START` in `FillBody`, before the flush, as in the code. Two history variables record whether writes overlap (`overlapped`) and where stream and wire stood when they last ceased to (`aloneSince`) |
| `FramedRead`, `FramedWrite` | the same, over messages that know their bytes | no step of their own: what a message took (`Raw`) or has to produce (`HeadToGo`, `BodyToGo`) as constants, the contracts `FramingContract` and `TextContract` about them, and what read and write then promise |
| `ConnectionReadProofs`, `ConnectionWriteProofs` | - | theorems about these |
| `ChunkAutomaton` | `phr_decode_chunked`'s states | the decoder as an automaton over one byte at a time: the reference for the next module, and the decoder of `HttpRequest` |
| `ChunkCoding` | - | the reference for both: what a sender may write for a body, with its chunks, leading zeros, extensions and trailer (`CodedBody`), the bytes of that (`Encoded`) and the data in it (`Content`). A definition on its own, that does not use the automaton's steps |
| `ChunkDecoder`, `ChunkDecoderProofs` | `phr_decode_chunked` | the decoder as written: a buffer that is rewritten in place with `src` and `dst`, one action for each block of the switch, calls with any number of bytes. Theorems about the shared buffer and about bodies that come back |
| `HttpRequest` | `Http::Request`, `phr_parse_request` | a record for the object and operators for its operations: `Scan` (the search for the end of the head), `Parse`, `Deserialized`, `ConsumeHead`, `ConsumeBody`. A byte is a token: a request line, a field, CR, LF, a body byte. A token glued to the next line without a line end is an error (`AtLine`), where the parser on characters may see one longer line; how characters make up lines is `RequestText`'s |
| `HeadScan` | `consumeHeaderSome`'s search next to the parser | `ReadByte`: one byte to both |
| `RequestText` | `phr_parse_request`, `deserialize_`, `get`, `getList` | the parser character by character: each function of the parser is an operator from a text and a position to the position behind what it takes, or to one of two ways not to get there (malformed, incomplete). A line is a list of steps (`RequestLine`, `FieldLine`), each of which goes on from the place the one before has come to (`Place`, `Places`); the loop over the lines is a recursive function of the rounds (`HeaderLine`, `parse_headers`). Slices are places in the text, as the views are in the head buffer. Names in two spellings, Content-Length with its overflow, the elements of Transfer-Encoding |
| `RequestTarget` | `deserialize_`, `Router::add` | what becomes of a target: segments of the path, parameters of the query. The last character of an empty path, which the code asks for, is undefined: `Segments` gives what comes out if it is a slash and if it is not, and `Router` adds and asks for either |
| `HeadText` | head buffer as text | extends `HeadScan`: `ReadSpelled` spells a token in one of several ways and hands the text, with one of several leftovers behind it, to `RequestText` |
| `ChunkedBody` | read's inner loop, `consumeBodySome`, the decoder | `Receive`, `Part`, `Throws`, `Refuses`, `Overruns` (a copy beyond the end of the vector) |
| `RequestProofs` | - | theorems about `HeadScan`, where search and parser agree, about `RequestText` and `HeadText`, the parser on characters, and about `ChunkedBody`, read's loop over a body |
| `HttpSession`, `HttpSessionProofs` | `TestServer::connect` | composes `ConnectionRead` and `ConnectionWrite` (two instances over one connection) with `HttpRequest` and a response; `StartRead`, `InRead`, `ReadReturns`, `Handle`, `InWrite`, `WriteReturns`. `headBuff` is shared by all requests and responses and never cleared. Outside, a client with a script and habits. Its bodies have a length: chunked ones, with the ways they can fail, are `ChunkedBody`'s. Theorems about what is handled and answered |
| `Router`, `RouteTable`, `RouterProofs` | `Http::Router` | `Router`: the tree as a function from nodes (named by the keys on the way to them) to handlers; `Add`, `SetNotFound`, `Handle`, with `FindIn` for `find_` (a recursive function of a node and a place in the path). Routes and targets are texts that `RequestTarget` cuts up, targets with their query. `RouteTable` is the abstract specification: a table of routes, the best of those that fit. Theorems: the one implements the other |
| `HttpResponse`, `HttpResponseProofs` | `Http::Response` | the head buffer as cells with its capacity and cursor, `Alloc`, `SetLine`, `Serialized`; actions `Set`, `SetBody`, `ProduceHeader`, `ProduceBody`, `WriteAgain`. Theorems about the bounds of its buffers, its head and its body |
| `Server` | `Server` | threads, listen coroutines, the kernel's queues and sessions; `SpawnListener`, `StartThread`, `ListenBegins`, `Accept`, `AcceptFails`, `SessionBegins`, `SessionEnds` |
| `BinaryMessage` | `BinaryMessage` | two programs with one object each that exchange messages; `Pack`, `PackFails`, `WriteHead`, `WriteBody`, `ReadHead`, `ReadBody`, `TooLong` (`resize` throws), `Unpack`, `UnpackFails`. The length is `Width` real bytes, the rest those of `MsgPack` |
| `MsgPack` | msgpack23 | `Packed` and `Unpacked` for every kind of type that `Packer` and `Unpacker` have an overload for, on real bytes: a number is its bytes in two's complement, so that widths and signs are those of the code |

The `MC` modules give constants their values and bound what is unbounded. `PROJECT.json` maps every
definition to the lines it stands for.

## Runs

Each run has a configuration; each of its properties is also seen to fail on a variant of a mapped
definition with a plausible mistake in it (the definitions marked *mutant* in the modules).

| run | instance | what it shows |
|---|---|---|
| `read` | two callers, a buffer of 3 bytes, a stream of up to 5 of two values, messages of 2 to 4 bytes whose head gives the length of the body, two kinds of refused messages; the peer may end at any time | no byte lost (`Conservation`, `FramesTileTheStream`), the inductive invariant `IInv`, never an empty span for the socket (`WholeBufferOffered`), errors are final (`FailureIsFinal`), `ByteIntake` implemented (`IntakeSpec`), a gone peer releases the reader (`ClosedPeerReleasesReader`) |
| `write` | two callers, a buffer of 3 bytes, messages of 2, 4 and 3 bytes of which one cannot be produced, with two cursors that go back as those of `Http::Response` do; no call once 5 bytes were produced; the socket takes any part, the peer may leave | `IInv`; `WireInOrder` and `OkMeansSent`, which say nothing of the time while writes overlap, but hold before and again from the first write on that begins after an overlap; `MessagesStayWhole` and `WriteReturns`, also while writes overlap |
| `chunks` | encodings of bodies of up to two chunks with extensions, trailers and bytes behind, each also with every byte replaced by every other; calls with any number of bytes | the cuts make no difference (`CutsAreInvisible`, against the automaton), rewriting in place destroys nothing (`DecodesInPlace`), `RoundTrip` |
| `chunked_body` | the same through read's loop and `consumeBodySome`, spans of up to four times the first size of the body vector, as 4096 to 1024 in the program | the growth of the vector is enough for spans up to its first size (`CopyFits`), the loop ends (`DecodingIsBounded`), once the bytes given to the decoder begin with an encoded body, the read has ended: with that body, cut off by as many bytes as were given behind it, or, if these are more than the body has, with an exception; never refused (`BodyIsContent`) |
| `decoder_reuse_v` | the same | **violated**, see Findings |
| `head_scan` | all sequences of up to 13 of the eight tokens that matter (request line, fields, CR, LF, what is none), each spelled in several ways (fields behind one of the lines only), with one of four leftovers of older messages behind them | the search for the end of the head and the parser on tokens agree (`IInv`, `FoundMeansDecided`, `AcceptedMeansFound`); the parser on characters gives the verdict of the one on tokens, whatever stands behind the head (`TextAsTokens`); the fields that decide about the body are those of the tokens (`FieldsAsTokens`); every slice lies in the bytes received (`SlicesInHead`); segments and parameters put together again are the target, if it has a path (`TargetInParts`) |
| `session` | a client with one of six scripts of two or three requests (with and without bodies, a head that fills the buffer, a bad Content-Length), waiting for responses or not, sending bodies with their heads or apart, in segments cut anywhere; it may leave at any time; the head buffer starts with what looks like an older request; socket buffers of 6 | `TypeOK`, `HandledAsSent`, `NothingMadeUp`, `RepliesInOrder`, `EveryRequestAnswered`, `SessionEndsWithPeer` |
| `head_end_v` | the same | **violated**, see Findings |
| `router` | up to three routes out of ten, in any order, then a request for one of all paths of up to three segments, with and without a slash at the end, one of four, or a target with a query | the tree answers as the table does (`TableSpec`), adding hides nothing (`AddLosesNothing`) |
| `response` | buffers of 0, 3, 4, 7 and 5 (its own) cells, up to two fields of seven kinds and any number of bodies set in any order, pieces of 0, 1 and 4, written again and again | `HeadIsWhole`, `BodyAsAnnounced`, no write beyond the buffer (`TypeOK`) |
| `server` | two contexts, three clients, accepting may fail at any time, with a connection waiting or without | `QueuedGetSessions` |
| `binary` | lengths of four bytes, uninitialised at first; 23 types of which one is sent in pieces of any length and the others, with values at both sides of the limits between two formats (those of sizes of one and two bytes: a size of 65536 is not reached), in one; packing and unpacking may fail half way | `ArrivesAsSent` (the bytes), `ValueArrives` (the value), `FramesItself` (no proper part of a value's bytes unpacks, and the whole is read to its end) |

### Why the bounds are enough

Buffers of 3 with messages of up to 4 make every case of the loops happen: a message longer than the
buffer, two in one buffer, an end at the edge. More bytes repeat them; the proofs drop the bound. The
chunk decoder has 8 states and no state but its counters across a byte; streams of up to 20 bytes
visit all of its transitions from every cut, and the spoilt streams its refusals. The end-of-head
search depends on four bytes and the parser on two fields more; 13 tokens hold a head with two
fields and what follows, and the theorems of `RequestProofs` hold for all lengths. Each class of characters
that the parser's tests tell apart has a representative, and each of its ways to refuse a text a
spelling. A format of msgpack23 is chosen by comparing with its limits: the values are
those at and next to each limit of each width of numbers and times. Of sizes they are those next to
16, 32 and 256 (15 and 16 for lists and maps); the next limit, 65536, would need values of so many bytes, which TLC cannot
handle as sequences, so `str32`, `bin32`, `array32` and `map32` never occur. Two requests show
what the first leaves behind for the second (head buffer, unread bytes, cursors), the third that
nothing adds up. A router's search involves at most three branches of a node, hence three routes; `RouterProofs` has no bound on them. With two
contexts there is one that a client did not come to. The response's first growth and a later one
happen with two fields over buffers of 0 to 7 cells.

Bounds are named: `MaxSent`, `MaxProduced`, `MaxRead`, `MaxRoutes`, `MaxSets`; the sizes in
the code (4096, 1024, 1 MiB, 32 fields, 16 digits, 100 KiB of overhead) are the constants `Cap`,
`HeadCap`, `FirstSize`, `MaxBody`, `MaxHeaders`, `MaxDigits`, `MaxOverhead`. No symmetry is used.

### Fairness

An `io_context` has one thread that runs whatever can run, so a coroutine between two suspensions
goes on (`WF` of `Resumed`), and a socket operation that can complete does (`WF` of `Completes`).
For `WriteReturns` the second says that the peer reads or is gone, which TCP gives only with a timeout: the code
has none, so a peer that neither reads nor leaves holds a write for ever. The session's fairness is
that of its one coroutine, and the client's is that it sends what it has. `Server` assumes that main
and the threads run; nothing makes clients come, sessions end or accepting fail.

## Proofs

For every type of message, size of buffer, number of callers and length of stream:

- `OperatorProofs`: what each operation of `StaticBuffer` does to the readable bytes (the module's one hard point
  is the cursor reset, `ConsumeMovesBytes`); that feeding the automaton of `ChunkAutomaton` in parts is feeding it at
  once (`FeedParts`, `FeedData`); `FlattenAppend`. Induction theorems with an operator as parameter
  cannot be used, so induction is over sets of naturals: one that holds 0 and with a number the next one holds all of them,
  and a property that fails has a least number where it fails. `RecursionExists` gets the values of a recursive function from it.
- `ConnectionReadProofs`: `IInv` is inductive. `Conservation` alone is not: a step of the inner loop needs to know
  that only one caller is inside (`OneReader`), for which `readState_` must say so
  (`StateFollowsReader`); and receiving needs the buffer empty while someone waits in the socket
  (`AwaitsWhenEmpty`) with its cursors at 0 (`ResetWhenEmpty`). From it follow conservation, exclusion, the whole
  buffer for the socket, the finality of failures, and step simulation of `ByteIntake`: `Arrive`,
  `Receive` and the consuming steps map to its three actions, all others to stuttering. The
  assumption is `ConsumeContract`: a message reports no more bytes than it was given.
  `ReadFramesTheStream` is about messages that also keep what they take and say "complete" with their head and
  with the whole (`FramingContract`): no call that is turned away and no cut of the stream puts a byte
  into another message than its own, and what is handed over is one whole frame. Inductive with `HeadBeforeBody`: read stands
  behind a head exactly when the message it drives has one. Of a message that refuses its bytes nothing is asked.
- `ConnectionWriteProofs`: `IInv`: for any behaviour `OneProducer` and `BufferIsTail` (the buffer holds the last
  of what was produced), and, at all times at which no write is in another's last flush, `WireInOrder`, for which one has to know
  who is inside (`Alone`) and that the operation in the socket covers what the buffer holds (`SpanCurrent`). Of the wire
  during an overlap nothing holds: two flushes send the same bytes and consume each other's. But when all
  have left and a write is admitted, `BufferIsTail`, which no overlap disturbs, gives `WireInOrder` again, counted from the
  place in stream and wire at which they then stand (`aloneSince`, `SpanIsTail`). `OkWritesAreSent` is in the same terms. The
  assumption is `ProduceContract`. `WriteKeepsMessagesWhole` holds for any behaviour, with overlapping writes too: what the
  buffer was given are whole messages and the first part of one, of which the caller in the middle of its
  message still owes the rest (`Underway`, `Owed`). That is inductive with `IInv` (`TextInv`), because
  `OneProducer` says that no other is in the middle of one. The contract, that a message hands over the next part of its text
  and says "complete" with the last (`TextContract`), asks nothing of the cursor of a part that is done, because
  `Http::Response` rewinds it there.
- `RequestProofs`, the two readers of a head. The invariant says which counts of line ends are
  possible at each state of the parser (`InStep`), and exactly which if all lines end with CR LF
  (`LinesCounted`). It follows that the parser has decided by the time the search reports an
  end: it never runs on into the stale rest of the head buffer.
- `RequestProofs`, the parser on characters. For all texts over the characters of `RequestText`, of any length:
  `VerdictStands` says that what `phr_parse_request` returns of a text, but for a wait for more, it returns of each text that
  begins with it; `FoundInOrder` that what it finds in one that it accepts lies in order within it. `deserialize_` hands the parser the
  whole array, with an older request's or response's bytes behind the head: by the first, these change nothing
  (`OldBytesChangeNothing`), and by the second, the views that a request keeps are views of bytes it received
  (`SlicesStayInHead`). Both go the way of the parser: from one step (`PlaceStands`, `PlaceIs`), whose search for a
  character stops within the text or waits for more, to a line (`PlacesStand`, `RequestLineIs`, `FieldLineIs`), one round of
  the loop over the fields (`HeaderLineStands`, `HeaderLineIs`) and the loop (`HeadersStand`, `HeadersAre`), of which the
  invariant is `Rounds`: the fields so far lie one after another before the place the loop has come to (`InOrder`). The
  state needs no more than that what was seen is the parser's answer for what the buffer holds (`TextInv`). The assumption
  is that spellings are texts (`TextAssumption`).
- `ChunkDecoderProofs`: the one buffer of a call is its input and its output. `DecodesInPlace` speaks of
  the bytes from `src` on; the invariant adds that `dst` never passes `src` (`Positions`), that the call was
  given the stream's bytes up to `fed` (`Supplied`), and where they are when the call is over (`Left`). The
  moves need `MovedBytes`: a `memmove` to the front changes nothing beyond the place it ends at.
  `DecodingIgnoresCuts` compares the decoder with the automaton: a call that is not over and the automaton fed with
  the bytes up to `src` are in the same state (that of the decoder before its loop puts it aside), have the same
  counters and have decoded the same bytes, those of the buffer up to `dst` included.
  `BodiesComeBack` goes on from there. By `FeedEncoded` (`OperatorProofs`) the automaton, given any spelling of any body,
  is through at its last byte and not before, and has put out its data: the value of a size after each of its digits is that of
  the digits so far (`Denotes`), extension and trailer are passed over byte by byte, a chunk's data is put out and
  counted down, and the chunks are taken one after another. What comes behind the body is left (`FeedAlong`). The assumption is that
  the bodies meant are of the coding (`CodedAssumption`).
- `RequestProofs`, the chunked body: `DecodingIsBounded`, by the equation that what was read of the stream is what was
  overhead and what was decoded, both of which have a limit. `CopiesFit` says how long a span may be for the growth of the
  vector to be enough: `ShortCopyFits` is the arithmetic of that growth.
  `BodyIsWhatWasSent` ties the request to everything the decoder was ever given, bytes given twice included (`GivenInv`): the body so far
  is what the automaton makes of that, and the decoder kept between two calls is the automaton with its
  counts set back, which changes nothing of what it does next (`FeedAnew`). With `FeedEncoded` it follows what
  becomes of a body once the bytes given to the decoder begin with one of its spellings: a call that does
  not get that far leaves the read going on (`PartGiven`), the one that does ends it (`CompleteGiven`, `ThrowsGiven`), and none that
  refuses does (`RefusesGiven`). The
  code takes the bytes behind the body for a part of what was decoded (`LessRest`), so these are lost from its end, and where
  they are more than the body has, the length wraps around and `resize` throws. Bytes that are given twice after a cut in a
  size, an extension or a line end (see Findings) are as a rule no spelling of a body any more, and the theorem says nothing of those.
- `HttpResponseProofs`: `TypeOK` of a response, that is, that no line is written beyond the head buffer and
  nothing is produced from beyond head or body. For the head it is enough that `alloc_` leaves room for the
  line (`AllocFits`). For the body it is not: `produceBodySome` resizes it at each call, and the cursor stays inside only
  because a body that was produced in part has its final length already (`Settled`). `HeadIsWhole` and
  `BodyAsAnnounced` need a second invariant (`TellsInv`) that ties the cells and flags to what the handler asked for: up to the
  cursor the buffer holds the status line and the lines set (`PutWrites`, also when it is replaced), the flags say which of them
  are there, and `contentLength_` is the last number among them (`Says`), 0 exactly if none that counts was set (`AnnouncedMore`). With a body `isBodyString_` is
  what the handler made it. `SerializedHead` gives the lines that are added from
  that; afterwards what was produced is the part of head and body up to the cursors, and resizing a body twice is resizing
  it once (`SaidBody`). The assumptions are that sizes are numbers and that lines and bodies are of their types
  (`ResponseAssumption`).
- `HttpSessionProofs`: the session. Its read and write are instances of `ConnectionRead` and `ConnectionWrite`; the
  contracts these assume of a message are theorems about `HttpRequest` (`ConsumeHeadType`, `ConsumeBodyType`) and the
  response (`WriterAssumptions`, with `TextsProduced` for `TextContract`). The invariant of one
  coroutine (`ReadInv`, `WriteInv`) ties the state machines of read and write to the place where the coroutine
  stands; `TypeOK` and `RepliesInOrder` follow, the latter from the equation that what was produced and what the response
  still owes are the replies to the requests handled so far. `HandledAsSent` needs to know where each byte of the
  stream is: what the session has in hand, the readable bytes of its buffer, what is under way and what the client has left
  are together the request being sent, or nothing once that one was handled (`OrderInv`); and that the
  search for the end of the head is in step with the parser over the head so far. That the head is then the
  head that was sent takes three facts about the parser: it reads a well-formed head as sent and decides at its end
  (`HeadParsed`), a verdict is not changed by what follows (`ParsePrefix`), and it uses no more than
  it was given (`ParseUses`). At least the head was taken, so what is left of the request is its body, and its length
  makes it the body that was sent (`SplitAgrees`). A client that does not wait has several requests under way, and an end
  between two of them may be overlooked; `NothingMadeUp` says that for requests without bodies no more than that goes wrong.
  Its invariant (`PipelineInv`): the session is through with the first k requests (`Through`), handled some
  of these in order (`LeftOut`), and what it has in hand, with what is to come, is what was sent after them
  (`NothingSkipped`). A request without a body is lines and an empty line, so that the count of line ends at
  each of its bytes is known (`Counted`) and the search finds ends only between two requests (`SearchGoesOn`,
  `SearchOver`). A head that is taken therefore ends where a request does, and is read as the first of the
  requests it holds (`FirstIsRead`, `FirstOfHead`); those behind it are the ones left out. The assumptions are about the client and the memory:
  tokens are of the kinds they are named after (`PlainAssumption`, `GarbageAssumption`), the script is of
  requests that fit the head buffer (`ScriptAssumption`), and their heads announce the lengths of their bodies truly
  (`LengthAssumption`).
- `RouterProofs`: the tree of routes implements the table (`ImplementsTable`). `TreeInv` says that the tree holds the way to
  each of its nodes (`ParentIn`); without it a node could not be found from the root. That `find_` as a recursive
  function has values at all is `RankedRecursion` with the place in the path as rank (`FindIsSearch`). From there the search
  is described one node at a time (`SearchStep`), and by induction from the end of the path backwards it returns
  the best way on from every node (`SearchFindsBest`). A way on begins with one of the children that are tried, whose place in the order of
  trying is its cost up to a constant (`WayBegins`); what follows is a way on from that child (`WayGoesOn`) and
  conversely (`WayBack`). So of two ways that by the child tried first is ahead (`FirstIsAhead`), and of two by the same
  child the one that is ahead behind it (`SameFirstStep`). At the root the ways on are those of the table
  (`WaysAreHeld`), ahead is better (`BetterIsAhead`), and no two routes are better than each other (`AheadOneWay`), so the
  best is one. `AddLosesNothing` compares the searches before and after an addition node by node (`SearchAfterAdd`).
  The assumptions are that routes and targets are texts and no handler is mistaken for the not-found handler or none
  (`RouterAssumption`).

Only model-checked:

- liveness, which the prover does not reach, and the two violations;
- the text of a head against its tokens (`TextAsTokens`, `FieldsAsTokens`): a verdict for each of finitely many spellings, of
  which nothing is assumed but that they are texts; `TargetInParts`, a reference definition by folds and filters;
- `Server`, whose property is a liveness property;
- `BinaryMessage` and `MsgPack`, whose operators are recursive as the packer is.

## Findings

- `head_end_v`: `consumeHeaderSome` (`src/message/http.cpp:460`) remembers an end of a head and goes on.
  Two requests in one span whose last byte ends the second are taken as one head; the parser reads the first and
  the second is lost. `HandledAsSent` and `EveryRequestAnswered` are stated for clients that wait for each
  response; `NothingMadeUp` and `RepliesInOrder` say what is left for those that do not.
- `decoder_reuse_v`: `consumeBodySome` (`src/message/http.cpp:503`) reports decoded bytes as consumed,
  so that the decoder is given bytes again that it has decoded, against
  `lib/picohttpparser/picohttpparser.h:74`.

Found on the way and not contradicted by any line of the repository (hence no run):

- A head and the beginning of its body in one span: the head's end is forgotten, and the body is taken
  as more head (`src/message/http.cpp:464`). `EveryRequestAnswered` is stated for clients that send
  bodies apart.
- A chunked body in spans of more than the vector's first size can be copied beyond its end
  (`src/message/http.cpp:495`).
- `BinaryMessage::consumeHeaderSome` swaps bytes after every piece of the header
  (`src/message/binaryMessage.cpp:78`): `ArrivesAsSent` says for which headers that comes out right.
- msgpack23 packs a number from -32 to -1 as one byte (`src/libModules/msgpack23.cpp:813`), and the unpackers
  of 32 and 64 bits take that byte for a positive number, 224 to 255.
- The test whether a time point fits into four bytes looks at what is beyond 34 bits
  (`src/libModules/msgpack23.cpp:322`): whole seconds from 2^32 on lose their two upper bits.
- A list that a member's initialiser has filled keeps these elements, and the unpacked ones follow
  (`src/libModules/msgpack23.cpp:608`); a variant with more than 128 alternatives is packed and not
  unpacked (`src/libModules/msgpack23.cpp:671`). `ComesBack` in `MsgPack` names these four exceptions, and
  `ValueArrives` is stated for the other values.
- Names of fields are looked up in two spellings, as in `Content-Length` and `content-length`
  (`src/message/http.cpp:417`); a third spelling is a field of no meaning, and the body is taken as the next request. A length
  followed by letters is accepted as the length (`src/message/http.cpp:366`).
- A target that begins with a question mark has an empty path, whose last character is asked for
  (`src/message/http.cpp:390`), which is undefined. In the buffer of a request the space before the target stands there, but
  the models take both outcomes, a slash or none (`AfterLastSlash`), and the same for an empty route given to `add`
  (`src/message/http.cpp:221`).
- A write that another coroutine starts during the last flush of the first shares its buffer and cursors
  (`src/connection.h:118`): both send the same bytes and consume each other's, so while that lasts the peer may get
  bytes twice or miss some. `WireInOrder` and `OkMeansSent` are stated for the times before and after, `MessagesStayWhole` for all
  of it. The program's sessions have one coroutine each.

## Not modelled

- `Error` (a value and its text; the models use its names), printing, the module wrappers of asio and glaze, the
  build.
- `TestServer`'s handlers beyond a table from request lines to responses; `addCors`, which nothing calls; the
  counter of connections, which is only printed. In `HttpSession` a response is its two texts; how `Http::Response` makes
  them is `HttpResponse`'s matter, and how a request finds its handler `Router`'s.
- `phr_parse_response`, `phr_parse_headers` and `is_complete`, which the program does not reach (`last_len` is 0);
  the search with SSE 4.2, which finds the same bytes sooner.
- msgpack23's sizes beyond 32 bits and the errors it throws for them. Sizes of 32 bits are modelled, but not reached by a run.
  A variant whose size goes beyond the input: the span made before `increment` throws is undefined
  (`src/libModules/msgpack23.cpp:675`); the model has the throw, which is what a build without the library's own checks does.
- Lifetimes of C++ objects: views into the head buffer that a handler keeps (listed as a hazard in `PROJECT.json`), a copied
  `Response`, which the program never makes.
- Two reads in a row into one `BinaryMessage`: the program of the model packs between them. The cursors stay where the first
  read left them, so the second header is not read, `length_` is swapped once more, and what comes is taken for a body of that
  length. This always goes wrong, so there is nothing that could be promised of it; it is listed as a hazard.
- Contents of memory that is never read; the time that the router's search takes.

## Plan

Done: the modules, runs and proofs above. What is left, in this order:

1. `Response` in `HttpSession` replaced by the operators of `HttpResponse`, `Router` composed with it.
