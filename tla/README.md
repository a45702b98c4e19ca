# TLA+ verification of webserver67

Specifications, model-checking configurations and machine-checked proofs for the web server in
`src/`: a single-threaded HTTP/1.1 server in C that serves static files, one connection after
another. The models are translated from the code; `PROJECT.json` maps each definition to its lines.

## 1. Inventory

| component | state it keeps | operations | talks to |
|---|---|---|---|
| main loop (`server.c`) | `keepRunning`, `status`, `serverfd`, `clientfd`, `buf`, `n` | boot, accept loop, recv loop, inner loop, response, resets, cleanup, SIGINT handler | every other part; clients through the kernel |
| request builder (`lib/request.c`) | three flags, `remainingBuf`; the request's `headers`, `content`, `contentSize` | `processRequestChunk`, `setContent`, resets, free | called by the recv loop once per chunk, then again while text remains |
| request line (`lib/startline.c`) | none | `getRequestLine` | called by the builder |
| header fields (`lib/fields.c`) | the hash map it is given | `readHeaders`, `getHeader`, `popHeader` | builder, response |
| response (`lib/response.c`) | `fileName`, `pathToFile`, `specialBody`, `specialBodyUsed`, `encoding`, `statusLine`, `headers` | `generateResponse`, `sendStatusLine`, `sendHeaders`, `sendBody`, reset, free | file system, socket, `keepRunning` |
| file utilities (`lib/fileutil.c`) | none (the file system) | `isDirectory`, `fileExists`, `fileSize`, directory listing, `compressFile` | called by the response |
| configuration (`lib/config.c`) | `struct cmdArgs`, `ServerConfig` | `readConfig` | command line, file system, LibCYAML |
| string helpers (`lib/util.c`) | none | `trim`, `prependStr`, `strIsNumeric`, ... | everywhere |
| hash map (`lib/hashmap.c`, third party) | buckets with their distances, `count`, `growat`, `shrinkat`, `cap`, `loadfactor` | set, get, delete, resize, iterate, clear | header fields; the allocator |

What is hard in it:

* **Concurrency.** There is one thread, but clients, the kernel's queues and SIGINT move between
  any two of its steps. The handler only clears `keepRunning`; every loop has to look at it, and
  `send()` blocks.
* **Delivery.** TCP cuts a request anywhere. What one call of `processRequestChunk` cannot use is
  kept in `remainingBuf` and put in front of the next chunk, with lengths that come from the chunk.
* **State that outlives a request.** One request, one builder and one response object serve all
  connections; correctness hangs on three resets. The header maps change owner by pointer.
* **The file system.** One response looks at it up to five times, and writes a `.gz` file to it.
* **Tables in motion.** The hash map displaces, shifts back, grows and shrinks in nested loops without
  a bound; what makes them end is an invariant that no line states.
* **Failure.** Errors take one `goto cleanup`; some calls end the process, some are ignored.

What makes each part correct: the receive loop stays inside its buffers and ends; a request is
parsed as it was sent, wherever the code lets it be cut; a response reaches a client complete and without holes;
nothing of one request or response gets into the next; maps and descriptors are released exactly
once; clients are served in turn; the hash map is a function from names to values; SIGINT stops the server; status, length and body
agree with the file; the configuration is what command line and files ask for. `PROJECT.json` lists each hazard at its line, with the properties aimed at it.

## 2. Modules

| module | models | runs |
|---|---|---|
| `ReceiveLoop` | recv loop and request builder, strings abstracted to their lengths | `MCReceiveLoop.cfg` |
| `ReceiveLoopProofs` | theorems about it | (TLAPS) |
| `RequestParsing`, `MCRequestParsing` | the same code on tokens: request line, header lines, blank line, content, for one request in segments; implements `ReceiveLoop` | `MCRequestParsing.cfg`, `MCHeadersCut.cfg`, `MCBlankLineApart.cfg` |
| `RequestParsingProofs` | that the parser keeps its types and implements `ReceiveLoop`, however a request is cut | (TLAPS) |
| `RequestParsedAsSent` | that a regular request is parsed as it was sent, and which of them are never answered | (TLAPS) |
| `SequentialService` | abstract: what the clients are promised, one at a time, in order, to the end | (implemented by `WebServer`) |
| `WebServer`, `MCWebServer` | `main()` with clients, accept queue, socket buffer and SIGINT; extends `ReceiveLoop`, implements `SequentialService` | `MCWebServer.cfg`, `MCWebServerLive.cfg`, `MCIncomplete.cfg`, `MCSigintSending.cfg` |
| `WebServerProofs` | theorems about it | (TLAPS) |
| `Response` | `generateResponse`, `sendBody`, compression, over a file system that changes | `MCResponse.cfg`, `MCDiskFull.cfg` |
| `ResponseProofs` | theorems about it | (TLAPS) |
| `FieldMap` | abstract: what callers of the hash map rely on, a function from names to values | (implemented by `HeaderMap`) |
| `HeaderMap`, `MCHeaderMap` | `lib/hashmap.c`, one turn of each of its loops per step; implements `FieldMap` | `MCHeaderMap.cfg` |
| `HeaderMapProofs` | its inductive invariant and the theorems that follow from it | (TLAPS) |
| `HeaderMapRefinement` | that `HeaderMap` implements `FieldMap` | (TLAPS) |
| `Config` | `parseCmdArgs`, `readConfig` | `MCConfig.cfg` |
| `ConfigProofs` | theorems about it | (TLAPS) |

**ReceiveLoop** keeps of `remainingBuf` and `content` their `strlen`, and of the map whether the
pointer is set and how many maps are allocated. What the parser finds in the bytes is a free choice:
any line end, any blank line, any offset. An action `RecvChunk(k)` is a `recv()` of `k` bytes with
its call of `processRequestChunk`; `ProcessAgain` is one turn of the inner loop. The four branches
of the call are `ParseRequestLine`, `EndOfHeaders \/ MoreHeaders`, `SetContent`, `AppendContent`.
A write or read outside an object is an outcome of its own (`"contentOverflow"`, `"overread"`, ...),
after which nothing more is said. A Content-Length is any `unsigned int` that `atoi` may give; `realloc`
may fail, and does for the size that wraps to 0.

**RequestParsing** decides those choices from a sequence of tokens (`CR`, `LF`, `COLON`, words).
A request is its field names, its line end and the length of its content; `StreamOf` lays it out, all lines
having three words, so that what stands at a position is arithmetic. The values are a constant, one for each field.
`Cut` is the NUL the code writes over a line feed; `OneFurther` is `chunk + 1`; `ReadHeader` is one turn of the loop
of `readHeaders`, with the NULL it writes through, and `HeadersRead` its end and that of the call. `text`, `at`, `map` and `rest` are
what the call has in hand; as there is one thread, what it has done is put into the builder's variables
when it returns. `ImplementsReceiveLoop`
states that it refines `ReceiveLoop` under the mapping of each string to its length. Names are turned to
lower case (`Lower`), and values that are joined are cut at `ValueMax` words, as `snprintf` does.

**WebServer** has one action per system call outcome and per loop test of `main()`, and `pc` says
where it is. A `send()` is three steps (`EnterSend`, `CopyByte`, `SendReturns` or `SendFails`), for
SIGINT and the client can come between them. `Connect`, `ClientSend`, `ClientShut`, `ClientGone`
and `ClientRead` are the clients. The content of what is sent is abstracted to a count of bytes.
`DrivesReceiveLoop` states that `main()`, with everything around it, takes only the steps
`ReceiveLoop` allows, so that the theorems of `ReceiveLoop` hold of `WebServer` without being
checked again. `response->headers` begins as `"garbage"` or `"null"`, for `initializeResponse` does
not set it.

`ImplementsService` maps the same state to `SequentialService`: `backlog` is who waits, an open `clientfd`
whose turn it is, `accepted` what it was given of the `parts * PartLen` bytes of its response.

**HeaderMap** follows a call from one turn of its loop to the next, with `pc` the loop it is in: `place`
(the loop of a set), `grow` or `shrink` (the allocation), `rehash` and `carry` (the two loops of
`resize0`), `get`, `delete`, `shift`, `scan`. `entry` is `edata`, the item looked for or `spare`. The hash is any
function; a name and a value are model values. `FieldMap` has one step per call, and
`ImplementsFieldMap` maps the table to a function when no call runs and to what it was before while one does, so
that a call takes effect, whole or not at all, when it returns. The header maps of a request are only
set, read and popped, those of a response set and iterated; the run lets all operations mix.

**Response** has one action per look at the file system. A file is its length, whether it is a gzip
stream and whether that stream is complete; each behaviour has a set of `faults` that may
happen in it: changes during a response, files that may not be opened, writes that fail.
`initializeResponse` leaves `specialBodyUsed` unset; `garbage` is the value it happens to have.

**Config** scans a command line one argument per step, as the code does with its overwriting of
`argv`, and compares the result with `Expected`, which is read off the command line as typed.

Operators whose name ends in a description of a defect (`SetContentExact`, `RecvClosedIgnored`...) stand
just before the definition they are a variant of. They are plausible bugs, used to confirm that each
property notices the bug it is there for; no specification uses them.

## 3. What the runs check

| run | bounds | states | shows |
|---|---|---|---|
| `receive_loop` | buf 7, content 5, unsigned up to 9, declared 0, 3, 8, 9 | 982 | memory safety, phases, progress of the inner loop; the proofs' invariant |
| `request_parsing` | buf 21; 0-3 headers, 0-3 bytes of content, CRLF or LF; segments of whole lines with content cut anywhere, or, up to 2 headers, cut anywhere | 227,813 | a request that fits and comes in whole lines is parsed as sent if answered, and is answered unless a `recv()` ends just before its blank line; refinement of `ReceiveLoop` by all |
| `header_map` | 3 names, 2 values, 3 hash functions; tables of 2, 4, 8 and 16 buckets, load factors 60 and 95 | 239,714 | robin hood order in every loop, one bucket per field, no full table, every call returns; refinement of `FieldMap` |
| `web_server` | 2 clients, 4 bytes each, buf 5, socket buffer 1, parts of 2 bytes, at most 3 parts | 528,151 | responses without holes, complete; fresh state at accept; ownership of maps and descriptors; refinement of `ReceiveLoop` and of `SequentialService` |
| `web_server_liveness` | the same with 3 bytes and buf 4 | 117,013 | SIGINT stops the server; no client waits for ever |
| `response` | 2 responses, 3 names, sizes 1 and 2, files change between responses; without faults, with changes during a response, with files that cannot be opened or written | 1,721,952 | without faults, status, length and body agree with the file; with or without, nothing carried over |
| `config` | 3 arguments out of 8, every set of files | 367,992 | when a file is named or found, the configuration is what command line and files ask for |

*Why the bounds are enough.* In `ReceiveLoop` every comparison is between a length and `BufSize`,
`contentSize` or the chunk; a buffer of 7 has room for a blank line, a remainder and one byte more, and the
declared lengths lie below and above the initial size of content (the theorems remove the bound).
In `RequestParsing` two headers are enough for a repeated one and three for another between them;
a buffer of 21 tokens holds all requests but the longest, so that `recv()` itself cuts some; a value of two words
is cut when three are joined. In `HeaderMap` the smallest table has 2 buckets where the code has 16, and `ShrinkPercent` is 30 where it
has 10, so that three fields are enough to grow twice and to shrink again; the hash functions have names that
collide altogether, in the smaller tables only, and at the last bucket, where searches wrap. In `WebServer` two
clients may both wait, or one while the other is served; with 3 bytes and `Backlog = 0` the queue fills; a part of 2 bytes through a buffer
of 1 is a `send()` that blocks half way, and a request is at least two bytes, so 4 bytes reach every phase and a
remainder. Two responses are enough for a state that is carried over. Symmetry between clients is used in the safety run only.

*What the passing properties leave out.* `MemorySafe` rules two out of four corruptions out and says of the others when
they may happen: an overread when one `recv()` has filled `buf`, an overflow of content when more of a body comes than was
declared. `LengthMatchesBody` and `BodyIsTarget` are about responses during which nothing
changes or fails (`Calm`); `NothingCarriedOver` is about all. `AnsweredInTheEnd` exempts one cut (`BlankLineApart`).

*Where CHECK_DEADLOCK is FALSE* the model ends: a request is answered, a scan is done, the responses
are used up. `WebServer` is checked for deadlock, with the stuttering step `Ended` for a process that is over.

### Fairness

* `ReceiveLoop`: weak fairness of `ProcessAgain`; it is the body of a loop in running code.
* `RequestParsing`, `FairSpec`: the segments arrive, and `main()` keeps taking steps. The fairness
  of `main()` is written with `Busy`, which is its enabling condition spelled out.
* `HeaderMap`: weak fairness of `Step`; a call that runs keeps running. Calls themselves are not forced.
* `WebServer`: `ServerSpec` is weak fairness of `Work`, the steps `main()` takes by itself; errors of
  system calls (`Fails`) are never forced. `ReadingSpec` adds that a client reads what is there for it;
  `FairSpec` that a client stops sending some day. Nothing in the code bounds how long it waits for
  either, and `sigint_sending` shows what happens when the first is dropped.

### Disagreements found

Each is a run whose property quotes a statement of the repository and is violated by the code.

| run | statement | what the code does |
|---|---|---|
| `headers_cut` | request.c:191, the start of the next header line is saved | a line cut before its colon is written through NULL |
| `blank_line_apart` | request.c:162, the header section always ends in two newlines | a `recv()` that ends just before the blank line leaves one for the next, and the server waits for ever |
| `incomplete_request` | server.c:188, "closing connection" | the server exits |
| `sigint_sending` | server.c:207, SIGINT while sending shuts down | not while `send()` was entered after the test and blocks |
| `disk_full` | fileutil.c:121, on failure the plain file is sent | the truncated .gz is sent |

Met while modelling, in the models, and without a run of their own:

* request.c:162 again: `getRequestLine` uses up the newline of the request line, so that the blank line of a request
  without headers is a single newline, which no `strstr` finds. Proved: `WithoutHeadersNeverAnswered`.
* `request.c:39` adds 1 for the NUL of content, but `strncat` (request.c:206) appends what comes after the first piece up to
  the size of the chunk, not to what is left of content: a body longer than declared is written past its end
  (`AppendContent`, the outcome `"contentOverflow"`).
* `fileutil.c:88` says that without gzip support the file is left as it is; a request without an Accept-Encoding header
  has NULL searched with `strstr` (fileutil.c:82, response.c:301), which ends the process (`CompressFile`, `Crash`).
* `README.md:41` says the server runs with defaults when no configuration file exists; `readConfig` returns NULL and the
  server exits (`SearchForConfigFile`). `ConfigAsExpected` says nothing of that case.
* `include/response.h:30` says that 404 responses "are always text/html"; `make404Response` leaves
  `fileName`, from which the type is made, so a missing image is answered with an HTML page of type
  `image/png` (`Make404Response`, `GenerateResponseHeaders`).
* `response.c:136` says that opening the file cannot fail after the check for its existence; a file
  that may not be opened passes the check (`CheckExists`, `SendBody`).
* `include/response.h:24` says what the body in memory is used for; the flag is not initialised, and a first
  response may be empty (`garbage`; the properties exempt that one response through `FlagIsSet`).
* `response.c:37-40` frees `response->headers`, which `initializeResponse` does not set, when the process ends before its first
  response is built, for instance because there is no configuration (`Cleanup`; the outcome `"wild"`, after
  which nothing is said of maps and descriptors). No line of the repository promises anything about it.

`request_parsing` is stated about what lies outside of these disagreements: requests with at least one header, of which
no line is cut (`Regular`). All cuts between lines are allowed, the one before the blank line included: a request
that is answered was parsed as sent however its lines were grouped, and it is answered unless that one cut was
made (`AnsweredInTheEnd`).

## 4. What is proved

`ReceiveLoopProofs` proves, for every `BufSize >= 3`, every positive `ContentMinLen` and every set of
declared lengths up to `UIntMax` that contains 0 (the named assumptions of `ReceiveLoop`):

* `LoopInvariant`: `LoopSpec => []LoopInv`; and from it
* `LoopTypeCorrect`, `LoopMemorySafe`, `LoopPhasesInOrder`;
* `LoopShrinks`: each further call of the inner loop works on strictly less text.

*The argument.* None of the wanted properties is inductive. Whether `prependStr` fits in `buf`
depends on what was left over, and whether the length kept after the blank line is positive depends
on the text not being longer than the chunk. `TextLeftOver` is what connects them: text is left over
only while the inner loop runs, and is then shorter than the `n` bytes last received. So `recv()` never
meets a remainder, and the inner loop never has a text longer than `n`. `ContentHasRoom` carries
`setContent`'s promise of one byte more than declared to the appends, and `MapOwned` makes freeing
well-typed. `ChunkInv` proves one call of `processRequestChunk`, with a lemma per branch; `NextInv`
goes over the actions.

`WebServerProofs` assumes besides only that `NoFd` is not a client.

* `ServerInvariant`: `Spec => []ServerInv`; and from it `ServerTypeCorrect`, `ServerNoHoles`,
  `ServerAnswersInFull`, `ServerFreshAtAccept`, `ServerMapsOwned`, `ServerDescriptorsClosed`;
* `ServerDrivesReceiveLoop` and `ServerMemorySafe`: what is proved of the receive loop holds of the server;
* `ServerImplementsService`: `WebServer` implements `SequentialService`.

*The argument.* `main()` says what it has in hand by where it is, and nowhere else. `ServerInv` says it for
each place: which descriptors are open, whether request and response have a map, and (`SentAtPc`) how the bytes
copied to the socket, those the client has read and the part that is being sent add up, so that a part
begins only when the one before it is with the kernel in full. Every step is then shown to be one of
`LoopNext` or to leave the loop's variables alone, and `LoopInv` is carried over as it is, not proved again.

`ResponseProofs`, for any files of any size and any number of responses: `ResponseInvariant`,
`ResponseTypeCorrect`, `ResponseLengthMatchesBody`, `ResponseBodyIsTarget`, `ResponseNothingCarriedOver`.
*The argument.* The length announced and the body sent come from different looks at the file system, so
`ResponseInv` says at each step which path was chosen and what is in memory, and, under the
condition that nothing has changed meanwhile, that each choice made so far is still right; what it says at
the first step of a response does not depend on the response before.

`RequestParsingProofs`, for requests of any number of fields with any values, cut anywhere, and a buffer of any size from 3
(`RequestParsingAssumption`): `ParserInvariant`, `ParserTypeCorrect`, `ParserImplementsReceiveLoop`, and with it, from
`ReceiveLoopProofs`, `ParserMemorySafe` and `ParserInnerLoopShrinks`: what is said there of lengths holds of the bytes.
*The argument.* While `readHeaders` runs the loop on lengths has not moved yet, and then takes one step for all of the call.
`CallInv` remembers for it what the call began with: the text is what the builder had kept and what was received,
and what has been saved of the body is what follows a blank line in it. That the place where the reading stops is
never past the text by more than it may be is `LineIs`; that one byte further on there is strictly less text, `OneFurtherIs`.

`RequestParsedAsSent`, for every regular request: any number of fields, any values, repeated or not, CRLF or LF,
any content without line ends, cut between any of its lines or anywhere in its content, if `buf` holds it (`Regular`):

* `RegularInvariant`: `Spec => []RegularInv`; and from it
* `RegularRequestsSurvive`: unless a `recv()` ends just before the blank line, no such request ends the process;
* `BlankLineApartNeverAnswered`: if one does, no request is answered, regular or not;
* `WithoutHeadersNeverAnswered`: nor is one without headers, if its lines are not cut and `buf` holds it;
* `ParserParsesAsSent`: `ParsedAsSent`, with or without that cut.

*The argument.* `Progress` says how far the request is: nothing read, the lines before the j-th (`ReadTo`), in a call
that reads the lines from j to l and has come to i (`Reads`), headers complete, content begun; and in each case that what the builder or
the call still has is just the rest of the stream received so far (`Part`). The first half of the module is about texts:
what stands at each position of the stream (`StreamLine`, `StreamBlank`), that a CR or LF is part of a line end and that two
line ends meet in the blank line only (`EndsAt`, `NoPair`), hence that `strstr` finds the blank line where it is and
not before (`BlankFound`, `BlankNone`); that a line read from its first byte gives its name and value (`LineThere`, `LineRead`), and
the loop ends at the end of the text and nowhere else (`TextStops`, `EndsThere`). `Gathered` says of the map that it holds the fields
read so far, each value the join of those of its name in their order (`Joined`), with a place for each by its rank, which
`GathersNext` carries over one line. With no segment that ends inside a line, what is left over after a call is nothing or the content.

A regular request is on course in this way (`OnCourse`) or has missed its blank line (`Missed`). At a `recv()` nothing is left over
(`LoopInv`, proved of `ReceiveLoop` and carried over by the refinement), so the text of a call after the cut begins with the blank line or later:
it holds no two line ends in a row, neither `strstr` finds one, and `areHeadersSet` stays false (`HeadInv`, `Unfound`). This
needs only that the content holds no line ends, as in `Requests`, and holds of every cut. A request without headers comes to the same
point by its first call, which uses up the newline of the request line (`BareInv`).

`ConfigProofs`, for command lines of any length: `ConfigInvariant`, `ConfigTypeCorrect`, `ConfigCorrect`.
*The argument.* The scan overwrites `argv` as it goes: `ConfigInv` says that it has taken out just the options it has
passed, so that `Expected` (NULL when there is no file, as the code has it), which is read off the command line as typed, splits at the scan's position. The
proof needs the arms of `ScanOption` not to overlap, as those of the code's `else if` do not.

`HeaderMapProofs` and `HeaderMapRefinement`, for any fields, any hash function, any sizes each at least twice the
one before and even, any load factors from 50 to 95, any factor of growth and any `ShrinkPercent` below 50
(`HeaderMapAssumption`; `clamp_load_factor` and the doubling of sizes justify it):

* `MapInvariant`: `Spec => []MapInv`; and from it `MapTypeCorrect`, `MapInRobinHoodOrder`,
  `MapOneBucketEach`, `MapNeverFull`;
* `MapHistoryKept`: `Spec => []HistoryInv`; and from both
* `MapImplementsFieldMap`: `HeaderMap` implements `FieldMap`.

*The argument.* `RobinHood` compares neighbours and is not enough for a search, which would need an induction
along the table. `Reached` says the order of all buckets between a home and an item: each holds an item at
least as far from its own home. It says the same of the item in hand of a set (`Fits`), so that putting it down
(`PutOrdered`), going on with it (`GoesOn`) or taking the displaced one in hand keeps it; during a shift
the bucket that is about to be overwritten is left out (`HoleOpens`, `HoleMoves`, `HoleCloses`). A search that ends at
an empty bucket has then missed nothing (`SearchEnds`), and a set that displaces an item has passed
every bucket its own name could be in (`PlaceIsNew`), which is why no name gets two buckets. `CountInv` keeps
the books over both tables of a resize, and leaves room for the field of a set that grew the table; with a load factor
below 100 that is an empty bucket in every table (`RoomLeft`), on which `GoesOn` relies for not coming round.
`HistoryInv` compares the items of both tables together with those from before the call: they are the same, or
lack the one a delete has found, or, once a set has displaced an item, become with the item in hand the old ones and a new one.
`Contents` of items of which no two have the same name is a function (`ContentsOf`), and `SetShown`, `DeleteShown`,
`SameShown` turn a statement about items into a step of `FieldMap`. All ten actions of `Step` and the six calls are gone through.

Each inductive invariant was checked by TLC on the instance of its run before it was proved.

*Only model-checked.* Liveness (`InnerLoopEnds`, `SigintStops`, `EveryClientGetsThrough`, `CallsReturn`,
`AnsweredInTheEnd`), and everything about ENABLED, is outside what the proof system
handles; what is proved of it are the safety facts it rests on (`LoopShrinks`, `ParserInnerLoopShrinks`, `MapNeverFull`,
`RegularRequestsSurvive`). Every invariant and action property of a passing run is the statement of a theorem.

## 5. Not modelled

* The hash functions (SipHash, Murmur, xxHash): arithmetic on bytes, for which `HeaderMap` takes any function.
  The 16 bits of a distance and the 48 of a hash, which no map of header fields exhausts; `hashmap_probe` and
  the allocator and growth settings, which nothing calls; the tests at the end of `hashmap.c`.
* Content with line ends: the parser searches a whole chunk for a blank line, CRLF before LF, so that one in the content
  may be taken for that of a header section that ends otherwise, or that was missed.
* Failed allocations of fixed size (each exits), truncation of long names and paths.
* The text of status line, header lines, listings and log output; the status codes of `headers.c`.
* LibCYAML's schema, zlib, the C library: external, by what their callers rely on.
* `socket_testing`, the example site, the templates and the build.

## 6. Plan

1. Done: `ReceiveLoop` and its proofs, `RequestParsing`, `WebServer`, `SequentialService`, `Response`,
   `Config`, `HeaderMap`, `FieldMap`.
2. Done: `WebServerProofs`, `ResponseProofs`, `ConfigProofs`, `HeaderMapProofs`, `HeaderMapRefinement`.
3. Done: `RequestParsing` with one step per line that `readHeaders` reads, `RequestParsingProofs`, `RequestParsedAsSent`.
4. Open: `RequestParsing` reads and writes its header map as a function; that `HeaderMap` may stand for it is
   proved separately, through `FieldMap`, and not composed.
