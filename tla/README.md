# HSServer: specification, model checking and proofs

This directory holds TLA+ specifications of HSServer (a request server for TCP, UDP
and HTTP written in Go, with a PHP client), the TLC configurations that check them on
small instances, and proofs, checked by TLAPS, that what holds there holds for every
value of the constants. Paths below are relative to `src/handler_socket2/` unless
they begin with `src/`. `PROJECT.json` lists the runs, the lines of code behind every
definition, the hazards, the mutants and the theorems.

    tlc -workers 4 -config MCByteSlabs.cfg MCByteSlabs.tla
    tlc -workers 4 -config MCUpkeep.cfg MCUpkeep.tla
    tlapm ByteSlabsProofs.tla

## 1. Inventory

### Parts, their state and operations

| Part | State | Operations | What makes it correct |
|---|---|---|---|
| **Slab allocator** `byteslabs2/` (`byteslabs/`, which the server links, is the same code with 8 chunks of 100 slabs of 40000 bytes) | per chunk a mutex, bitmap, counter, statistics; per request an allocator with its slabs and an additional allocator on another chunk | `MakeAllocator`, `Allocate`, `Release`, the status pages | buffers never overlap; every slab comes back; the counter read without the lock is right; calls return |
| **Multipart compressor** `compress/engine.go`, `flate.go`, `snappy.go` | two channels of pieces shared by all connections, a channel of outcomes per call, worker goroutines, an output buffer | `Compress`, `_fastpath`, the worker loop | no worker writes into the buffer of a call that has returned; the pieces of a call are complete and the client decodes them; calls return |
| **TCP service** `handler_socket.go`, `hs_engine.go` | per connection: read buffer, `sharedmem`, partial message, parameters, options | `serveSocket`, `getStreamBuffer`, `sendBack` | each message answered at most once, in order, from its own bytes |
| **UDP service** `hs_udp.go`, `hs_udp_v1.go` | message under reassembly per sender; register of requests by sender; three cleaner buckets | `startServiceUDP`, `processRequestData`, `runRequestV1/V2`, `udpStat*`, `init_cleaners` | a sender in step is served message by message; an entry is shown while a request runs, and goes away |
| **HTTP service** `hs_http.go`, `hs_engine.go` | list of requests; handlers and plugins | `startServiceHTTP`, `RegisterHandler`, `handleRequest`, `GetStatusHTTP` | the list shows what runs and holds memory; both go |
| **Connection register, counters, status page** `stats/stats.go`, `stats/status.go` | register of connections, counters per action, totals, one mutex | `MakeConnection`, `State*`, `Close`, `GetStatus` | open connections are shown, closed ones go, the numbers agree |
| **Five second history** `stats/stats_history.go`, clock in `hscommon/hscommon.go` | ring of six slots, copy of the clock | `uh_add_unsafe`, `uh_get` | the totals are those of the last five seconds |
| **Connection extras** `conn_ex.go`, `compression_ex.go` | codec and threshold of a connection | `make_conn_ex`, `handle_conn_ex` | an answer is coded as its label says |
| **Parameters** `hs_params.go` | parsed message, allocator of the request, answer | `ReadHSParams`, `FastReturn*`, `Allocate`, `Cleanup` | what clients write is what handlers read; nothing is made up from a message that is cut |
| **Simple compression, statistics** `compress/simple.go`, `status.go` | stack of reusable writers, predictions; marks and slices of the workers | `CompressSimple`, `doStats`, `report*`, the ticker | a writer is used by one caller at a time and none is lost; sums are right |
| **Configuration** `config/` | parsed file, size and time, local interfaces | load, reload, conditional keys | a change of the file is picked up; conditional values are those of the machine |
| **PHP client** `src/php-client/HSS/` | persistent connections, what a script knows of them | `sendData`, `_connect`, `_reconnect`, `sendMulti` | a caller gets the answer to its own request or none |
| Snappy codec (vendored), echo and profiler handlers, example server, limits | none of the framework | - | not modelled |

### How they interact

A listener accepts a connection and starts `serveSocket`, which registers it
(`MakeConnection`), reads messages from the stream, and runs the handler for each with
an `HSParams`. The parameters own an allocator of the slab allocator; the handler's
response lies in slab memory, and so does the buffer the response is compressed into
(`sendBack` calls `Compress`). After the response is sent, `StateKeepalive` counts it
(totals, per action, ring of seconds) and `Cleanup` releases the allocator. UDP and
HTTP requests use parameters and the allocator in the same way. The status page reads
every part's counters, mostly under each part's lock. The client reads the response,
decodes the multipart format and matches it by GUID.

### What is hard

* Slabs are taken and freed by many goroutines, over two locks per request, with a
  counter read without the lock and a search over other chunks while a lock is held.
* Compressed pieces go through a channel shared by all connections while the callers'
  memory is recycled as soon as they return.
* UDP requests of one sender share an entry that later requests replace, and a ticker
  with callbacks deletes entries that may be in use.
* Closing after an error starts two goroutines that dereference and delete the same
  entry 5 and 10 seconds later.
* Two clocks index the same ring.
* The status page uses a length it read before it took the lock.
* Messages are cut into reads anywhere, while header and body of an answer are built
  in memory that still holds the next message.
* UDP messages are put together from datagrams that are lost, repeated or overtaken.
* A PHP script inherits a connection with answers nobody read, or half read; it resends
  after a failed write and reconnects after a mismatch.
* The configuration is read and looked at in two steps while an editor writes it, and
  merged in the random order of a Go map.

The hazards, each at its line and with the properties that cover it, are listed in
`PROJECT.json`.

## 2. The modules

Each module covers one part. An action is a critical section, or a stretch between
two points where another goroutine can see a difference; a lock that is held over
several actions is a variable, one that is not is left out. Where a definition of the
form "Mutant: ..." appears, it is a variant of the next one with a plausible bug; it
is used to show that a property would catch the bug, and no behaviour includes it.

### BufferPool, ByteSlabs, MCByteSlabs, ByteSlabsProofs: the slab allocator

`BufferPool` is the promise: owners open, are granted buffers disjoint from all that
are in use, and give all of theirs back at once. `ByteSlabs` is the code.

| Code | Action |
|---|---|
| `MakeAllocator` | `MakeAllocator` |
| `Allocate`, to the lock | `Allocate`: counted in `ttT_total` |
| `Allocate`, own chunk | `AllocateHome` (`allocate_slab`: `AllocTail`, `AllocSmall`, `AllocFull`, `_alloc`: `TakeRun`) |
| ... own chunk exhausted, additional allocator there | `AllocateReroute`, then `AllocateRouted` or `RoutedToHeap` |
| ... no additional allocator: `_take_additional` | `AllocateSearch`, `ScanChunk` per chunk, `TakeAdditional` or `GiveUp`, with the own chunk locked |
| `Release` | `Release`, `ReleaseHome`, `ReleaseAddl` |

A buffer is its number, owner, chunk, start and size; its bytes are left out. `live`
is what the handlers may still use: it grows when `allocate_slab` returns and shrinks
when `Release` is called, so that slabs freed by the first half of `Release` may be
handed out before the second half. The list of slabs of an allocator is a set with a
function for the tails; among tails that fit equally well the code takes the one held
longest and the model any. `AllocSmall` takes the free slab with the highest position
and `AllocFull` the lowest run, as the code does. Calls of at most 96 bytes use the
heap and change nothing. The first counter read in `_take_additional` of each chunk is
a step of its own since no lock protects it. `used_slab_count` is an unbounded integer:
it never leaves 0..100 (`CountMatches` is proved), so its width does not matter.

### MultipartCompress, MultipartProofs: the calls, the pieces and the workers

Callers (connections) and workers share the channels `compressor` and
`compressor_fast`; `ch_out` belongs to a call. `Compress` starts a call with a number
of blocks, `SendPiece` sends one, `ReceiveInLoop` receives when the window (12 in the
code) is full, `Drain` receives the rest, `CompressReturn` ends. `CompressShort`,
`FastSend`, `FastReturn` are `_fastpath`. A worker does `Take`, `Write` (compress and
copy; the outcome is chosen) and `Report`. Sends and receives block as channels do.

### PieceMerge: the merge in place and the client's decoding

`Init` is a buffer after `Drain`: every vector of piece sizes that the workers would
report as success and that passes the 80 % check. `MergePiece` is one `copy` of the
loop, `WriteTable` the table. `Decoded` is what the PHP client reads. Lengths are in
units of a table entry (4 bytes).

### UdpStats, UdpStatsProofs: the register of UDP requests

Entries are `NoEntry` or a status with the count of running requests. `ReceiveV2` and
`ReceiveV1` are the listener, `StatRequest`, `BadMessage`, `StatFinish`, `Insert` the
request goroutine (`Insert` is apart because the slot position is read, unlocked and
used after; the register's mutex is held meanwhile, so that reading the slot can be
one step with the change of the entry). `Tick(p)` is a tick of the
cleaner's clock in slot `p`; it may skip slots if the ticker was held up. `Check`,
`ReadSlot` and `HandBack` are the callback, which holds no lock between them.

### ConnStats, ConnStatsProofs: the register of connections, the counters and the page

One action per `State*` call, for a connection that goes through `serveSocket`'s
loop. `CloseError` then `CloseOk` is what happens after an error (handler_socket.go
calls `Close` again after the loop). `Sleep5` is the passing of five seconds for all
goroutines of `Close`; `Mark` and `Delete` are what they do after the first and the
second. `PageMake` and `PageRows` are the two reads of the register by `GetStatus`.
Compression may make a response longer than it was (`MaxSize` bounds what is sent, too).
If the page panics, `stats_mutex` stays locked.

### UptimeHistory: the ring of seconds

`Add` is `uh_add_unsafe`, `Get` is `uh_get`; requests are counted under the real
clock, errors and the page under its copy (`hscommon.TSNow`), which `Second` and
`RefreshTS` let lag by a second. Three counters (requests, skipped, errors) stand for
all eleven. `counted` records what happened, `page` the last answer beside the true
one, `lagged` that the page was once read while the copy was late.

### Session, TcpSession, ConnEx, MCTcpSession, TcpSessionProofs: a TCP connection

`Session` is the promise: messages are served at most once and in order, each answer
belongs to the message served then, a silent message gets none, the server may give up
at any time. The promise ends when a message is answered while another is on its way
behind it: that one may be overwritten by the answer, and the server, `astray`, may then
send anything (`Stray`) and miss messages (`Miss`). The client reads one answer or several at a time.
`TcpSession` is the code, refined to it by `pending`, `answers`, `pc` and `Astray`.

| Code | Action |
|---|---|
| client, network | `Send`, `Receive`, `Finish` (end between messages, end inside one, error) |
| `serveSocket`, outer loop: `Read`, `getStreamBuffer` | `ReadHead`, `NextHead` when a length is already in memory; `Frame` chooses the memory |
| inner loop | `ReadBody`, `ReadEnds` |
| message cut off, inflated, `ReadHSParams` | `TakeMessage` |
| handler, `handle_conn_ex`, `sendBack`, `Cleanup` | `Answer` (with `SendBack`) |
| both loops over bytes of an answer | `StrayRead`, `StrayServe`, `StrayLeaves` |

A cell is some bytes of a message; a slice is a memory, an offset and the cells it
shows. Writing into `sharedmem` changes what other slices show that lie there:
`Overwritten` turns them to junk, and so does it with a response that is a parameter.
Junk is whatever the answer held: where a message should begin, the server tests one byte and takes
the next four for a length. So `Frame` either closes the connection (another type) or goes
astray: the server waits for as much as it likes, takes slabs, serves something nobody sent under any
GUID, leaves or panics. What such an answer holds, and options set by it, are not followed.
A body that gzip wrote may have any length, since nothing bounds it by the response's.
Kinds of messages stand for their content: answered, `__skipsendback`, `conn-ex`,
compressed, unreadable, of another type. `ConnEx` has the options of a connection
(`make_conn_ex`, `handle_conn_ex`), the encodings `sendBack` may choose and the label
it sends with them.

### HSMessage: the parameters of a message

`Encode` is what the clients write, byte by byte with a small base; `ReadGuid`,
`ReadParam`, `ReadEnd` are `ReadHSParams`, one round of its loop a step. `Init` takes
every message of up to `MaxParams` parameters and every length it may be cut to.

### UdpService: datagrams and messages

`SendDatagram` is `sendMulti` and `sendMultiOldProto` (whole messages of one version in
a datagram) or another client that cuts; `Lose`, `Duplicate` and `ReceiveDatagram` out of turn
are the network. `ReceiveDatagram` appends to `source_buffer` and tells the version by the
first byte; `ProcessMessage` is a round of the loop of that version, with the outcomes
of `processRequestData` and `processRequestDataV2`: wait, flush, move forward, panic.
For bytes out of step these are sets: what the code finds there depends on bytes the
cells do not tell apart. `RunRequest` is a request's goroutine, which in version 1 may be
forwarded and run again. The register of these requests is `UdpStats`.

### RpcClient, RpcClientProofs: the PHP client over persistent connections

One worker process runs scripts one after the other (`Start`, `End`, `Die`); the
connection survives them, `$conn_props` does not. `Open` is `_connect` with
`initializeClient`, twice; its outcome "lingering" is a second exchange that failed unnoticed,
with the conn-ex message still to be answered, and `HalfRead` one that failed in the middle of the
answer (a header cut by the network gives `fread` a negative length).
`Start` reuses the connection of the process; one that was never used (`ftell` is 0) it
initialises again. `Call`, `Write`, `WriteFails`, `ReadAnswer`, `ReadFails`, `ReadTail` are
`sendData`. An answer that was read in part is left as `Cuts` says: `sendBack` writes the GUID,
then `Content-Length`, then the body, so what is left may have a length and no GUID ("length"),
and is then returned as an answer, or may be only text of the body ("rest"). A conn-ex message, of some 60
bytes, is written whole or not at all, and no script ends between two parts of a message. The
server's side of each connection is `Session` (`Serve`, `StrayAnswer`, `Miss`, `Break`), which
`ConnectionsAreSessions` checks by refinement: what holds here needs no more of the
server than what `tcp_session` shows `TcpSession` to give.

### HttpService: requests over HTTP and the choice of a handler

| Code | Action |
|---|---|
| `RegisterHandler`, `StartServer` | `Register`, `StartServer` |
| entry in `httpRequestStatus` | `Begin` |
| loop over the plugins; the goroutine of a request one of them answered | `Plugins`, `FinishPlugin` |
| `handleRequest`, the handler | `HandleRequest`, `HandlerReturns` |
| a panic, of a handler or of the server's own status page, recovered by net/http | `Panic` |
| status "W", `w.Write`, status "F" | `BeginWrite`, `EndWrite` |
| `Cleanup`; the goroutine that deletes the entry | `Cleanup`, `Delete` |

### SimplePool, CompressStats: writers and workers

`SimplePool` is `CompressSimple`: `Pop` and `Push` under the lock, `ReadCounter` and
`WriteCounter` without it (a counter incremented by two callers at once may lose one).
`CompressStats` is `compress/status.go` as the workers use it: `Take` sets the mark of a worker,
`DoStats` takes it back, `ReportFailure` does not; `Tick` opens a slice, up to a slice
late. `counted` records what was reported, per slice of the clock. It begins with the
first tick.

### ConfigReload, ConfigMerge: the configuration

`ConfigReload`: `Poll`, `ReadFile` and `Store` are the goroutine (it decides, reads the
file, looks at it again); `Replace`, `WriteBegin`/`WriteEnd`, `Remove`/`WriteEnd` are
editors, which may come between any two of these steps. Times are whole seconds as in
`ModTime().Unix()`. `ConfigMerge`: `Visit(k)` is `_do_conditional` for a key, in any
order of the keys; `ForceKeys` is the loop over the forced ones. Values are sets of names
after trimming; a key with an empty value is taken as absent.

### Framing, Upkeep: parts checked and proved side by side

These modules choose at the start which part a behaviour is about, and leave the
variables of the others alone: `PieceMerge`, `HSMessage`, `UdpService` in the first;
`UptimeHistory`, `SimplePool`, `CompressStats`, `ConfigReload`, `ConfigMerge`,
`HttpService` in the second. The parts share nothing in the code either. Each of their
properties is one of a part with that part's types, and they state what the parts
assume of their constants (`PartsAssumption`). All constants of the parts are theirs: `MCFraming`
and `MCUpkeep` choose messages, senders, files and handlers for TLC, while `FramingProofs` and
`UpkeepProofs` are about any.

## 3. Runs

A property that a run checks is often the conjunction of several that the module names
and explains one by one; the table gives the parts in brackets.

| Run | Instance | What it shows |
|---|---|---|
| `byteslabs` | 2 requests, 2 chunks x 3 slabs of 4 bytes, sizes 2, 3, 6, 3 calls | types; `MemorySafe` (`NoOverlap`, `BuffersInSlabs`), `SlabsExact` (`SlabsAccounted`, `CountMatches`, `AllReturned`: nothing leaks), `TotalsAgree` (the two totals of the status page), `ImplementsPool` (refinement of `BufferPool`), `CallsReturn` |
| `multipart` | 2 callers, 2 + 1 workers, up to 3 pieces, window 2, queue 4, answers 1 | `BuffersPrivate` (`NoStrayPiece`, `OneWriter`), `PiecesExact` (`InProgressExact`, `SizesComplete`); `CompressReturns` when the queue has room for everything in progress |
| `multipart_full` | 2 callers, 1 worker, window 3, queue 1, answers 1 | **violated**: `CompressReturns`; callers wait for room in the queue, the worker for room in an answer channel, for ever |
| `framing` | `PieceMerge`: block of 16 units, 7 lengths up to 49, 11 piece sizes; `HSMessage`: base 2, up to 2 parameters, every cut; `UdpService`: 2 senders, 2 messages of either version, 1 fault | `PiecesMerged` (`InBuffer`, `IntactUnlessCovered`: the merge is right exactly when no piece is moved over a later one that is still in its block); `ParametersRead` (`RoundTrip`, `NothingInvented`); `StreamsServed` (`StreamInStep`, `DownOnlyOutOfStep`), `SentIsServed` |
| `piece_merge_intact` | `PieceMerge` alone | **violated**: a first piece nearly as long as its block is moved over the head of the second |
| `udp_stats` | 2 senders, 3 requests at a time, 3 messages, 2 callbacks, 3 slots | `EntriesExact` (`PendingCovered`, `NoOrphan`), `EntriesGo` |
| `conn_stats` | 2 connections, 1 action, 2 requests | `NumbersAgree` (`RequestsAgree`, `AdjustedNonNegative`), `RegisterExact` (`MarkFindsEntry`, `OpenShown`), `ClosedGo` |
| `conn_stats_page` | the same, 1 request | **violated**: a connection that opens between the two reads makes the page index out of range |
| `tcp_session` | 2 messages of 10 shapes (length 3, 5, 8), reads of up to 4 cells, 7 cells of `sharedmem`, all configurations of compressors, both distances | `StreamIntact` (a client that waits is never overwritten; `InStep` of any client until it is; `EndServesAll` of messages then), `SlabsHeldExactly`, `AnswersFaithful`, `ImplementsSession` (refinement of `Session`), `EveryMessageSettled` |
| `tcp_session_pipelined` | clients that pipeline | **violated**: `PipelinedIntact`; an answer is written over the beginning of the next message |
| `rpc_client` | 3 calls, 2 connections, 1 retry | `SafeMeansClean`, `OwnOnceOrNothing` (`OwnOrNothing`, `AtMostOnce`), `ConnectionsAreSessions`, `CallReturns` |
| `upkeep` | ring of 4, 6 seconds, 3 events; 3 callers, 1 writer at the start, 4 compressions; 2 workers, ring of 4, 6 slices, 3 pieces; 3 texts of two sizes, 3 writes, 3 seconds; 3 interfaces, 128 files; 2 handlers, 3 actions, 2 requests | `HistoryExact` (`LastSecondsExact`, `SlotComplete`); `WritersExact` (`OneUser`, `WritersMatchPeak`, `PredictionsBounded`); `StatsExact` (`RunningShown`, `LastSlicesExact`); `StaleOnlyByRace`, `PickedUp`; `ConfigMerged` (`ConditionalBetween`, `LocalDetermined`); `RequestsListed` (`DispatchedToLatest`, `ListExact`), `EntryGoes` |

The four violated runs are disagreements between the code and what it, its pages or
the README say; `PROJECT.json` describes each under "findings". Others are stated by
properties that hold, because these say exactly when the code goes wrong:

* `SlabsHeldExactly`: a connection that is left inside a message of 32 KB or more, or
  with unreadable parameters, never gives the slabs of that message back.
* `AnswersFaithful`: a label `mp-snappy` always lies (multipart compression runs on
  flate), and an answer that is a parameter at the beginning of `sharedmem` is overwritten
  by its own header.
* `LastSecondsExact`: a page read while the copied clock is a second behind zeroes the
  slot of the second that has begun, and its requests are lost from the next pages.
* `OwnOrNothing` and `SafeMeansClean`: where an answer was left half read (a script died over
  it, or the second conn-ex exchange was given up in it), a later call takes its tail for its own
  answer: the body of another call if the tail begins between GUID and length, else "" or
  text of that body. Its own answer is then still to come, although the connection is marked as
  safe because "we got correct response" (`HSClient.php`, 502). The same may come of a server
  astray. `spoilt` marks these connections, and nothing else breaks the two properties.
* `EveryMessageSettled`: a client that pipelines may leave the server waiting, for ever, for
  bytes of a message that it read in its own answer.
* `StaleOnlyByRace`: a file that changes between being read and being looked at, or
  to the same size within the second, is never loaded; half a file stays in force as an empty
  configuration. `PickedUp`: one that is missing at the second look ends the process.
* `RunningShown`: a worker is shown as running after its last piece failed.
* `ListExact`: a request that panicked stays on the HTTP page as running, with its slabs.
* `ConditionalBetween`: which values depend on `LOCAL_IP_<interface>` differs from start
  to start; a parameter that the file has for interfaces only stays empty.
* `DownOnlyOutOfStep`: a version 1 sender that cuts messages may, after a lost datagram,
  leave an empty header, which ends the process.

### Bounds, and why they are enough

* **Slabs**: 3 slabs of 4 bytes give a tail of 1 or 2 bytes, a tail exactly filled (2 + 2),
  a run of two slabs with a tail, a chunk too full for a run but not for a small
  call, and a fragmented chunk. 3 calls (`MaxCalls`) on 2 chunks reach the search, routing,
  a routed call that fails, and the heap. Two requests per chunk suffice for every pair of holders; the
  properties relate at most two buffers or two holders of a slab, and the proofs
  remove the bounds for all but `CallsReturn`.
* **Compressor**: 3 pieces with a window of 2 give a full window, a receive in the loop and
  a rest to drain; answers of capacity 1 make workers wait; two workers and two
  callers make pieces of different calls overtake each other. In the code the
  capacities are 500, 50 and 8 and the window is 12; the shape kept is
  answers < window, and queue above (`multipart`) or below (`multipart_full`) what all
  callers together may have in progress.
* **Merge**: up to four blocks of 16 units, with sizes at every boundary of the checks
  (a third of the block, the whole block, the whole block less the table).
* **Messages**: base 2 makes lengths carry over from byte to byte; keys and values of 0 to 3
  bytes, repeated and empty ones, every cut.
* **UDP**: two messages of one sender, of one version or both, cut into any datagrams, beside
  a second sender; one datagram lost, repeated or overtaken. In the register, three
  messages are two overlapping requests of one sender and a replaced entry, with the
  other sender in the same buckets; two callbacks overlap; three slots are the code's.
* **Connections**: two connections make the counters of one action interleave, and one
  closes while the other opens.
* **Sessions**: a message of length 3 comes in one or more reads and leaves room for the
  head of the next, one of 5 fits `sharedmem` but not a read, one of 8 lies in slabs;
  answers of 2 and 3 cells with a header of 4 end before, in and behind `sharedmem`. Two messages
  are enough for one to be damaged by the answer to the other. A server astray sends on only
  while fewer than `MaxUnread` (1) answers are unread.
* **Client**: three calls are one whose answer is left, one that meets it and one after the
  reconnection; two connections are the one left and the one opened instead; one
  retry (3 in the code) is used up and given up on. A server astray adds an answer
  of its own only while fewer than `MaxStray` (1) are unread.
* **Rings**: 4 slots (6, and 7 slices, in the code) with 6 seconds or slices go round more than once.
* **Writers**: three callers with one writer at the start make, keep and reuse two more.
* **Configuration**: two files of one size and one of another; three writes are a half-written
  file and one after it. Three interfaces make a chain: `LOCAL_IP` adds one, whose key adds
  the next.
* **HTTP**: the list is per request and requests share nothing but their ids; two are enough
  for one to delete the other's entry.

Deadlock is checked except in the runs of modules in which everything really ends
(connections open once, seconds, messages, calls and requests run out, a merge is
over), and in `multipart_full`, where the temporal property is what fails.

### Fairness

* `ByteSlabs`: strong fairness of each step of a goroutine inside `Allocate` or
  `Release`. Go's mutex hands the lock to a waiter that has starved for a millisecond.
  Nobody is obliged to call.
* `MultipartCompress`: strong fairness of each caller (Go serves goroutines waiting
  on a channel in the order they came), weak fairness of each worker.
* `UdpStats`: weak fairness of goroutines and of the tick in every slot. Handlers
  return; the clock passes through every slot.
* `ConnStats`: weak fairness of the goroutines of `Close`, of time, and of the second
  `Close` after an error. Nothing makes a client close: `ClosedGo` is about closed
  connections.

* `TcpSession`: weak fairness of the connection's goroutine. Nothing makes the client
  send, read or close.
* `UdpService`: weak fairness of receiving the datagram that arrived first, of the loop over
  messages and of requests. The network need not lose or repeat anything, nor stop to.
* `RpcClient`: weak fairness of a step of the call under way: `fwrite` and `fread` have
  timeouts. Neither the server nor the scripts are obliged to go on.
* `ConfigReload`: weak fairness of the polling goroutine, and of an editor that has begun
  to write.
* `HttpService`: weak fairness of each request outside plugins and handlers. These may
  take for ever.

Assumptions about time: `Sleep5` requires that work between sleeps takes less than
five seconds (the second `Close` follows the first before the first sleep ends, and a
goroutine that woke up marks or deletes before the next five seconds are over);
`Second` requires that the copy of the clock, renewed every 100 ms, is less than a
second behind. A count is put into the ring in the second it was stamped with: waiting for
`stats_mutex` across the end of a second is left out.

## 4. Proofs

The proofs are in modules of their own, which extend the modules they are about; each
theorem is about every value of the constants that the named assumption of its module
allows.

    for m in ByteSlabs Multipart UdpStats ConnStats RpcClient TcpSession Framing Upkeep; do
      tlapm ${m}Proofs.tla
    done

| Module | Theorem | Property |
|---|---|---|
| `ByteSlabsProofs` | `TypeCorrect` | `TypeOK` |
| | `SlabsAlwaysAccounted`, `CountAlwaysMatches`, `AlwaysAllReturned`, `SlabsAlwaysExact` | `SlabsAccounted`, `CountMatches`, `AllReturned`: the bitmap marks what is held, each slab once; the counter is its size; nothing leaks. `SlabsExact`, the three together |
| | `AlwaysInSlabs`, `NeverOverlap`, `AlwaysMemorySafe` | `BuffersInSlabs`, `NoOverlap`; `MemorySafe`, both |
| | `TotalsAlwaysAgree` | `TotalsAgree` of `MCByteSlabs` |
| | `NeverLosesAddl` | `AddlNeverLost`: no step drops an additional allocator with slabs (not in a run: the theorem says it for every instance) |
| | `RefinesPool` | `ImplementsPool` |
| `MultipartProofs` | `EngineTypeCorrect`, `BuffersAlwaysPrivate`, `PiecesAlwaysExact` | `TypeOK`, `BuffersPrivate`, `PiecesExact` |
| `TcpSessionProofs` | `SessionTypeCorrect`, `StreamAlwaysIntact`, `SlabsAlwaysHeldExactly`, `AnswersAlwaysFaithful` | `TypeOK`, `StreamIntact`, `SlabsHeldExactly`, `AnswersFaithful` |
| | `ConnectionImplementsSession` | `ImplementsSession` |
| `RpcClientProofs` | `ClientTypeCorrect`, `SafeIsAlwaysClean`, `AlwaysOwnOnceOrNothing` | `TypeOK`, `SafeMeansClean`, `OwnOnceOrNothing` |
| | `ConnectionsAlwaysSessions` | `ConnectionsAreSessions` |
| `FramingProofs` | `StreamsAlwaysServed` | `StreamsServed` of `Framing`, for `UdpService` |
| | `PiecesAlwaysMerged` | `PiecesMerged`, for `PieceMerge` |
| | `ParametersAlwaysRead` | `ParametersRead`, for `HSMessage` |
| `UdpStatsProofs` | `RegisterTypeCorrect`, `EntriesAlwaysExact` | `TypeOK`, `EntriesExact` |
| `ConnStatsProofs` | `StatsTypeCorrect`, `NumbersAlwaysAgree`, `RegisterAlwaysExact` | `TypeOK`, `NumbersAgree`, `RegisterExact` |
| `UpkeepProofs` | `HistoryAlwaysExact` | `HistoryExact` of `Upkeep`, for `UptimeHistory` |
| | `StatsAlwaysExact` | `StatsExact`, for `CompressStats` |
| | `WritersAlwaysExact` | `WritersExact`, for `SimplePool` |
| | `StaleOnlyEverByRace` | `StaleOnlyByRace`, for `ConfigReload` |
| | `ConfigAlwaysMerged` | `ConfigMerged`, for `ConfigMerge` |
| | `RequestsAlwaysListed` | `RequestsListed`, for `HttpService` |

### What is assumed of the constants

The assumptions are those the modules state, which TLC evaluates in the runs, and no
others. `SlabAssumption`, `EngineAssumption`, `RpcAssumption`, `HttpAssumption` and
`SimpleAssumption` ask for counts and sizes that are numbers, positive where the code has a
positive constant, and for null values (`NoOne`, `NoChunk`, `NoJob`, `NoEntry`) that are
none of the values they stand beside. `StatsAssumption` and the `UdpAssumption` of the
register say that there is an action and a sender, since an idle goroutine is given one;
that the workers of the compressor are finitely many, since the code starts a fixed number;
that there are two cleaner slots (three in the code); `SessionAssumption`, that a
message is at least its header and that `sharedmem` holds a header and a read, which is
how the code's sizes are (`UdpAssumption` of `UdpService`: that messages are of version 1 or
2); `ConfigAssumption`, that there is a time other than 0, at which the process
starts; `MergeAssumption`, that an input has at least a block, that no piece is empty, and that a
block has at least 14 units (15000 in the code), which is when the table surely fits beside
the 80 % that the pieces may take; `MessageAssumption`, that the lengths of a GUID and of keys
can be written in two bytes and those of values in four; `MergeKeysAssumption`, that a file gives its keys sets of names. The bounds
(`MaxCalls`, `MaxDatagrams`, ...) are any numbers.

### The argument for the slab allocator

None of the properties is inductive alone. `IInv` is the conjunction of

1. `Typing`: the types with `Bound`, where an allocator is bound at each place of the
   code. A search is made, and a new allocator bound, only where there is no additional
   allocator; a routed call and the second half of a release only where there is one.
2. `Unbound`: an allocator that is not bound, or whose request is done with it, holds
   nothing. Without it a rebinding could carry slabs into another chunk.
3. `Marked`, `Exclusive`, `CountMatches`: slab by slab, the bitmap marks what is held, no slab has two
   holders, and the counter is the cardinality. A run taken is free by the bitmap, so it is
   disjoint from all that is held and the counter grows by its length; freeing a set
   of slabs takes away exactly one holder's.
4. `Numbered`: calls under way and buffers in use carry different numbers, and buffers
   in use belong to requests that serve. Two buffers with one number would make
   `NoOverlap` vacuous for them.
5. `BuffersInSlabs`, `Contained`, `Apart`: buffers lie on slabs their allocator holds and before their
   free tails, within the chunk, and are disjoint. A tail allocation
   starts where `slab_free_space` says, after every buffer on that slab; a run lies on
   slabs nobody held, so no buffer touches them (`TailSafe`, `RunSafe`).

The arithmetic of slabs (a byte has one slab, the slabs of a call) is in the lemmas at the beginning
(`ByteHasSlab`, `SlabsOfCall`, `TailTouchesOne`, `RunTouches`). For `RefinesPool`, `Grants`, `Opens` and
`Closes` say which steps are grants, openings and closings of the pool; every other
step leaves `open` and `live` alone.

### The other inductive invariants

* **`MultipartProofs`**: `TypeOK /\ Counted /\ InLoop /\ Sent /\ Apart`. `Counted` says how
  many pieces of a call are on their way (queued, at a worker, or answered) at each place
  of the caller: none when it is idle, `in_progress` within the loop. `InLoop` is what the loop over the
  blocks keeps: the window and the number of the next piece. `Sent`: only pieces
  that were sent are on their way, and while none failed each one sent is recorded or on its way, so
  that nothing is missing when none is. `Apart`: no two places have the same piece of a
  call. Without these a call that returns could leave a piece behind whose buffer is
  recycled.
* **`UdpStatsProofs`**: `PendingBounded` (each message is taken off a count once, so
  that no count is further below zero than messages are done with), `Holding` (the
  lock is held by the request on its way to a bucket, whose entry is finished until it gets there),
  `IdleEmpty`, and the two parts of `EntriesExact`. The count of an entry is compared with the set
  of its requests, so that a replaced entry loses them all at once.
* **`ConnStatsProofs`**: `RequestsAgree` counts requests as pairs of an action and a number and
  compares cardinalities; `Adjusted` says that the bytes still owed for responses
  on their way, again as pairs, leave room in the counter they will be taken from; `ClosersInStep`, that the
  goroutines of the two closes of a connection sleep, mark and delete together. `Finite` says
  that these sets are finite.
* **`RpcClientProofs`**: `Linked` (the script's socket is the current connection), `Clean`
  (a clean connection has a socket), `Messaging` (a message waits unserved at one place, over
  all connections; an answer is to a message served once; a call not yet written is nowhere,
  and a connection not yet opened is as new), `Unused` (a connection never used has nothing on
  it, so that initialising it again finds nothing old), `OwnIsLast` (while a call reads, its
  message or its answer is the last on its connection, or that is spoilt), `TailsSpoilt` (half an answer,
  and a server astray, are on spoilt connections only), and both properties, `SafeMeansClean` and
  `OwnOnceOrNothing`.
* **`TcpSessionProofs`**: memory and wire are compared with the cells as they were sent, which
  are the cells of the pending messages one after the other. `Underway` says where
  the next message begins in `sharedmem` or in slabs, `Framed` that the pieces
  follow each other without a gap, `Waiting` that a client that waits has at most one
  message under way: an answer then has nothing to overwrite, and the server does not go
  astray. These parts are about a connection that has not gone astray; of one that has,
  the invariant keeps what types and numbers need. `Numbered`
  orders messages and answers; it is also what the refinement of `Session` needs.
  `InStep`, the part of `StreamIntact` about contents, is stated cell by cell, for the
  same reason.
* **`FramingProofs`**: `UdpInv`. Of a sender of whole datagrams, each datagram under way
  holds whole messages of one version, whatever the order (`WholeRight`); of one that cuts
  and is in step, what was heard and what is under way are its cells in order
  (`CutRight`); what was started is messages, and with what is gathered all
  that was heard (`ServedRight`), so that the number of messages started tells which
  cell comes next. For `PieceMerge`, `MergeInv`: a piece that was moved has each of its units
  where the table says, if the unit was spared until then (`Spared`), and never a unit of a later
  piece (`Moved`); a piece still to be moved is in its block except where one was moved over it
  (`Unmoved`); and the table (`Written`). `Moved` says both when a unit is right and
  when it is wrong, because the property is an equivalence. For `HSMessage`, `MessageInv`: for
  some n the first n parameters are read (`ReadUpTo`), and what is left to read is what was
  sent behind them, up to the cut (`Awaits`). A message with fewer parameters is the beginning of one
  with more (`CodePrefix`), so that each field is found where it was written
  (`ParamAt`), and lengths are read as they were written (`Read2`, `Read4`).
* **`UpkeepProofs`**: an invariant for each part, together in `PartsAlwaysRight`.
  `HistInv`: a slot of the ring is empty or is of a second that has its position, and has no
  more than was counted in it; unless the page was read late it has all, and each of the last
  seconds has its slot or nothing to show (`Reached`). `StatsInv`: the slot of each
  of the last slices has what was reported in it, and the totals are the number of all that
  was. `PoolInv`: writers in use and writers in the stack are disjoint and are the writers
  made, whose number is the peak of what was needed. `ReloadInv`: what the
  goroutine has read and not yet looked at is the file, or the file changed since.
  `MergeInv`: a plain key is changed once, when it is visited (`KeyRight`); the local
  interfaces are those from the start and then those `LOCAL_IP` adds for them (`LocalRight`); a
  parameter has what the interfaces from the start add, and nothing that no local interface
  adds (`ParamRight`); keys of one interface never change. `HttpInv`: where the goroutine of a request is, and what it left in the list.

### Sums

The models add up with the community modules' `MapThenSumSet`, which takes the members of
a set in the order of `CHOOSE`. The proofs say instead how many pairs there
are of a member and a number up to its value (`Pile`); a change of one
value adds or takes away that many pairs (`PileMore`), and two piles that
correspond have as many (`PileTurned`). `AddsExists` and `AddsIs` connect the two, by a least counterexample
in the number of members (`AllNumbers`). The same lemmas give `PieceMerge` its prefix sums, where the pieces
go and where the client looks for them. For the totals of the slab allocator, whose
summands may be negative, it is the difference of two piles (`Balance`): `Totals` says that every
call is counted once, as inside `Allocate` or in the statistics of a chunk.

The inductive invariants were also checked by TLC on the instances of the runs before
they were proved, where their quantifiers can be enumerated (not `Underway` of
`TcpSession`).

### What is only model-checked

* Every safety property that a passing run checks, and every refinement, is proved. What is
  left is liveness (`CallsReturn`, `CompressReturns`, `EntriesGo`, `ClosedGo`,
  `EveryMessageSettled`, `SentIsServed`, `CallReturns`, `PickedUp`, `EntryGoes`):
  fairness and ENABLED are outside what the provers handle.
* The violated runs, of course: `CompressReturns`, `PipelinedIntact` and the other two are
  false.

## 5. Not modelled

* Contents of buffers and messages beyond what framing needs, formatting and rendering
  of the status page, and sorting.
* The codecs: a piece compresses or does not.
* Lengths outside what a client sends: a TCP header with a length below 5 or above
  16 MB, a version 2 datagram with a size below 5, an empty datagram.
* Starting and rebinding listeners (`StartServer`, `FORCE_START`).
* Sizes above 96 bytes that come from the heap after a failed search are not recorded: Go's
  heap is taken to work.
* In the parameters, response headers and the conversions of the getters
  (`GetParamI`, `GetParamIA`, `GetParamA`).
* In the configuration, the getters and `subattr.go`, which only read, and the callbacks of
  `attachOnChange`, which no code registers.
* In the PHP client, several client objects in one script, a script that dies in the middle
  of a write, equal GUIDs, the choice whether to compress a request
  (`HSCommon::shouldCompress`, whose pattern `*` is compared as text and never matches),
  and JSON.
* The vendored snappy library, the example server, echo and profiler handlers and
  operating system limits.
* `config.go` and `config_loader.go` of `handler_socket2/` itself: older copies that
  nothing uses.

## 6. Plan

The parts above that have state are modelled, and all safety properties and refinements of
the passing runs are proved for every value of the constants. Liveness stays with TLC.
What could be added: response headers and the conversions of the getters, and lengths
that no client of the repository sends.
