# A verification project for pkg/sftp

TLA+ models of the SFTP client and servers of this repository, the TLC
configurations that check them, and proofs about them for the TLA+ proof system.
Every definition is translated from the Go source; `PROJECT.json` names, for each
one, the lines it stands for.

## 1. The system

| component | state | operations | interacts with |
|---|---|---|---|
| packet pipeline (`packet-manager.go`) | channels `pktChan`, `requests`, `responses`, `rwChan`, `cmdChan`, `fini`; `working`; the sorted slices `incoming` and `outgoing` | `newOrderedRequest`, `incomingPacket`, `readyPacket`, `close`, the dispatcher of `workerChan`, `controller`, `maybeSendPackets` | Serve loops push packets, workers take them and hand back responses, the controller writes to the connection |
| server loops (`server.go`, `request-server.go`) | the goroutines of `Serve` and of the workers | `Serve`, `serveLoop`, `sftpServerWorker`, `packetWorker` | pipeline, handlers, allocator |
| page allocator (`allocator.go`) | `available`, `used` | `GetPage`, `ReleasePages`, `Free` | `recvPacket`, read handlers, controller, end of `Serve`: four goroutines |
| server file handlers (`server.go`, `stat.go`, `server_*.go`) | `openFiles`, `handleCount` | one case per packet type, read-only check | the operating system |
| requests (`request.go`, `request-server.go`) | `openRequests`; per request the reader, writer, lister and `lsoffset` | `open`, `opendir`, `call`, `close`, `transferError` | the application's handlers |
| in-memory handlers (`request-example.go`) | the tree of `memFile`s | `Fileread`, `Filewrite`, `OpenFile`, `Filecmd`, `Filelist` | RequestServer |
| client connection (`conn.go`, `pool.go`) | `inflight`, `closed`, `nextid`, the pool of result channels | `dispatchRequest`, `sendPacket`, `recv`, `putChannel`, `getChannel`, `broadcastErr`, `Close`, `Wait` | every client operation, the server |
| client transfers (`client.go`) | `File`: `handle`, `offset`, `mu`; per call: work and result channels, `cancel`, buffers | `Read`, `ReadAt`, `WriteTo`, `Write`, `WriteAt`, `ReadFrom`, `Seek`, `Close`, concurrent and sequential | client connection, `bufPool` |
| client file system operations (`client.go`, `match.go`) | none of their own | `Open`, `Stat`, `ReadDir`, `MkdirAll`, `RemoveAll`, `Glob`, ... | client connection |
| packets and attributes (`packet.go`, `packet-typing.go`, `sftp.go`, `attrs*.go`, `stat.go`, `errno_*.go`, `request-attrs.go`) | none | marshal, unmarshal, `sendPacket`, `recvPacket`, `makePacket`, conversions of modes, errors, open flags and file information | everything |
| `internal/encoding/ssh/filexfer` | none | a second encoding of the packets, not used by the rest yet | |

What makes each of them correct, and where it is hard:

* **Pipeline.** Nine workers finish in any order; replies must leave in the order of
  arrival. Closing a handle must wait for the reads and writes before it. Five bounded
  channels and a WaitGroup form a cycle between goroutines that must never block for
  good, also while the connection ends.
* **Allocator.** A page is written by one goroutine, read by a second, sent by a third
  and reused by a fourth. Nothing may reuse it before the reply has been sent, and every
  page must come back.
* **Client connection.** Three parties can send on a result channel of capacity one:
  recv, the caller whose write failed and broadcastErr. Exactly one may, or a goroutine
  blocks for ever, with the lock held in one case. Channels are pooled: a late reply to an
  abandoned call must not reach a later call.
* **Transfers.** Chunks are read and written out of order; the result must be the bytes
  before the earliest failure, and all goroutines must end when one fails. Goroutines share
  the offset of a File and may close it under each other.
* **Requests, handles and files.** Every object a handler opened, and every file the server
  opened, is closed once, by close, by a failed open or at the end of `Serve`, and nobody uses
  it closed although the locks are released before the use. A handle names what its open
  opened. Operations of several system calls are not torn apart by other packets.
* **Packets and attributes.** Four encoders and decoders of the same structures in two
  packages, and tables of conversions at both ends, have to agree, on truncated and altered
  input too.

`PROJECT.json` lists the hazards one by one with their lines and the properties aimed at
each.

## 2. Modules

| module | models |
|---|---|
| `OrderedReplies` | abstract: what the pipeline promises, with no goroutine and no channel |
| `PacketManager` | the pipeline and the loops of Server and RequestServer |
| `Allocator`, `PagedServer` | the allocator, called by anybody in any order; `PacketManager` composed with it: WithAllocator, WithRSAllocator |
| `RequestHandles` | the open requests of RequestServer, on top of `OrderedReplies` |
| `ServerFiles` | the open files of Server and the system calls of its handlers, on top of `OrderedReplies` |
| `ClientConn` | the client's side of a connection |
| `ConcurrentTransfer`, `ConcurrentWriteTo` | the client's transfers that spread chunks over goroutines; the second adds `WriteTo` |
| `ClientFile` | a File used by several goroutines, with the operations that take one request after the other |
| `Wire`, `Packets` | the encoding of the package: numbers, strings, attributes, frames; every packet |
| `Filexfer` | the encoding of `internal/encoding/ssh/filexfer` |
| `Attributes` | modes, file information, errors and open flags to numbers and back |
| `Codecs` | a sender, a connection and a receiver that use them |
| `*Proofs` | theorems, see section 5 |
| `MC*` | instances for TLC |

Operators commented "Mutant" are not part of a model. Each is a plausible bug in the
definition that follows it; with it in place of that definition the run of some property
fails, which shows that the property depends on the code it is about.

### PacketManager

A packet is the number of its arrival; its order id is that number modulo `OrderWrap`
(`packetCount` is a uint32). Of its content only the routing class matters: read or
write (`rw`), `close`, or any other command (`cmd`). One variable per channel and one
program counter per goroutine:

| goroutine | actions |
|---|---|
| `Serve` | `RecvPacket`, `PushPacket`, `StopReading`, `ServeReturns` |
| dispatcher started by `workerChan` | `TakePacket`, `AwaitWorking`, `IncomingPacket`, `HandToRWChan`, `HandToCmdWorker`, `CloseWorkerChans`, `CloseFini` |
| workers | `TakeRW`, `ReadyPacket`, `WorkingDone`, `WorkerExit` |
| controller | `ControllerTakesRequest`, `ControllerTakesResponse`, `ControllerStops`, then `SendReply` as often as the heads match, then `NothingToSend` |

Buffered channels have room for `SftpServerWorkerCount` items; `cmdChan` is unbuffered,
so sending on it and receiving is one action. The sorted slices are sets: the code looks
only at the head after a sort, and `Heads` is what can be there. `incomingPacket` adds to
the counter before its send can block; the two are one action, which is enabled when the
send can complete: only the dispatcher waits on the counter, and workers only lower it.
The handlers are abstracted to the time between taking a packet and its response. Packets
whose type `makePacket` does not know are left out: it builds no packet for them and the
connection is given up.

`ServeReturns` is enabled when the workers have ended; dispatcher and controller may
still be running, as in the code.

### Allocator and PagedServer

A page is the number of its making. `PagedServer` extends the pipeline: `recvPacket` takes
a page under the id of the packet that will come (`AwaitPacket`), the packet's content is
in it (`RecvIntoPage`), the handler of a read takes one more (`GetDataSlice`), and the
controller releases by order id after sendPacket in a step of its own (`ReleaseSent`).
`pagesOf` is history: where each packet's content and data really are, which the code does
not record; the properties compare it with the allocator's map.

### ClientConn

Callers, the recv goroutine and one goroutine that calls `Close`. A call takes an id and a
channel (`StartCall`: from the pool, or a channel nobody refers to, which is what a new
one is), registers it (`PutChannel`), writes (`WriteRequest`, or `WriteFails` and then
`UndoPut` and `DeliverWriteError`), and waits (`ReceiveResult`) or gives up (`AbandonCall`:
its context is done, or a transfer is cancelled). recv reads a reply, looks up the channel
and sends on it in three steps, since other goroutines run in between. `broadcastErr` holds
the lock from end to end, so it is one action, enabled when none of its sends would block:
if one could, the goroutine would wait there with the lock held, and `SendsNeverBlock`
says that this does not happen. The server is the environment. It may answer any request
it received, in any order, twice, or never, and may hang up. A request with an unknown id
ends the connection. `got` is history: how each request ended.

### ConcurrentTransfer and ConcurrentWriteTo

`readAt`, `writeAtConcurrent` and `readFromWithConcurrency` are the same machine: a slicer
dispatches the request of a chunk and hands the chunk to a worker, workers wait for answers and
report errors, the caller keeps the error with the smallest offset and closes `cancel` after
the first. `mode` says which of the three it is. They differ in what an answer can be (a read
may return less than was asked, which counts as the end of the file) and in how slicing ends
(`readFrom` asks its source, whose own failure the slicer reports itself). The channels are
unbuffered, so a send and its receive are one action (`HandOut`, `ReportError`,
`ReportSourceError`). Once the first error is in and before `cancel` is closed there is a
separate state of the caller, in which chunks still go out. The slicer looks at `cancel` only
while it offers a chunk, and may hand the chunk out although `cancel` is closed, as Go's
`select` may. The connection is external here: each dispatched request gets one answer, in any
order, which is what `ClientConn` shows. Chunks have one length, the last one may be shorter; a
source that yields shorter pieces in between changes the offsets and nothing else. `done` is
what was copied, or written, of each chunk.

`WriteTo` is the same slicer and workers with three differences, which `ConcurrentWriteTo` adds.
The slicer has no end of its own (`EndlessSlicer`). A worker hands what it has read to the
caller, over the channel of its chunk, when the caller has come to that chunk (`Deliver`), or
drops it once `cancel` is closed (`Drop`). The caller writes it to `w`, waits for the next chunk,
and after an error or the end closes `cancel` and waits for the workers (`CancelAll`,
`ReturnAfterWait`). `Guess` is the choice between this and `writeToSequential`
(`SequentialChunk`), by the size a stat returns. A byte of the file is its position, so that
`out` shows which bytes the Writer was given; `Resize` is somebody else who changes the size.

### ClientFile

One File and the goroutines that use it: `Lock` takes `f.mu`, shared or not, and looks at the
handle, `Unlock` moves `f.offset` for the operations at the offset, and the loops in between
send a request and take its answer in separate steps (`ReadRequest` and `ReadAnswer`,
`WriteRequest`, `SourceYields` and `WriteAnswer`, `OneRequest` and `OneAnswer`), so that every
other goroutine may run in between. An answer to a read may be any number of the bytes asked
for. `Close` invalidates the handle under the lock and then sends its request. `closes` and
`data` are history.

### RequestHandles

What the workers of a RequestServer do with a packet between `Begin` and `Finish` of
`OrderedReplies`, which `PacketManager` was shown to implement: the module extends the abstract
pipeline, so its behaviours include every schedule the goroutines can produce. `Start` takes a
packet from its channel; an open registers its handle (`NextRequest`) and then asks the handler
(`OpenSucceeds`, `OpenFails`); other operations look the request up under the lock
(`GetRequest`), use its reader, writer or lister after releasing it (`CallHandler`), and
respond when the handler returns (`TransferReturns`, `ListReturns`). `CloseRequest` is one
action because it holds the lock of the table; reads of the same request may be in a handler
meanwhile. `ServeReturns` is the end of `Serve` after `wg.Wait`. As in `Request.call`, what is
called depends on what the handle was opened for. Handler calls are external: they may fail,
and a lister copies any number of entries up to the batch size. The client knows a handle once
the reply with it has been sent, and may then send anything on it; handles it was never given
are left out. `given`, `closed`, `told` and `listed` are history: what handlers returned, how
often it was closed, whether it was told of the error of `Serve`, which entries were sent.

### ServerFiles

The same for Server, whose handlers call the operating system themselves. Each system call is a
step: an opendir is `StatDirectory` and then `Open`; an open that succeeded takes its handle
under the lock (`NextHandle`); a read, write, listing or stat looks the file up under the lock
(`GetHandle`) and uses it after releasing it (`UseFile`); a setstat applies its parts one by one
(`BeginSetstat`, `ApplyPart`, `SetstatDone`); `CloseHandle` closes with the lock held. `Denied`
is the read-only check. Every call may fail. The file system is one directory of names and
inodes, with what rename, link, mkdir and remove do to them, since a handle keeps its inode and a
path may come to stand for another one; an inode is named by the packet that made it.
`opened`, `closed` and `applied` are history.

### Wire, Packets, Filexfer, Attributes and Codecs

A packet is a record of its fields, and a layout is the order in which `MarshalBinary` or
`UnmarshalBinary` puts them on the wire; `Packets` has a layout for each packet and direction of
`packet.go`, and for the replies as `client.go` reads them, `Filexfer` those of the other package,
whose decoder is a `Buffer` with a sticky error. `Wire` has the encoders and decoders of the fields,
byte for byte, the frames, and what a field may hold (`Values`). The one change of scale is that a
uint32 has two bytes (and a uint64 two such words), which keeps TLC's numbers small; the top bit
(`AttrExtended`) moves along. `Attributes` has the tables: file modes, `os.FileInfo`, errors to
status codes and back to errors, open flags. In `Codecs` one side encodes a packet and a second one
behind it with either codec, the connection may end after any byte (`Cut`) or one byte may change
(`Alter`), and the other side reads frames and decodes them with either codec (`Receive`).
`Sendable` is what a sender may build. A packet may have been made from a value of package `os`,
which the other side makes again from what it received.

## 3. Runs

| run | instance | shows |
|---|---|---|
| `pipeline` | 2 rw workers, 3 packets | `InOrder`: replies are 1, 2, 3, ... without gap; `CloseWaitsForEarlier`; `WorkingCounts`: the WaitGroup is exact; `ServeReturnsQuiescent`; `ImplementsOrderedReplies`; `EveryPacketAnswered`; `ShutdownCompletes` |
| `pipeline_drain` | 2 packets | fails: see findings |
| `paged_pipeline` | 2 rw workers, 3 packets | `PagesKeptUntilSent`, `NoPageLost`, `NothingHeldAfterServe` |
| `client` | 2 callers, 3 channels, pool of 1, 2 requests | `SendsNeverBlock`, `NoCallForgotten`, `RepliesReachTheirCall`, `PoolIsClean`, `OutcomesAreFinal`; `CallsReturnAfterClose`, `CloseCompletes` |
| `transfers` | 2 workers, 4 chunks of 2, the last one of 1; files of up to 4 bytes, resized once | `ReachedIsDone`: everything before the offset returned was transferred; `EarliestErrorReported`; `NobodyLeftBehind`; `OutIsPrefix`: the Writer of `WriteTo` gets the file in order; `TransferEnds` |
| `write_to_offset` | the same | fails: see findings |
| `client_file` | 2 callers, 3 calls, packets of 2, a file of up to 3 bytes | `BuffersAreExact`, `CursorIsShared`, `NoUseAfterClose`, `OperationsReturn` |
| `read_from_lost` | 1 call | fails: see findings |
| `request_handles` | 4 packets: opens, reads, listings, stats, closes; 2 entries, batches of 2 | `ObjectsClosedOnce`, `ClosesAreBarriers`, `HandlesNameTheirOpen`, `LeftOpenAreTold`, `ListingsAreExact`, `ServeEnds` |
| `request_writes` | 2 packets | fails: see findings |
| `server_files` | 3 packets of a menu of 16 over a file, a directory and a free name | `FilesClosedOnce`, `HandlesNameTheirFile`, `SetstatsAreWhole` |
| `codecs` | a packet of every kind, some in two forms; every error, mode and set of open flags | `RoundTrip`, `NothingInvented`, `MeaningSurvives` |

Why the bounds are enough.

* **Pipeline and pages.** With `n` read/write workers the channels hold `n` items. Three packets
  let one be served, one be queued and one be at the barrier or being received; two later
  packets can finish before an earlier one, and a close can have a packet on either side.
  The proofs below cover every other size. Workers are interchangeable, which `paged_pipeline`
  uses as a symmetry; the runs with liveness use none.
* **Client.** Two callers and three channels let one channel be pooled, one be in a call and one
  be abandoned while still registered; the second request reuses a channel of the first, whose
  reply may come late or twice.
* **Transfers.** Four chunks and two workers let both workers report errors, in either order,
  while a third chunk is handed out and a fourth is dispatched and cancelled; chunks of two
  units have a short read that is neither empty nor full. For `WriteTo`, `SizesAssumption` makes
  the last chunk begin beyond every end of the file, where the endless slicer may stop in the
  model without being seen: the caller ends at the first chunk without a byte.
* **ClientFile.** A call of three bytes takes two packets, the second one short; three calls
  are a Close between two operations, or two operations at the offset and a third one meanwhile.
* **Requests and files.** Four packets are an open, a use and two closes, or two opens and a use of
  each; two entries are sent in one batch or in two, and the listing after them is the reply for
  the end. Three packets of `ServerFiles` are an open, a rename (or a remove) of its path and
  a use of its handle.
* **Codecs.** The second packet behind the first one shows that a decoder does not read past its
  frame. A byte is changed to zero, one, three and 255: the lengths, counts and types that are
  legal but wrong, and the one beyond every limit. `MaxMsgLength` is smaller than a wrong length
  can be, as in the code.

The unbounded counters (arrivals, ids, calls) are bounded by `MaxPackets`, `MaxRequests` and
`MaxCalls`. `OrderWrap` is larger than `MaxPackets`: see the observations below.

Deadlock is checked in the runs of the pipeline, the pages, the requests, the files and the client
connection: the only state with no further step of the program is the one in which every
goroutine has ended, where `Ended` or `AllDone` stutters. A transfer, the calls on a File and the
exchange of `Codecs` end, so their runs do not check deadlock; that a transfer and a call do
not stop before their end is `TransferEnds` and `OperationsReturn`.

### Fairness

Liveness is checked under weak fairness of every step of a goroutine that the program
itself takes: handlers, writes and sendPacket return, and the Go runtime runs every
goroutine that can run. The exceptions and additions:

* The controller's `select` has weak fairness per case: Go picks among ready cases at random,
  so a case that stays ready is taken.
* Nothing is assumed of the peer of a pipeline or a client connection: packets need not arrive,
  servers need not answer, and the input need not end (`EveryPacketAnswered` is about the time
  while it has not ended; `ShutdownCompletes` starts when it has). The one assumption about the
  other end is that the client's input ends once the client has closed the connection
  (`WF_vars(connClosed /\ RecvFails)`): `Close` waits for recv and relies on exactly that.
* For a transfer, the fairness of `AnyAnswer` says that every request gets a result, if only the
  error of a lost connection, which is `CallsReturnAfterClose`: a server that never answers on a
  live connection leaves the transfer waiting. `CancelSlice` has strong fairness, since the
  slicer of `WriteTo` never ends by itself and comes back to a `select` in which `cancel` stays
  ready: the choice is random, so it does not fall on the other case for ever.
* For `ClientFile`, requests are answered, a chunk that is not at the end of the file with at
  least one byte (`readChunkAt` and the loops retry after a short answer, and a server that
  answers with no bytes and no error for ever would keep them there). `Lock` has strong fairness:
  a Go mutex is granted to every waiter in the end.
* For the requests, `ServeEnds` assumes that the workers and `Serve` run and that handlers return;
  sending replies is not needed for it.

## 4. Findings

* `pipeline_drain`. `close()` waits until every packet is processed (its response is in the
  `responses` channel) and closes `fini`; the controller's `select` may take `fini` first
  and return with responses unsent. `packet-manager.go:107` says it will "pause until
  current packets are processed". The input has ended at that point, so what is lost are the
  last replies to a client that closed its sending side.
* `request_writes`. `fileput` serves any packet on a handle opened for writing, and a read packet's
  data is a fresh slice (`packetData`): SSH_FXP_READ on such a handle writes zeros (or what is
  left in a page of the allocator) over the file and is answered with OK.
  `request-readme.md:28`: the server "writes the uploaded file to" the writer.
* `write_to_offset`. When concurrent `WriteTo` ends, `f.offset` is the offset of the packet that
  brought the end of the file (`client.go:1490`): the start of the chunk after the last one. The
  comment above, `client.go:1489`, says "this will always be the last successfully read byte".
  For a file whose size is no multiple of the chunk the offset is beyond the end of the file.
* `read_from_lost`. `ReadFrom` without concurrency keeps the error of `writeChunkAt` only when the
  source returned none (`client.go:1999`). When a source yields its last bytes together with
  `io.EOF` and the server refuses them, `ReadFrom` returns nil, while `client.go:1915` says it
  "reads data from r until EOF and writes it to the file".

Seen while modelling, and outside what the runs check:

* `newOrderID` is a uint32 and `Sort` compares ids as plain numbers. When the count wraps while
  packets are pending the later one sorts first: with `OrderWrap = 3` and four packets `InOrder`
  fails. The promise of `packet-manager.go:9` holds for the first 2^32 packets of a connection,
  which is what the theorems that assume `MaxPackets < OrderWrap` say.
* `filestat` does not keep the lister it gets (`request.go:569`), so nothing closes it, while
  `request-interfaces.go:147` says "The request server code will call Close() on ListerAt if an
  io.Closer type assertion succeeds."
* The comment at `client.go:1271` says an error of `readAt` is at an offset beyond the start; it
  is at the start when the first chunk fails (`writeAtConcurrent` has the same comment with `>=`).
* `WriteTo` starts each chunk where the previous one would end if it were full
  (`client.go:1421`), counting on a comment at `client.go:1343`. When a file grows during
  the transfer, a chunk that was short is followed by one that is not, and the bytes between
  are left out. This is why `OutIsPrefix` asks for an unbroken prefix only when `resizes = 0`.
* `Server.Serve` means to stop at a packet type it does not know, but the `break` at
  `server.go:395` leaves the `switch` only: the packet is queued, its worker returns without
  `readyPacket` (`server.go:341`), and the WaitGroup keeps its count.
* `translateErrno` is reached through `*os.PathError` and plain numbers; an `*os.LinkError` (a failed
  rename or link) and `os.ErrPermission` become the generic failure. `MeaningSurvives` has this as
  the code does it.
* In `filexfer` a `VersionPacket` with a truncated version decodes without an error, and a frame
  that ends right after its length is reported as the plain `io.EOF` of a closed connection.
* An fsetstat applies its parts to the open file, except the times, which it applies to the name
  the file was opened under, where another file may be by then.

## 5. Proofs

All proofs are checked by TLAPS from nothing and hold for every value of the constants. They
assume only the named assumptions on the constants (`RWWorkersAssumption`, `LengthsAssumption`,
`SizesAssumption` and so on), which TLC evaluates in the runs.

`PacketManagerProofs`:

* `TypeCorrect`, `WaitGroupExact`, `CloseIsABarrier`, `ServeQuiescent` hold for any number
  of workers, packets and order ids; `RepliesInOrder` assumes `MaxPackets < OrderWrap`.
* The inductive invariant describes the pipeline as one line of arrival numbers: the packets
  in `pktChan` are consecutive and end at the last arrival, the dispatcher's packet comes
  just before them, `requests` and `incoming` are what follows the last reply, and each
  packet registered and not answered is in exactly one place (dispatcher, `rwChan`, a worker,
  `responses`, `outgoing`). `InOrder` needs it because a reply leaves when the *heads* of two
  sets agree: that the head is the next number follows only from `incoming` having no gap.
  `WaitGroupExact` needs distinctness of the places (else the cardinality is off), and the
  barrier needs `WaitGroupExact`: the counter being zero must mean that nothing is in progress.
* `PipelineKeepsPromise`: under the same assumption every step of a goroutine is a step of
  `OrderedReplies` or a stutter, so that `RequestHandles` and `ServerFiles` may stand on it. There
  is a lemma for each action of the abstract pipeline: a worker taking a packet is `Begin`
  (`TakeIsBegin` from `rwChan`, `HandIsBegin` from `cmdChan`), its `readyPacket` is `Finish`,
  `SendReply` is `Reply`, and `HiddenSteps` has the rest. What `Begin` asks for, that no earlier
  packet of the same channel waits and that closes are barriers, comes from `PipelineInv` and
  `BarrierInv`; `PromiseInv` adds that a packet waiting for a worker or with one has no response
  yet, and that `rwChan` is in the order of arrival.
* `NoPageShared` is about the allocator alone, called by anybody in any order: the effect of
  Append, `\o` and `SubSeq` on the elements of a sequence without repetition.
* `PagedIsPipeline` and `PagedCallsAllocator`: `PagedServer` is a pipeline and a user of the
  allocator, so all of the above holds of it. Nothing is assumed of the order ids.
* `NothingIsHeld` (nor here), `PagesStay` and `PagesComeBack` (both assume
  `MaxPackets < OrderWrap`): ownership of pages. The code keeps no owner, only a map from order
  id to pages. `HeldInv` says what that map means until `Serve` frees everything: under the id of a
  packet whose reply is not sent are exactly its pages, under the next id the page being received
  into, and under no other id anything. `KeptInv` takes over afterwards, when the map is empty: the
  pages that unsent replies still use stay apart, because nobody asks for a page any more. The
  step from order ids to packets needs that pending packets have different ids (`DistinctIds`);
  that the controller releases the page of the packet it has just sent needs `PipelineInv`.

`ClientConnProofs`: `TypeCorrect`, `NoSendBlocks`, `EveryWaiterServed`, `NoCrossedReplies` and
`PooledChannelsClean` follow from one inductive invariant, `ConnInv`, which is about ownership.
A result channel is with one caller alone (before it is registered, or after the caller took it
back), or registered under one id, or in recv's hands, or full, or in the pool, and in each case
nobody else can send on it. `SendsNeverBlock` alone is not inductive: that a registered channel is
empty depends on nobody else holding it, which depends on abandoned channels never returning
to the pool. `OutcomesStay`, an action property, needs in addition that the request of an active call
is still pending (`OutcomeInv`), and from `ConnInv` that no two active calls have one id.

`ConcurrentTransferProofs`: `ReachedIsTransferred`, `ErrorsAreEarliest`, `NobodyOutlives` and
`WriterGetsThePrefix`, for any number of workers and chunks and files of any size, about the
behaviours of `ConcurrentWriteTo`, which include those of `ConcurrentTransfer`. The
invariant, `TransferInv`, follows each chunk that was handed out (`ChunkOK`): it is with a worker
that waits for its answer, or it is done as far as its answer says, and then its error is in the
hands of a worker or has been reduced into `firstErr`. When all have ended only the last remains,
which gives the first two theorems at once. `ErrorsAreEarliest` also needs that slicing stops
early only after an error. For `WriteTo` the invariant relates `out` to the chunk the caller waits
for: everything in it is below that chunk (`Below`), and while nobody resizes the file `out` is
exactly what lies between the start and that chunk, or the end of the file (`SteadyOK`).

`ClientFileProofs`: `BuffersExact`, `CursorShared` and `NothingAfterClose`, for any number of
goroutines, calls, lengths and offsets. `FileInv` has three parts. `LockInv` says who may hold
`f.mu` together: an operation at the offset, or a Close, holds it alone. `CloseInv` says that
between the invalidated handle and the close request nobody is inside, so that no request
follows it and none is awaited. `DataInv` follows the loop of each operation: what it has moved
begins at its offset and has no gap, and it leaves the loop short of its length only with an
error. The parts are proved to survive steps of other goroutines once and for all
(`OthersStay`), since those write only variables of their own.

`RequestHandlesProofs` and `ServerFilesProofs` begin with what both need of the pipeline, as an
invariant of `OrderedReplies` (`PipeOK`): at most one command is in a worker (`OneCommand`), and
what has begun and not finished when a close begins is nothing (`ClosesAreEarlier`).

`RequestHandlesProofs`: `ObjectsAreClosedOnce`, `ClosesSeparate` and `HandlesAreTheirOpens`, and
`HandlesKeepOrder`: the requests only ever take steps of `OrderedReplies`, the refinement by
which the module uses the pipeline. `HandlesInv` has one conjunct for the places an object can
be in (with its open, in the table, closed), one for the stage of each packet, and one that a
packet with a request in its hands is a packet in progress, so that the close which would take it
away cannot have begun. That a new handle is free rests on a count: handles are at most as many
as the opens before. The objects of a request are closed with the request, or by the open
that failed, or by the end of `Serve`; that these exclude each other needs the barrier of
`PipeOK`. `LeftOpenTold`: a reader or writer is told of the error of `Serve` exactly
when its handle was still in the table at the end. `ListingsComplete`: of a directory that is only
listed (`OnlyListed`), `listed` is an initial part of its entries and `lsoffset` its length, and
a handler that is listing was given that offset (`ListingInv`). It needs that listings of one
request do not overlap: they are commands, and there is one command worker.

`ServerFilesProofs`: `EveryFileClosedOnce` and `HandlesAreTheirFiles`, by the same argument for
the open files of `Server`; `FilesInv` adds that a system call has its file still open, though the
lock was released before. `SetstatsInOneGo`: the entries of a setstat in `applied`, the history of
all changes, are one block, on one inode, in the order of its parts, up to the first failure
(`SetstatInv`, by the place `from` where the block begins and the number `done` of parts in it).
The block of a setstat under way is the last one, and that no other packet breaks into it is again
the single command worker; that it stays on one inode needs that no rename or remove runs
meanwhile. A setstat without parts changes nothing and is OK, or fails at its start.

`EncodingProofs` and `CodecsProofs`: both codecs for every value, of any length, where `Codecs` has
samples, and from there the three invariants of `Codecs`. The first module is about the operators
of `Wire`, `Packets` and `Filexfer` alone, the second about the samples, the conversions and the
connection. There are four groups of lemmas.

* *What is encoded comes back.* `AttrsRoundTrip` and its like are about fields, `PacketRoundTrip`
  and `FxPacketRoundTrip` about packets: whatever its fields hold, a packet comes out of its bytes
  as it went in, with nothing left over. `FrameRoundTrip` reads a frame back whatever comes behind
  it, and after `CutFrameIsNoPacket` no proper prefix of a frame is taken for a packet.
* *What is decoded was in the bytes*, whatever bytes they are: `FieldExact`, `PacketExact` and
  `FxPacketExact`. These have no assumption about the sender at all.
* *The two codecs agree.* `EncodersAgree`: the same bytes for every field. `DecodersAgree`: on any
  bytes, the `Buffer` with its sticky error and the functions with their results return the
  same, or fail together. `CodecsUnderstand` puts it together for a packet: what one codec
  writes, the other decodes to the fields it was built from. The layouts are the same but for
  mkdir, whose attributes `filexfer` writes and the package does not read: there the flags of
  the attributes are read and the rest is left over.
* *The conversions undo each other*: modes, open flags and errors, bit by bit and code by code.

With these, `RoundTripAlways`, `NothingInventedAlways` and `MeaningSurvivesAlways` follow from
inductive invariants about the connection. `Setting`: the two codecs, and a packet its sender may
build, never change. `Underway`: what is in the stream is bytes, and every packet received is what
the receiver makes of some bytes; that alone gives `NothingInvented`. `Course` is about a connection
that has altered nothing: for some number n, it carries the first n bytes sent and no more, the
packets received and the bytes left are a stage of reading these (`Stage`: none, one or both packets
have been read), and the status at the end is what the reader returns of the bytes left. It is
needed because `RoundTrip` compares packets with what was sent, and the stream alone does not say
how far in the frames its bytes are.

What is assumed is `CodecsAssumption`, about the samples: fields of their type (`Values`), which is
that lengths and numbers of entries fit their uint32 and that the attributes a flag does not
announce are zero; a body that fits `MaxMsgLength`; the name of its extension in an extended
packet; and, of a mkdir, that its flags are those of its attributes, and that the package sends
it with neither, as `Client.Mkdir` does. With other flags and no attributes behind them, `filexfer`
would fail on the mkdir of the package.

A layout and a list are folds, so this is induction over data. It goes through sets:
`SetInduction` (a set with 0 and with every successor has all numbers) follows from the minimum
that a set of numbers has, and names no operator. With it the function behind a `FoldLeft` is
shown to exist (`IterationExists`), which makes the CHOOSE of its definition one, and the fold
the last of a sequence of turns (`Runs`); in the same way a concatenation of many parts is what
is left behind each of them (`Tails`). `ListLoop` puts the two together: if each turn reads back
what one element was written as, the loop reads back the list. There is one lemma for each
loop of the decoders, since a fold's LAMBDA cannot be a parameter, and the loops of the two
packages are compared turn by turn. That a loop has enough turns is `ListIsLong`: an element has
at least one byte, and the number of turns is bounded by the bytes.

Every invariant and action property that the runs check is proved. Only model-checked are the
liveness properties, which are out of the prover's reach with ENABLED: `EveryPacketAnswered`,
`ShutdownCompletes`, `CallsReturnAfterClose`, `CloseCompletes`, `TransferEnds`, `OperationsReturn`
and `ServeEnds`. The violations of section 4 are counterexamples and have nothing to prove.

## 6. Not modelled, and the plan

* **In-memory handlers** (`request-example.go`). An example of what an application writes.
  `RequestHandles` has handlers as their interfaces describe them: any result, any failure.
* **Client file system operations**. Each is one request, covered by `ClientConn`, `Packets` and
  `Attributes`. `Remove` with its second attempt, `MkdirAll`, `RemoveAll`, `Glob` and `Walk` are
  sequences of requests that keep nothing between them.
* **Server commands without state**: symlink, readlink, realpath, statvfs; of `RequestServer` the
  commands that are handed to the application (Rename, Mkdir and so on), and contexts.
* **Listing format, patterns, debugging, the standalone server's main**: wording and wiring.
* **Windows and Plan 9**, whose paths and errors differ.
* **Packets that cannot be decoded by `Server`**, see the observations of section 4.
* **Blocked writes**: a peer that does not read. Writes return, with or without an error. `Close`
  needs the lock that a blocked writer holds; see the hazards.
* **`Len` methods and the uint8 and uint16 accessors of `filexfer`**, which no packet uses to decide
  anything; `bufPool` and the pools of channels inside a transfer, which are not observable.

What would come next, in this order: `MkdirAll` and `RemoveAll` against changes somebody else
makes on the server; the tree of the in-memory handlers.
