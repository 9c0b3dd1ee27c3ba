# Formal model of firedancer-rs

TLA+ modules, TLC configurations and TLAPS proofs for the Rust crates in
`src/crates`, which wrap parts of Firedancer (a C validator for Solana) and add
a Solana RPC client and a tracing layer of their own.  The C library itself is a
submodule and not part of the repository; where a crate calls it, the model
states what the crate relies on and the definition is marked external.

## 1. Inventory

| Part | State it keeps | Operations | What is hard |
|---|---|---|---|
| `waltz/rpc`: `fd_rpc_io.c`, `io.rs` | socket, SSL objects, a state (`DISCONNECTED` ... `ERROR`), an RX and a TX ring | `connect`, `pump`, `tx_push`, `rx_pop`, drop | non-blocking connect and handshake, early returns that own resources, FIN and RST at any time |
| `waltz/rpc`: `solana.rs`, `http.rs`, `jsonrpc.rs` | the connection, a scratch buffer, `next_id`, `timeout_ns` | `connect`, calls, `batch`, `set_timeout_ns` | fragmented and late responses, resend after reconnect, 429 back-off, deadlines |
| `waltz/rpc`: `xdp.rs` | an AF_XDP TX ring, the next frame | `send_udp` | a ring shared with the kernel |
| `waltz/http` | response memory per connection, a connection count | C callbacks, `listen`, `poll`, drop | memory lent to C until a response is sent |
| `waltz/quic` | memory of the C endpoint, handles, a network context, new connections | `bind`, `accept`, `connect`, C callbacks, drops | pointers no type ties to what they point to; the order of drops |
| `waltz/grpc` | a pool of streams in C, handles to them | requests, deadlines, C callbacks | a handle outlives its request |
| `util/spad` | a region of shared memory: `mem_used`, the frame stack | frames, `allocate`, `prepare`/`publish`/`cancel`, `trim`, `reset`, `join`, `leave`, `delete` | check and call are two steps; several processes |
| `util/scratch` | the thread's attachment, frames | as spad | guards pop whatever is on top; a second attach |
| `util/wksp`, `util/shmem` | allocations by tag, joined regions | `allocate`, `free_by_tag`, `reset`, join and leave | handles that outlive what they name |
| `util/clock` | a named segment with a clock, its owners and observers | `init`, `open`, `join`, `recal`, drop | every system call may fail, other processes come in between |
| `util/checkpt`, `util/tmpl`, `util/valloc` | C objects behind handles | see the crates | what the wrapper stores, frees and forgets |
| `util/tile`, `util/tpool` | threads that run a task, a pool | dispatch, `wait`, `try_result`, `partition_range` | waiting for each other; shares computed apart |
| `util/log` | levels, a logfile, a `Once` | builder, `init`, boots, messages | threads that race to initialise |
| `ballet/txn`: `builder.rs` | account table with permissions, instruction entries, two byte buffers, fee payer, blockhash, version | `fee_payer`, `add_signer`, `add_instruction`, `build`, ... | calls that fail half way, accounts that move when the message is built |
| `ballet/*` | buffers, C trees and streams of one call | encode, decode, load, derive | integer edges, failure half way, truncated input |
| `flamenco/svm` | contexts of one execution | set-up and run of the C virtual machine | lifetimes |
| `composites/tracing` | the global subscriber; a span table, a span stack per thread, each behind a read-write lock | the callbacks of a tracing layer, `stats` | every thread of the application, two locks |
| `util/{bits,math,net,env}` | none; a command line | helpers, stripping of options | integer edges |
| `common`, the `*_sys` crates | `OUT_DIR` | build scripts | what is rebuilt when the vendored files change |

How parts interact: `SolanaRpcClient` owns a `Connection` and drives it by
`pump`; the connection calls the kernel and OpenSSL.  The tracing layer is
called by the `tracing` registry on any thread and writes through `fd_log`.
Spad and wksp regions are shared between processes through shmem.  HTTP, QUIC
and gRPC run C code that calls back into Rust.

Properties that make each modelled part correct are in section 3; the full list
of components, with the reason for each one that is left out, is in
`PROJECT.json`, and so is the list of hazards, each at its line.

## 2. Modules

| Module | Models | Remarks |
|---|---|---|
| `RpcIo` | `fd_rpc_io.c`, `fd_rpc_io.h`, `io.rs` | the C state machine, the two rings, the peer |
| `RpcClient` | `solana.rs`, `http.rs`, `jsonrpc.rs`, `utils.rs` | composes `RpcIo` (`Io == INSTANCE RpcIo`) with the client thread, the server and the clock |
| `RpcContract` | what a caller may rely on | at-least-once execution, one outcome per call; `RpcClient` implements it |
| `Spad` | `util/spad` | any number of processes on one region |
| `SpanTracker` | `composites/tracing`: `span.rs`, the span callbacks of `layer.rs` | any number of threads, two locks, the registry |
| `TxnBuilder` | `ballet/txn`: `builder.rs`, and the accessors of `lib.rs` that read a message back | one builder, any sequence of calls |
| `HttpServer`, `Quic`, `Grpc`, `Xdp` | `waltz/http`, `waltz/quic`, `waltz/grpc`, `waltz/rpc`: `xdp.rs` | transports over C code or the kernel |
| `Wksp`, `Scratch`, `Checkpt`, `Clock`, `Tmpl`, `Valloc` | `util/wksp` with `util/shmem`, and so on | memory and its owners |
| `Program` | `ballet/sbpf`, `flamenco/svm` | loading and running a program |
| `TilePool`, `Log`, `Tracing` | `util/tile`, `util/tpool`, `util/log`, `composites/tracing` without the spans | work and its report |
| `Json`, `JsonScan`, `Views`, `Base64`, `Zstd`, `Nanopb`, `Toml`, `Ed25519`, `Util` | `ballet/*`, `waltz/rpc`: `json_scan.rs`, `ballet/txn`: `lib.rs`, `ballet/shred`, `util/{env,bits,math,net}` | codecs, views and algorithms |
| `Services` | `HttpServer`, `Quic`, `Grpc`, `Xdp`, `TilePool`, `Log`, `Tracing`, `Views`, `Base64`, `Zstd`, `Nanopb`, `Toml`, `Ed25519` and the command line of `Util` together | a step is one of the component in focus; `MCServices` adds JSON, the helpers on numbers and the build |
| `Build` | `common` and the 29 build scripts | one crate, built again and again |
| `RpcIoProofs`, `RpcClientProofs`, `SpadProofs`, `SpanTrackerProofs`, `TxnBuilderProofs`, `MemoryProofs`, `ServicesProofs`, `CodecProofs` | theorems | see section 5 |
| `MC*` | bounds for TLC | named bounds, and for `MCMemory` and `MCServices` the choice of a component |

### RpcIo

`io` is the C struct (state, which pointers and descriptors are set) together
with `os`, the operating-system objects that really exist, so that a leak or a
double release shows as a difference.  The RX ring is the part
`rxlo..rxhi` of everything the peer wrote, the TX ring the part of `sent` after
`txlo`: a ring is then a window on a stream and "no byte is lost, none is
read twice" is a property of two counters.  Each early return of
`fd_rpc_io_connect` is an operator of its own; `PumpConnecting`, `PumpTls`,
`PumpReady` and `PumpDefault` are the branches of `fd_rpc_io_pump`, with the
receive before the send as in the code.  `Replace` is the assignment
`self.conn = conn` in `reconnect`: the old connection is dropped, and closed.

### RpcClient

`pc` is where the client thread is: waiting for the connection, pumping, popping
a header, a body, a chunk, sleeping between attempts.  A unit of the stream
carries the id of the request it answers, its place in the response, what the
response is (a result, an error object, 429) and how it is framed, which is all
that pairing, completeness and retries depend on.  `read_response` starts at
`scratch[0]`, so what earlier reads popped beyond their own response is gone:
`base` is the place in the stream where the current one starts.  The server
answers in order, at any time, and also requests of connections the client has
given up; the clock may pass the deadline at any time (`Expire`).  `clean`
remembers whether every read of this connection consumed its whole response: a
failed or timed-out read, and one without delimiters, end that.

A response has the units of its header and body, and a chunked body may have any
number of chunks before the rest: `PopTrickle` is a round of the chunked loop that
pops one of them.  Bytes came, so the loop does not look at the deadline, and it
doubles `scratch` when that runs low.  A server that sends chunk after chunk keeps the
call there for ever, which is what the code does.  The doublings end at `MaxScratch`, a
bound of the model that stands for the memory of the machine.

### Spad

Each method of `SpadAllocator` is two steps, the checks (`CheckAlloc`, ...) and
the library call (`DoAlloc`, ...), because that is what the code does and what
another process can come between.  `live` is the history of what is handed out:
who holds bytes `lo` to `hi` in the frame at `depth`.  `publish_alloc` and
`cancel_alloc` check nothing, and neither does the model: a caller may publish more than
it prepared, or what another call has ended.  `overdrawn` remembers a publication of
more than was prepared, after which nothing is promised of the region but the limit of
its frames, until `new` or `reset`.  An alignment of 0 asks for the default one.

### SpanTracker

A callback has a `Plan`: the locks it takes, in order.  It keeps them to its
end, so its effect on the tables is one step (`Finish`).  A writer first claims a
lock, which keeps new readers out, and then waits for the readers inside to
leave: that is how parking_lot works, and it matters, since a reader can be
blocked by a writer that is itself waiting.  Which callback runs when is the
registry's choice: a span is entered between its creation and its closing, and
closed when no thread is in it, by any thread.  Spans may be left in any order.

### TxnBuilder

The account table is two sequences, `acct_keys` and `acct_flags`; the instruction
entries point into it through `acct_buf`.  `add_instruction` can return in the
middle of its loop and undoes nothing, so the loop is one step per account
(`AddInstruction`, `AddAccount`, `AddData`).  `build` takes `&self`: it is an
operator, `Build` for the result and `Message` for the bytes, evaluated in every
state.  A message keeps what a reader can tell apart (header counts, account
order, indices, data); its length is that of the `Pieces` written, each with the
room its check asks for and the room it takes.  `Accepts` is what the C parser
demands of such a message (external).  History: `wanted`, the instructions whose
call succeeded; `asked`, the permissions asked for by calls that succeeded;
`failed`, the errors returned.

### HttpServer, Quic, Grpc, Xdp

`HttpServer`: `cleanups` is `pending_cleanups`, one entry per connection, `heap` the
blocks that are allocated, `reads` what the C server still sends from.  A request
replaces the entry of its connection, so the property is that the C server asks
for the next response only when the last one is out.  `Quic` follows who owns the memory
of the endpoint, which network context the library sends through (`aioCtx`), whether it
announces connections to the tracker `accept` drains (`heard`), and which contexts are
alive.  A `bind` on a server that is bound makes a new context and a new tracker; when
the library refuses to initialise, the context is freed and the callbacks stay with the
new tracker, while the server keeps its old `ActiveQuic` (`rebindFailed`).  `touched`
names what was followed after it was gone: the endpoint, a context, or the null
`ActiveQuic` an accepted connection carries.  The drop actions are in the order of the
fields, and so is what they touch; `outlived` remembers that an owner went before a
pointer to it.  `AcceptUdp` holds the
socket's lock while the library may send: the server is then `stuck`.  In
`Grpc` a handle names a stream, and the pool gives the stream to the next request;
`staleUse` remembers that a handle was used after its request, which excuses a deadline
that is not the request's own, but not one on the stream of another request that is in
flight (`DeadlineAtHome`).  In `Xdp` a frame is
written before the ring is known to have room, and the kernel reads it later.

### Wksp, Scratch, Checkpt, Clock, Tmpl, Valloc, Program

`Wksp`: `part` is the partition of the workspace, with an identity per allocation, so that
an address that was freed and given out again is told from the one a handle was made
for; `behindBack` remembers `free_by_tag`, `reset` and `restore` over live handles.
`query_by_tag` is two steps; `answered` keeps how many infos were counted, which were
handed out, and which allocations carried the tags when the call ended (`QueryTrue`).
The part on shared memory counts joins of a name against the mapping there is; a `join`
that fails after the library has joined returns without leaving and keeps its count.
`Scratch` keeps one attachment and one stack of frames per thread, on which any guard
acts; `cancel` and `trim` may be called without a prepare.  `Clock` makes every system
call of a constructor a step, a segment may be joined before it is sized; `creators` is the
history of who opened a segment with `O_CREAT`.  `Checkpt` writes a file of frames and
restores it; any call may fail and be made in the wrong state.
`Tmpl` has the containers as they are, also where a wrapper does not store
the value it is given: `answer` is what the last pop, peek or get gave (`got`) and what
it was due (`due`), which is what was put there, and `from` says of which container, or
that the code keeps nothing there (`mapGet`, `vecPush`, `queuePeek`).
`Valloc` has the address the backtracing allocator forwards to,
which names a value that has moved.  `Program` loads at any
address the allocator may return, and has the pointers a machine keeps and what becomes of
what they point to.

### TilePool, Log, Tracing

`TilePool`: executions name who dispatched them, and a task may dispatch and wait;
a tile whose execution `try_result` has forgotten is in `forgotten`;
`partition_range` is an operator, asked by every worker on its own.  `Log`: `once` is the
state of the `Once`, with the thread that is inside it; `init` is three steps, a direct
boot is one with three errors.  `Tracing`:
the cell and the dispatcher are set in two steps, by several threads and by other libraries.
`InitTellsTheOutcome` says what the answers are worth: an Ok of `init` is about the
dispatcher in use, one of `try_init` only says that some thread has installed, is about
to, or was told that it could not.

### Codecs, views and algorithms

The input of each is chosen nondeterministically from a small set, the result is a
variable, and the property compares it with a reference: the tree a text was written from
(`JsonScan`, character by character, over whole and truncated bodies), the values written
(`Nanopb`, by each of the four readers of a number), the content of the frames (`Zstd`),
the pairs the C library is told of (`Ed25519`: the size of a batch is cut to a `u8`, so
that 257 pairs are one and 256 none), the account categories and the
bounds of the buffer (`Views`), the list
or the number itself (`Util`, with words of `Bits` bits).  The branch of `decompress_all`
for a round that neither reads nor writes is there and is never taken: the C stream does
one of the two as long as there is input.

### Build

A crate has a recipe: the order of the bindings, the library and the wrapper, the macros of
each and the files Cargo watches; `wksp` makes a second library (`tpoolLib`).  The vendored
files change between builds, steps fail.  The properties are exact, also for the crates
in which something does not fit: sources no line watches may be stale and nothing else may;
a script that looks for the wrapper before bindgen has written it has the text the run
before left (`previous`), no older one; and for the six crates of `Divergent` the two sides
differ by the macros `MacrosFit` names.

## 3. Runs

| Run | Bounds | What it shows |
|---|---|---|
| `rpc_io` | rings of 2, at most 3 units sent and 4 received | bounds of the rings, ownership of socket and SSL objects on every path, nothing sent before the handshake, errors reported once and final |
| `rpc_client` | 2 public calls, 1 retry, a response of 3 units over a ring of 3 and a scratch of 2, that a trickle may double once | answers pair with requests, sends are bounded, at most one live copy of a request, a dead connection delivers nothing, calls end unless a chunked body never does, and the client implements `RpcContract` |
| `rpc_client_frames` | the same with all three framings and the negative timeout | bodies with a delimiter are whole |
| `spad` | 1 process, 5 bytes, 2 frames, sizes 0 to 2, alignments 0 to 3 (3 is invalid), `mem_used` up to 7 | the pad stays in its region and live allocations are disjoint, as long as no more is published than was prepared |
| `spad_guard` | as `spad` | violated: dropping a guard does not pop its frame |
| `spad_shared` | 2 processes | violated: checks are stale at the call |
| `spans` | 2 threads, 2 spans, depth 2, stack 3, symmetric | stacks tell the spans a thread is in |
| `spans_locks` | 3 threads, 2 spans, depth 1 | which callbacks a deadlock needs |
| `spans_close` | 2 threads, 2 spans, depth 1 | violated: `on_close` and `on_enter` deadlock |
| `txn_builder` | 4 keys, a table of 3, 2 instructions, packets of 24 bytes with keys and signatures of 1, 2 signatures, 1 failed call | a built transaction parses back to what was asked for, whatever failed before; size and validity errors are earned |
| `memory` | 2 processes or threads, 2 or 3 addresses, segments, frames, blocks; see `MCMemory.cfg` | handles own what they name, scratch memory is attached and alive, clocks run while they are owned, storage gives back what it keeps |
| `services` | 2 connections, threads, streams, requests or processes, 3 blocks or contexts, ring depth 2, one edit of each class of vendored files; see `MCServices.cfg` | response memory, endpoints, deadlines and frames; shares, boots and tiles; codecs against their references; builds; `init` and `decompress_all` end |

The components of the last two runs share no state in the repository.  `focus` is chosen
in the initial state and never changes; a behaviour takes steps of that component only, and
the state space is the sum of those of the components, not the product.  `StorageSound`,
`TransportsSound`, `RuntimeSound`, `CodecsFaithful` and `ScansFaithful` say for each focus
what its module states as properties (that the logger boots once, `OneBoot`, is part of
`RuntimeSound`), and its type invariant.

What these properties except, they except because the code does nothing there, and each
exception is remembered by a variable or named in the property: allocations freed behind
the back of a handle (`behindBack`), the scratch of a thread a failed allocator has detached
(`intruder`), what the containers do not keep, a failed second `bind`, an owner dropped
before its pointers, a handle used after its request, a stream after a broken write, a
substream or a refused number (`torn`, `astray`).  Section 4 lists the code behind them.

Why the bounds are enough.  Rings of 2 or 3 with responses of 3 units reach full,
empty and wrapped rings, a response cut at every place, and a response that is
read together with the start of the next one; the scratch buffer of 2 is smaller
than a response, so that it has to grow.  Two calls are needed for one to meet
what the other left behind, and two requests per call for a resend.  Five bytes
with alignment 2 leave room for padding before, between and after allocations in
two nested frames.  Two spans on two threads give nesting, re-entrance, leaving out
of order and closing elsewhere; three threads are needed for the deadlock through
`stats`, in which a waiting writer holds back a reader.

For the builder, three slots and four keys fill the table; two instructions over
three accounts give every order of permissions and every permutation the sort can
make, a 3-cycle included, which tells a remapping from its inverse; 24 bytes hold
most messages with two instructions and not all.  One instruction has as many
accounts as the buffer has bytes and one too much data, so that each early return
happens with something already written.  In `txn_builder` the blockhash is set
first: no other call reads it.

Two processes, threads or connections are what a race needs, three addresses,
or two requests for a stream, what it takes for one to be given out again while an older
handle is held.  A ring of 2
over 8 frames wraps and fills; ring counters wrap at 8, so that an index near the limit of
its type is among the initial ones.  Words of 4 bits with bytes of 2 let `Util` try every
pair; batches of 5 against a count of 4 stand for 256 pairs in a `u8`; bump seeds up to 3
for those up to 255.  Seven tasks, 3 workers and 2 lanes give every remainder.

Deadlock checking is off where the environment may stop for good (the server
never answers, the application calls nothing more, the spad's callers go home,
the locks jam, which is what two of the runs are about; a codec
has answered its one question).

Fairness.  `RpcClient`: weak fairness of the client's own steps (one thread that
polls in a loop and never blocks) and of the clock; none of the server, of the
network or of the caller, so `CallsReturn` says that a call returns although
nobody answers.  It is exact about the one loop in which it does not: a call that goes on for
ever is from some point on in the loop of a chunked body (`InChunks`), and pops chunks there
again and again, so that a server that falls silent gives the call back to its deadline.
`RpcContract` has the same: it ends every call (weak fairness of `Finish`) that is not
`drawn` out.  `SpanTracker`: strong fairness of a thread inside a callback,
which is more than parking_lot gives, so the deadlock of `spans_close` is not an
artefact of starvation.  `Log`: weak fairness of a thread that is inside `init` (the
`Once` wakes those who wait, and the mutex is held across no wait); nothing makes a thread
call `init`.  `Zstd`: weak fairness of the loop, which waits for nothing.

## 4. Where the code disagrees with its documentation

- `SpadFrame` is documented as popping its frame when dropped; its `drop` is empty
  (`spad_guard`).
- Spad is documented as usable by several processes at once; its checks and calls
  are not atomic (`spad_shared`).
- `on_close` need not return when another thread enters a span (`spans_close`).
- `test_partition_range_with_remainder` expects other shares than `partition_range` gives;
  those the code gives are exact (`services`, `SharesExact`).
- `find_program_address` is documented as guaranteed to find an address; it stops before
  bump 0 (`services`, `FoundIsDerivable` is about what it does find).

The following has no run of its own.  The models do what the code does, and the properties
are stated around it, so that they hold.

- A chunked body that never ends: the loop of `read_response` (`http.rs:191-219`) looks at the
  deadline only when a read brought nothing and doubles its buffer without a bound
  (`PopTrickle`, `CallsReturn`).
- `fd_tmpl/src/lib.rs`.  `FdMap::insert` (157) drops its value and `get` (173) reads memory
  nobody wrote, although the documentation (34-40) and a test (999-1001) get back what was
  inserted; `remove` (194) hands the C map an element on its own stack, and `len` (210) is
  the footprint.  `FdQueue::peek` (414-429) reads cell 0, whatever the front is.
  `FdHeap::insert` (721-736) hands the C heap an element on its own stack, and the
  documentation (68) names a `pop_min` that does not exist.  `FdPool::release` (820) accepts an index that is not in use.
  `FdVec::push` (900-910) does not store its value, although a test (1161-1163) reads it
  (`Tmpl`, `ContainersSound`).
- `fd_shmem/src/lib.rs:339-346`: a join whose information cannot be read returns an error and
  stays joined (`JoinsAreMapped` is about the counts as they are).
- `fd_quic/src/lib.rs`.  After a failed second `bind` the library has a context that is freed
  and a tracker nobody drains (441-465, 862).  Connections from `accept` have a null
  `ActiveQuic` (965-969, 1007-1012), which `service` and `process_packet` follow.  A bound
  server frees the endpoint before it stops it (830).  `accept` returns the first of the
  connections a packet brought and forgets the others.
- `fd_grpc/src/lib.rs:512`: a `StreamHandle` sets the deadline of whatever request its stream
  serves by then (`staleUse`).
- `tracing/src/lib.rs:28-47`: `try_init` is Ok whenever the cell is taken, also when the
  subscriber in it could not be installed (`InitTellsTheOutcome`).
- `fd_tile/src/lib.rs:157`: `try_result` on a task that is not done loses its tile.
- `fd_ed25519/src/lib.rs:542`: a batch of 256 pairs is none to the C library, and one of 257
  is Ok when the first pair is good (`BatchHonest`).
- `fd_nanopb/src/lib.rs:334`: a substream cannot be closed on its parent, and a
  `write_string` that fails leaves its length behind (`torn`, `astray`).
- Build scripts: those that look for `wrapper.c` before bindgen writes it lag one run behind,
  sources that no line watches are not rebuilt, and six crates give their two sides other
  macros (`InlineFunctionsFit`, `LibraryCurrent`, `MacrosFit`).

## 5. Proofs

Every theorem holds for every value of the constants under the assumptions the
modules state.  Most say that a size is a natural number, some that it is positive
(a ring, a buffer, an epoch), that a set of addresses or connections is finite, or that
the name for "nothing" is not the name of a thread, an allocator or a segment.  Five say more:
`HttpAssumption` (fewer connections than the counter can count: the C server has a fixed
table of them), `XdpAssumption` (the depth of the ring divides the modulus of its counters:
both are powers of two), `LogAssumption` (levels are those of the enum), `ZstdAssumption`
(a frame is not empty, and neither are the buffers of the loop) and `BuildAssumption`
(a crate has one of the scripts of the repository).  `SpadInBounds` and `SpadDisjoint` are
under `Alone`, one process, which `spad_shared` shows is needed.

### RpcIoProofs

`TypeCorrect` is by cases on the branches of `pump`, `connect` and `Replace`.
`ResourcesAlwaysOwned`, `ReadyAlwaysUsable`, `HandshakeFirst` and `RingsAlwaysInBounds`
rest on one inductive invariant, `IoInd`: the struct is good (a pointer is set
exactly when the object exists; `READY` with TLS means the handshake is done; before
`READY` nothing was taken from the TX ring) and the rings are windows of the right
size.  Ownership alone is not inductive: that closing releases everything needs to
know that what is not named does not exist.  `ErrorsReported` and `ErrorsFinal` are
about steps: each branch of `pump` that stores `ERROR` also sets a flag, and only
`Replace` leaves `ERROR`, with empty streams.

### RpcClientProofs

`SendsAlwaysBounded` needs the number of the attempt and whether it has reconnected to
count what was sent (`next_id - callStart`).  `AnswersPaired`, `CleanDrained` and
`OneCopyLives` rest on a description of the stream: on a clean connection it is a
concatenation of whole responses, one per request and in order, the read in progress
starts at a multiple of the response length, and the request in flight is the last one.
The answer's id then follows from its place.  `DeadConnectionsSilent` adds `Silence`:
requests leave the TX ring only in `READY`, and a read that fails there spoils the
connection or replaces it.  `BodiesIntact` needs of the stream only that responses are
whole and one after the other (`WholeResponses`), and so holds of connections that are not
clean.  `ContractImplemented` shows that the first state and each step of the client are
one, or a stutter, of `RpcContract` (its safety part).  An answer of this call is in the
stream only if the server processed a request of it, which has to hold also when requests
and answers are out of step (`Processed`).

### SpadProofs

`SpadTypeCorrect` holds for any number of processes.  For `SpadInBounds` and
`SpadDisjoint` the invariant, `SpadInd`, has two parts.  `Held` is there always: the frame
stack is inside its limit, whoever has left the region has no call under way, and nothing is
live in an empty pad (`Cleared`).  `SpadSafe` is there until more is published than was
prepared: frames are stacked in order below `mem_used` and every live allocation lies inside
its frame (`RegionInv`), the check a pending library call was preceded by still holds
(`Pending`), and a preparation still fits (`Prepared`).  `AfreshStep` is the way back: `new`
and `reset` make the pad empty, whatever was published before.

### SpanTrackerProofs

`JamsNeedCloseOrStats` is about the locks: `Owners` says what the writer and the readers of
each lock can be doing.  Without `on_close` and `stats` the span table is always the last
lock anybody waits for, so whoever has it goes on.  `LifoAlwaysExact` and
`EnteredAlwaysTracked` are about the stacks: a thread in the middle of `on_enter` or
`on_exit` has a stack one span behind the registry, so the invariant relates the two through
the callback in progress.  It rests on `Registered`: a span a thread is in is open, is in the
table, and no `on_close` is under way for it.  That `Vec::retain` keeps the order is proved
of the operator `Retain`, by counting the places that are kept.

### TxnBuilderProofs

`TxnTypeCorrect` includes that no array is overrun.  `TxnRecorded` says that the
entries name, through the table and the buffer, what was added.  It is not inductive
alone: `UnderWay` describes the call in progress (its program and the accounts it has
been through are in the table, the indices it wrote are the end of the buffer, there
is room for its entry).  The argument is that the table and the buffer only grow
(`InsertKeeps`, `RecordedSurvives`): what a failed call leaves lies behind every
recorded entry and before the next one.

What `build` makes of this state: `TableInv` says that keys are distinct, that the fee payer
is in the table with its permissions, and that every key has the flags asked for it.  The sort is
by a strict total order, so the number of slots that precede a slot is its place on the
wire, each place is taken once, and the accounts that sign, or write, are a prefix of a known
length.  `PayerAlwaysFirst`, `PermissionsAlwaysKept`, `TxnRoundTrips` and
`RefusedOnlyIfPayerRuns` follow.

`SizesAlwaysHonest` is about a sum by recursion over the pieces of a message, so it takes an
induction over their number.  The library's induction theorems need an operator as a
parameter; its theorem that the finite subsets of a set are well founded takes a set, and
that is enough: the intervals `1..n` are such subsets, so a set of numbers has a least one
(`LeastNumber`), a set with 0 that has `n + 1` with `n` has every number (`AllNumbers`), and
a function defined by recursion exists and keeps its type (`RecursionExists`).  The
offset of each piece then grows with it, the last piece that is checked stands for all of
them, and no check asks for more than two bytes that are not used.

### MemoryProofs

`HandlesAlwaysOwn` needs that raw addresses (from `into_raw`) are allocated and that no two of
them are the same: otherwise freeing one copy would let the address be given out while
another copy is still to be freed.  `ClocksAreOwned`: `ClockOwned` says nothing of
constructors that are half way.  `Reached` adds that whoever is on the way to be an owner is
among the creators of its segment, that the segment a name leads to has creators, and that a
caller's own memory has none and one owner: then only a creator can end a clock or take a
name away.  `ScratchAlwaysSound`: guards match frames only if no frame is pushed twice and
none has two guards (`FramesOnce`); a prepare is open only in a frame (`PreparedInFrame`).

There is a theorem for each other component of `StorageSound`: `MemoryAlwaysReturns` (virtual allocators),
`MachineStaysWithin` and `ProgramAlwaysHoused` (the slack `load` adds is enough wherever the
`Vec` starts, since what `align_offset` returns is less than the alignment),
`JoinsAlwaysMapped` (reference counts are cardinalities), `WkspInvariant` (its part `QueryTrue`),
`ContainersAlwaysSound` (where each element of a stack, a queue, a deque is, over any wrap,
and which places of a vec were set) and `ClockTypeCorrect`.  What a restore
gives back (the lemma `RestoredAlwaysWritten`) follows from the C library as the module
describes it: the wrappers add only that calls which are refused or fail spoil nothing.  `StorageAlwaysSound` is about the composition the run `memory` checks: a
step of it is a step or a stutter of each component, so that each theorem applies to it.

### ServicesProofs

`HttpAlwaysSound` needs that what the C server reads from belongs to the entry of the same
connection (`Reading`), and that the count is right whatever became of the server
(`Counted`).  `LoggerBootsOnce`: `Stage` says what each state of the `Once` implies: not done
means nothing was booted and nobody who asked for a file has returned; done means a
result is stored that agrees with the number of boots and with every answer given.
`TilesAlwaysSound`: a tile is lost exactly when `try_result` forgot its execution; nobody waits in a circle, because executions form a graph without circles:
a task is only given to a tile that is idle, and an idle tile holds none.
`SharesAlwaysExact` is arithmetic: the blocks before worker `w + 1` are those before `w`
and its own, and those before the last are all of them; the lemmas on `\div` and `%` it needs
are proved first.  `GrpcAlwaysSound` rests on the life of a request (`UsedOnce`).
`XdpAlwaysSound`: frames are used in order and, as nobody empties the completion ring, none
twice; of the frames below `txIdx` the first `Base` are with the kernel or transmitted, the
others wait in the ring, in order, at counters that wrap.  `QuicAlwaysSound`: who holds the
endpoint decides what is allocated (`HeldBy`), which context it sends through (`Wired`), and
who can have gone before the pointers to it.
`TracingAlwaysSound`: between its two steps a thread that installs is the one in the cell
(`Installing`), and a text was made by the builder as it still is (`TextFrom`).

`TransportsAlwaysSound` and `RuntimeAlwaysSound` put these together for `Services`:
a step of it is a step or a stutter of each component.  `LoggerBootsOnce` is part of the second.
`BuildsAlwaysCoherent` is for every script of the repository and any number of edits: a step
that is done has left its artefact as it should be for the files Cargo has recorded
(`UpToDate`), which are the present ones but for those Cargo does not watch (`RecordedFiles`).
For the scripts that look for the wrapper too early `LagInv` follows the text through two
runs: what is compiled is what lay in `OUT_DIR` when the run began, and what bindgen writes
then is what the next run compiles.

### CodecProofs

Every codec of `CodecsFaithful` has a theorem, for every size, limit and alphabet, and
`CodecsAlwaysFaithful` is about the composition the run `services` checks.

- `Base64AlwaysSound` (`B64Inv`): how many characters an encoding has, which of them are
  padding, and that this determines the number of bytes again.
- `CompactExact`: every `u16` has three digits to the base 128, and the one to three bytes
  written are read back; `ViewsAlwaysSound` uses it, and `WalkInv`: what an iterator has
  yielded is below everything it still has to look at, in order, and nothing was passed over.
- `ShredsAlwaysInside` (`ShInv`): a view is of what the C parser accepts, which leaves room
  for every slice an accessor computes; no two types share a variant.
- `TomlAlwaysFaithful` (`TomlInv`): the pod is allocated exactly while a `TomlPod` holds it, and
  its entries, one per path, are no more than fit; the entry at a path decides each query.
- `UnpackingAlwaysWhole` (`ZLoopInv`): in the loop the output is the content of the frames
  passed and of the part of the present one, and input is left.  Both are sums over the frames,
  about which `Totals` says what the induction gives: that they exist, and grow with each frame.
- `StreamsAlwaysAgree` (`PbAligned`): unless a write broke off or a substream was lent bytes, the
  bytes are the encodings of the values written, one behind the other, and the reader is at
  the start of one of them, behind as many as it has read.
- `AddressesAlwaysDerivable` (`FindInv`, `OracleInv`): every bump above the present one has
  given a point of the curve, and what the curve answered once it answers again; a batch is
  as good as the pairs that remain of its size modulo 2^8.
- `ArgumentsAlwaysSound` (`ScanKnown`): how the pointers kept so far, the values and the
  argument that is still owed relate to the part of the command line the scan has
  been through; by induction over that part.
- `AveragesInRange` is about two words of any width, where the run `services` has one of 4 bits.

### Only model-checked

- `ScansFaithful`: `Json` and `JsonScan` have recursive operators, which the provers do not
  take, and the helpers on words of `Util` rest on powers of 2 and on folds with an operator
  for a parameter.
- Liveness (`CallsReturn`, `CallsEnd`, the fairness part of `ContractKept`): fairness
  and ENABLED are not supported.

## 6. Not modelled

- The C library behind the `*_sys` crates: its sources are a submodule.  What the
  wrappers rely on is stated in the modules and marked external.
- Cryptography (curve, hashes, base58 and hex codecs), floating point (conversions of the
  clock, means), and texts (requests, log lines, messages of errors).
- `fd_svm`: the stubs of system calls, which only programs inside a machine link.
- `fd_http`: web socket callbacks, which pass on to the caller, and the parameter struct.
- `fd_quic` and `fd_grpc`: stream data, statistics and tables of codes.
- `fd_nanopb`: field iterators and messages, which hand descriptors to C.
- `fd_tpool`: `execute_all`, a `todo!()`.
- `fd_net`, `fd_json`: layouts of headers, accessors and builders of values without state.
- `fd_bits`, `fd_math`, `fd_net`: functions that are one call of C or for which a model would
  only repeat the code (bit counts, roots, filters, parsing of a MAC address).
- `fd_tile`: the arguments of a task, which are freed when the dispatch returns; whether
  the task still reads them is the C library's.
- Crates whose files are empty (keccak256, sha256, sha512, mcache, dcache, tcache, svm_log).

## 7. Plan

1. The scanner of `JsonScan` with recursive functions in place of recursive operators, so that
   what it finds can be proved by the induction of `CodecProofs`.
2. An abstract specification of a workspace that several wrappers (`Spad`, `Scratch`,
   `Wksp`) could be shown to implement.
3. Liveness of tiles: a dispatched task that is waited for ends.
