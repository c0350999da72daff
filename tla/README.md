# Verification of websocket-rs

TLA+ modules, TLC configurations and TLAPS proofs for the WebSocket clients in
`src/`: the asyncio client written in Rust with its TLS transport
(`src/native_client`), the older tokio client (`src/async_client.rs`), the
blocking client (`src/sync_client.rs`) and the FIX decoder (`src/fix.rs`). Paths
below are relative to the repository.

## The system and its parts

| Part | Source | Module | State |
|---|---|---|---|
| Native client: receivers, probes, callbacks, teardown | `native_client/client.rs` | `NativeClient` | modelled, proved |
| Native client: send path, flow control | `native_client/client.rs` | `SendPath` | modelled, proved |
| Framing, fragments, receive buffers | `native_client/codec.rs`, `protocol.rs`, `client.rs` | `FrameStream`, implementing `FrameEvents` | modelled, proved |
| rustls transport shim | `native_client/rustls_transport.rs` | `RustlsShim`, implementing `PlaintextPipe` | modelled, proved |
| connect() and its helper | `native_client/mod.rs`, `connect_helper.py` | `NativeClient` (both ends of the helper) | partly |
| tokio client | `async_client.rs` | `AsyncClient` | modelled and proved, connecting left out |
| sync client | `sync_client.rs` | `SyncClient` | modelled, proved |
| FIX decoder | `fix.rs` | `FixDecode` | modelled |
| Extension module, benchmark servers, Python package | `lib.rs`, `bin/`, `websocket_rs/` | - | no state to model |

The **native client** is an `asyncio.Protocol`: one Python object whose methods
the event loop and the application call on one thread. Its `State` sits in a
`RefCell`. What makes it hard is re-entrancy. Delivering a message, failing a
Future, creating a Future, asking `done()` and writing to the transport all run
Python code, and that code may call the client again. The source answers with a
discipline: change the state, release the borrow, only then call out. The
modules check that discipline at the calls where application code can run:
message callbacks, `create_future()`, `done()`, the write of a Ping, and the
writes of `resume_writing()`. Not every call out is such a point. The results and
errors that `acknowledge()` and `fail_pending()` set on Futures, and the writes
of Pongs, are part of the step around them: with asyncio's Futures the former
only schedule callbacks, and code that re-enters the client from a Pong's write
is not covered.

With TLS by rustls a second protocol, the **shim**, sits between the socket
transport and the native client. It decrypts, holds plaintext back while reading
is paused, and hands it on one frame at a time; every delivery can re-enter it
through `pause_reading()`, `resume_reading()`, `write()` and `close()`.

The **tokio client** is an actor task with a bounded command channel and a
bounded message channel. Python calls enqueue at once when they can and
otherwise spawn tasks on other threads.

The **sync client** blocks in `read()`. A signal interrupts the read; the client
lets Python handle it and goes on with the time that is left. The difficulty is
which timeout and which deadline are in force after each way out of a call.

The **FIX decoder** is a pure function of a frame: one walk over the fields of
the body, a check of the header's order, and a reading of book entries.

## Modules

### NativeClient

One variable per field of `State` that these operations use. The other
variables are the Futures (`fut`), the call `stack`, the asyncio side (`link`,
`helper`, `cleanups`), and history (`arrived`, `delivered`, `got`, `wire`,
`peak`, `dropped`, `excuse`).

A handler that calls Python code before it is finished is split there, and its
locals are a frame on `stack`. Application calls are enabled when the stack is
empty or when its top frame has called out (`CalledOut`, limited by `Reentry`
and `MaxDepth`). Everything between two such points is one step, as it is in the
code.

| Actions | Code |
|---|---|
| `ConnectionMade`, `HelperReturn`, `HelperRaise` | `connection_made`, `_connect_helper` |
| `RecvReady`, `RecvCall`, `RecvPark` | `recv`, `__anext__`, `park_receiver` |
| `PingCall`, `PingDone`, `PingRegister`, `PingWritten`, `PingWriteFails`, `RunCleanup` | `ping_waiter`, `PingCleanup` |
| `DataReceived`, `HandshakeIn`, `MessageIn`, `MessageRejected`, `PingIn`, `PongIn`, `OtherIn`, `DataEnd`, `FallBack` | `data_received`, `scan_frame_aligned`, `process_buffered_frames`, `handle_protocol_event` |
| `CloseIn`, `ProtocolErrorIn`, `FlushPop`, `CallbackReturn`, `FlushReturn`, `FlushApplyClose` | `begin_peer_close`, `begin_protocol_error`, `flush_pending_callbacks`, `apply_peer_close` |
| `Close`, `ConnectionLost`, `FlushLost` | `close`, `connection_lost` |

`pending_recv` is the set of receiver numbers: receivers are numbered as they
are parked, so the queue's order is the order of the numbers. Bytes are left to
`FrameStream`: here a read is a sequence of parsed frames. A read starts on an
empty stack, as asyncio's own transports deliver it. Under rustls an
`on_message` callback that calls `resume_reading()` is handed more plaintext
before it returns, and `data_received()` is re-entered; this module leaves that
out, and `RustlsShim` has the nesting of the deliveries, though not the client's
handlers inside it. `Unprobeable` are
receivers whose `done()` raises, `Rejecting` those whose `set_result()` raises,
`Modes` whether an `on_message` callback is installed.

### SendPath

`send()` has three ways to the socket: `native_send()` on the descriptor, the
transport's buffer, and `write_queue` while paused. The transport is an external
model of asyncio's selector socket transport: buffer, high-water and low-water
marks, `_force_close`, and `close()` that drains first. A byte is
`<<frame, position>>`, so that a short write really cuts a frame.
`resume_writing()` is a step per write because each write can pause the client
again. The module starts after the handshake, which `send()` requires.

### FrameEvents, FrameStream and FrameMeaning

`FrameEvents` says what frames mean, taking one whole frame at a time (`Take`):
the tests of `ProtocolCore::next_event` that fail the connection (`Refusal`),
the assembly of fragments (`Joined`, `NextEvent`), `decompress_message`
(`Delivers`) and the handshake response (`Answered`). `core` is the part of
`State` that `ProtocolCore` works on, with the events raised so far. A message is
the sequence of its frames' numbers.

`FrameStream` adds the bytes: a byte is its position in the stream, reads cut the
stream anywhere, and each turn of a parse loop is a step. `scan` is the parse in
progress: the loop of `walk_frames` over `scan.data`, or the drain of `buf` by
`process_buffered_frames`. Bytes that do not start a frame are read as `Garbage`,
so a parser that lost its place does not go unnoticed.

| Actions | Code |
|---|---|
| `Read` | `data_received`, `buffer_updated_impl` with its `next_frame_needed` gate |
| `WalkFrame`, `WalkClose`, `WalkStops`, `WalkFallback` | `walk_frames`, `scan_frame_aligned` and what `parse_recv_data` and `park_tail_and_drain` do with each `ScanOutcome` |
| `Handshake`, `DrainFrame`, `DrainStops` | `process_handshake`, `next_event`, `emit_protocol_events` |

No read happens while a loop runs, and what the peer sends during one is read
after it. After a rejected handshake the reads end: `connect()` raises and its
helper closes the transport.

`FrameMeaning` is the reading of the stream as one closed formula (`Expected`),
from the frames sent and the number of bytes received, without a parser or a
fragment buffer. It uses recursive sums and is for TLC only.

### RustlsShim and PlaintextPipe

A byte of plaintext is its position in the peer's stream, so order, loss and
repetition are visible. A stream is an upgrade response and frames laid end to
end; `need` is the number of bytes from which a frame's length is known, `fits`
whether `websocket_frame_len()` can represent it.

| State | Code |
|---|---|
| `shim` | `State`: `plaintext`, `plaintext_used`, `websocket_mode`, `frame_remaining`, `closing`, `read_paused`, `peer_closed`, `terminal_error`, `inner` |
| `tls`, `raw` | rustls and the asyncio transport, external |
| `client` | what `NativeClient` was handed |
| `calls` | the calls of `data_received()` and `resume_reading()` under way |
| `ended`, `threw` | history: why the connection began to end, whether a `resume_reading()` raised |

A call drains in passes: `DrainDelivers` hands on one chunk and calls out, then
`AppReturns` or `AppRaises`; the call ends by `CallReturns`, `PeerCloses` or
`PeerTruncates` (`finish_peer_close()`), or `DrainRaises`. Inside a delivery the
application may pause, resume (a nested drain), write or close. `LatePackets`
lets ciphertext arrive after a pause, which the tests of the repository do too
(`tests/test_tls_backends.py`). A packet is one append of everything that is
decrypted from it; when a later record of a packet does not fit, what its
earlier records appended is left out, for `fail()` sets `closing` and none of it
is ever delivered.

`PlaintextPipe` is the promise: bytes enter (`Enter`), leave in order and never
across the end of a frame (`Leave`), not while the pipe is shut (`Shut`,
`Open`); it ends (`End`) and drops what it holds (`Drop`). `ImplementsPipe` maps
`inbox` to the unused part of `plaintext`, `outbox` to what the client was
handed, `shut` to `read_paused`, `up` to `~closing`.

### AsyncClient

The actor, the channels, the waiting lists of tokio's channel and mutex, the
tasks that calls spawn, results on their way to the loop, and the borrow that a
call holds while it has released the GIL. When the drain of `close()` times out,
its task leaves the mutex's waiting list from whatever place it has there
(`CloseEnds`). Every way out of the actor's loop leads to the final
`sink.close().await` (`"finish"`), during which the channels are still open; they
go with the actor when it returns (`ActorEnds`).

### SyncClient

Time is counted in ticks. `sock` is `SO_RCVTIMEO` with `read_deadline` and
`enforce_read_deadline`; `call` is the call under way (PyO3 lets only one be).
`connect`, `recv`, `close`, `send` begin calls; `ReadInterrupted`, `ReadRaises`,
`ReadMore`, `ReadCompletes`, `ReadTimesOut`, `DeadlineExpires` are the outcomes
of one `SignalAwareTcpStream::read()`; `CloseWritten` and `CloseDrains` the two
ways of `close()`. After the peer's Close tungstenite's client reads on until the
peer ends the connection, so a later `recv()` still blocks under its timeout and
can only fail (`peer` in `ReadCompletes`). tungstenite and the kernel are
external.

### FixDecode

A step is one turn of `decode_frame()`'s loop, and the field is chosen as it is
read, so that every body is walked. A value is a class of byte strings that the
decoder treats alike. `Grammar` says which bodies are accepted without a cursor
or a loop. `Books` are decoded frames that go to `parse_kalshi_book()` directly.

### Invariants, MC modules, proof modules

`NativeClientInv` holds the inductive invariant of `NativeClient`; those of the
other modules are in their proof modules. The `MC` modules
instantiate for TLC. The operators commented as *slips* are plausible mistakes
in the definition that follows them; each property is known to fail under one of
them.

## Runs

| Run | Configuration | Checks |
|---|---|---|
| receive | `Receive.cfg` | order, loss, wakeups, retention with cancelled, swept and unprobeable receivers |
| callbacks | `Callbacks.cfg` | teardown from inside callbacks, rejected results, a nested close() |
| teardown | `Teardown.cfg` | reuse of payloads, re-entered `ping_waiter()`; closing, probes and `connect()` end |
| send_path | `SendPath.cfg` | order, wholeness, cache, pauses; frames leave |
| frame_stream | `FrameStream.cfg` | the parsers implement `FrameEvents`; events against the closed formula |
| rustls | `Rustls.cfg` | the shim implements the pipe; frame boundaries, pauses, bound, cause of a failure, wire order; a `close_notify` ends the connection |
| async_channels | `AsyncChannels.cfg` | order of sends through one-slot channels |
| async_teardown | `AsyncTeardown.cfg` | order and loss of messages; close(), recv() and dropped objects end |
| sync | `Sync.cfg` | timeouts and deadlines across interrupted reads |
| fix | `Fix.cfg` | the decoder against its grammar, books against their rules |
| async_close_full, rustls_resume | same names | disagreements, below |

All runs but the last two pass.

**Bounds.** *receive* has five receivers and a sweep threshold of two, so that
the queue is swept twice, the threshold doubles and falls back, and an
unprobeable receiver is met by a sweep and by a delivery; five frames let the
handshake be followed by four messages. *callbacks* goes three deep: a call
inside a call inside a handler. *teardown* has two probes on one payload (one
cancelled, or nested in the other's `done()`, while the second reuses its
payload) beside a receiver. *send_path* has two-byte frames and a two-byte
socket, so a write is full, partial or refused, and five frames are enough for
one on the socket, two in the buffer and two in the queue that a resume must
write across a new pause. *frame_stream* has three frames after the handshake (a
fragmented message with something between its pieces) and reads from one byte to
five, so that a read can hold three frames (281,093 states). *rustls* has three streams: three
frames of different header and body lengths, a frame whose length does not fit,
and an upgrade response that never ends. Reads of up to five bytes cut every
frame in every way, seven bytes may be held so that the bound is met with and
without consumed bytes in front, and four pauses with four calls on the stack
let three resumes nest in one read (38,159 states). *async_channels* has one
slot per channel, so that both are full at once, and four sends so that one can
overtake two that wait. *async_teardown* has two recvs, which compete with each
other and with the drain of close() for two messages and a message channel of
one slot. Its command channel has a slot for every command and the application
does not overlap its own close(): without these provisos `CloseCompletes` is
false, see below. *sync* has timeouts of two and
three ticks and twelve ticks of time, enough for a connection, two receives that
are interrupted twice each, and a close (11,344 states). *fix* has six headers,
four of them unfinished or of no group, up to six further fields of sixteen
kinds, and groups of at most two entries, so that a count is met, missed and
exceeded (411,711 states with the books).

**Deadlock** is not checked: every system here may stop, when the connection has
ended or the bounded inputs are used up.

**Fairness.** `NativeClient!FairSpec`: handlers and what they call run to
completion, nested or not; asyncio's ready queue is first in, first out, so a
scheduled `PingCleanup`, `connection_lost()` of a closing transport and the
helper's wakeup run, however much data comes in between (strong fairness: data
handlers disable them for a moment again and again). Nothing obliges the peer to
send or the application to call. `SendPath!FairSpec`: the loop polls the socket
and the peer reads. `RustlsShim!FairSpec`: the shim's calls run to their end,
the application's callbacks return, and a closing asyncio transport calls
`connection_lost()`; a closing transport reads nothing, so weak fairness is
enough. `AsyncClient!FairSpec`: tokio polls ready tasks, its timers fire,
`select!` picks its ready branches at random; the peer owes nothing but to let
the socket take what is written, the last flush of `sink.close()` included.

## Disagreements between code and documentation

Two are runs whose property TLC finds violated:

1. *async_close_full*: the tokio client's `close()` sends its command without a
   timeout; with both channels full it hangs. The changelog promises a
   ten-second timeout.
2. *rustls_resume*: `resume_reading()` clears `read_paused` and leaves by `?`
   when its drain raises, before the raw transport is resumed. The connection is
   then not paused, does not read, and a second `resume_reading()` returns at
   once. `ReadingAgrees` and `PeerCloseEnds` are stated up to such a raise
   (`threw`).

Others were met while choosing the scope of a property. Each can be reproduced
with the modules by the constants given; the passing runs and the proofs state
the proviso.

3. `recv()` parks its Future after `create_future()` without testing `closed`
   again, which `ping_waiter()` does (`client.rs:1052`). A loop whose
   `create_future()` closes the client leaves that Future pending for ever:
   `NoStranded` fails with `Reentry = {"recv"}`, `MaxRecv = 1`, `MaxEvents = 2`,
   `MaxDepth = 2`, no probes. The loops in common use do not re-enter there; the
   proofs assume it (`Stock`).
4. An exception from a receiver's `set_result()` leaves the frame-aligned scan
   by `?` (`client.rs:1491`) before the acknowledgments it holds are applied.
   These probes are in no registry any more and are never settled:
   `ProbesSettled` fails with `Rejecting = {1}`, one receiver, one probe and
   four events. Futures of the standard loop do not raise there (`Stock` again).
5. The `close()` task's `borrow_mut()` (`async_client.rs:506`) panics while
   another call holds the object with the GIL released; the future of `close()`
   then never completes: `CloseCompletes` fails with `Overlap = TRUE`,
   `CmdCap = 2`, one recv and no messages.
6. `finish_peer_close()` tells a truncated stream by the bytes that are left in
   `plaintext`. When the received part of a frame's body was already handed on,
   nothing is left, and a `close_notify` in the middle of that body counts as a
   clean close (`PeerCloses` is enabled with `frame_remaining` set).
   `PeerEndKeepsFrames` speaks of complete frames for that reason.
7. The sync client's `close()` writes its Close frame and returns; it reads only
   when the write fails. The README says that "`close_timeout` bounds the close
   handshake" (`README.md:191`), but there is no handshake to bound.
8. A comment at `client.rs:135-139` says the cache is set on `resume_writing`;
   the code clears it there, and `CacheSound` needs that it does.

## Proofs

### NativeClient

For every value of the constants that satisfies `BoundsAssumption`,
`FutureKindsAssumption` and `ModesAssumption`:

* `TypeCorrect`: `Spec => []TypeOK`.
* Under `Stock` (no receiver rejects its result, `create_future()` of `recv()`
  does not re-enter): `Inductive`, `Spec => []IInv`, and from it `NeverStranded`,
  `NothingLost`, `WakeupsKept`, `ServedInOrder`, `ProbesReachable`,
  `CallbacksFirst`, `CloseIsLast`, `TerminalStatesRelease` and
  `RetentionIsBounded`, one for each safety property the runs check.

None of these properties is inductive. `IInv` adds what the code relies on
without saying so:

* `StackShape`: parsing is never nested and only runs on an open client; a
  teardown in progress is the outermost call, and its transport is closing or
  will be closed by it.
* `ClosedEmpty`: a closed client's registries are empty. This is why a nested
  `close()` inside a teardown finds nothing left to fail twice.
* `WritingRegistered`, `ProbesNumbered`: a probe whose Ping is being written is
  registered under its payload, and later probes are still unused.
* `Released`, `Lifecycle`: the references go together, and a closed client's
  transport is closing once no handler is left to close it.
* `Stream`, `Served`: the message queues are consecutive runs of arrivals, and a
  served receiver is out of the queue.
* `CloseSubmitted`: a Close frame on the wire means that `closed` is set and that
  no protocol error is still to send one.

`NativeClientStack` says what each action does to the stack and to the variables
each conjunct reads, and proves the types and `StackShape`. `NativeClientQueues`
proves the conjuncts about Futures, messages and Close frames preserved, action
by action. `NativeClientProofs` adds `Released` and `Lifecycle` and puts them
together.

### SendPath

For every number and length of frames, water marks and socket sizes of
`SizesAssumption`: `Invariant`, `Spec => []SInv`, and from it `FramesInOrder`
(`SendOrder`), `FramesWhole` (`WholeFrames`), `ControlInOrder`
(`ControlNotBypassed`), `CacheIsSound`, `PausesAgree` and `TypeCorrect`. `SInv`
speaks of `Stream`, the bytes on the socket followed by those in the transport's
buffer, and of `Waiting`, the frames in `resume_writing()`'s hands followed by
`write_queue`:

* `OrderedIn`: `Stream` is in order up to control frames that passed data frames,
  and everything that waits was submitted after every data frame of `Stream`. It
  is why a send that finds nothing waiting may go to the socket.
* `CompleteIn`: every frame is whole in `Stream` or waits, as long as the client
  is open and nothing was discarded.
* `WholeIn`: `Stream`, not only what is on the socket, is uncut and ends with the
  end of a frame; this makes the tail of a short `native_send()` land behind its
  head.
* `Fit`: cache, pause flags and buffer agree, with `resume_writing()` between any
  two of its writes; a lost transport holds nothing.

Every action either leaves `Stream` alone, or lengthens it by one frame, or moves
the line between socket and buffer; the four conjuncts are proved for these three
kinds of steps, and each action is shown to be of one kind.

### AsyncClient

For all capacities of `CapacityAssumption` and any number of calls and messages:
`Invariant`, `Spec => []AInv`, and from it `MessagesKeepOrder`
(`MessagesInOrder`), `TimeoutsLoseNothing` (`OnlyCancellationLoses`),
`SendsKeepOrder` (`AwaitedSendsInOrder`) and `TypeCorrect`. `AInv` is

* `MsgBook`: what callers took, the message channel and the actor's hands form
  one line that counts the peer's messages without gap or repetition; it ends
  with the last one while the object has its receiver, or the actor is still in
  its loop.
* `RecvBook`: each lost message is paid for by a recv() that was cancelled *and*
  whose task has ended (`Finished`), so that no cancelled call can lose two. It
  needs `Queued`: which task holds the mutex, and that none waits twice.
* `SendBook`: the wire, the actor's hands, the command channel and the tasks
  waiting for a slot are one line in which no command stands behind one that was
  called after it had completed.
* `NotClosed`: before `close()` takes the receiver out of the object, no Close
  command is anywhere.

### FrameEvents and FrameStream

For all formats of frames (`FormatAssumption`: a header has at least one byte),
limits and sizes of reads:

* `EventsDeliver`: `FrameEvents` delivers every message whole, in order and
  without a gap up to the frame that ends the connection (`MessagesAsSent`), and
  answers every Ping and acknowledges every Pong once and in order
  (`ControlsAsSent`). Its invariant `EInv` says that the open fragment is the
  message in progress (`Assembling`): its frames belong together, none was final,
  and no data frame followed its last one.
* `Invariant`, `Spec => []FInv`, and from it the refinement
  `ReadsImplementEvents`, `Spec => EventsSpec`: `WalkFrame`, `WalkClose`,
  `Handshake` and `DrainFrame` each take the next frame, `PeerFrame` sends one,
  and all other steps are invisible. `ReadsDeliver` and `ReadsAnswer` carry the
  two properties over.
* `ParkedOnce`, `FragmentsBounded`, and `NoFrameWaits`: between reads a frame has
  been taken exactly when it has arrived.

`FInv` says where the unparsed bytes are (`Places`: one of the scanned window,
`recv_buf` and `buf`) and that they start with the next frame and end with the
last byte received (`Position`); that an idle parser has no complete frame in
front of it (`Waits`), and that `next_frame_needed` is exactly the length of the
next frame (`Hint`), which is why skipping the parse delays nothing.

### RustlsShim

For all streams that satisfy `StreamsAssumption` (frames lie end to end behind
the upgrade response) and all bounds of `BoundsAssumption`, whatever the number
of pauses and the depth of nested calls: `ShimInductive`, `Spec => []RInv`, and
from it one theorem for each safety property of run *rustls* (`ShimRemaining`,
`ShimReading`, `ShimPeerEnd`, `ShimCause`, `ShimBounded`, `ShimWire`), two that
only the proof states (`ShimTyped`: the slices of `drain_plaintext()` are in
range; `ShimConserves`: delivered and held bytes are exactly those that
arrived), and the refinement `ShimRefinesPipe`.

`RInv` adds to the properties:

* `InOrder`: `plaintext` is the end of what arrived, consumed bytes included, and
  what was delivered is a prefix. From it follows that delivered, consumed and
  held bytes meet without gap or overlap after every compaction.
* `LifeOK`: a closing shim has a closing transport; before `connection_made()`
  nothing has happened; `connection_lost()` leaves nothing held.
* `StackOK`: only the outermost call can be `data_received()`. All others are
  resumes nested in deliveries, which is why one `data_received()` never appends
  under another's drain.
* `ReadOK`: a transport that does not read is paused or a resume is on the stack
  that will turn it on; one that reads, with no `data_received()` under way,
  holds no complete frame. The last part is what `PeerEndKeepsFrames` needs when
  end of file closes the transport: there is nothing left to deliver.
* `FailOK`, `WriteOK`: a failure keeps its cause until it is reported, and no
  `close_notify` is written before `closing`.

The refinement takes each action to a step of the pipe or to a stutter:
`data_received` to `Enter`, `DrainDelivers` to `Leave`, `pause_reading` and
`resume_reading` to `Shut` and `Open`, `close`, `fail()` and the peer's close to
`End`, `connection_lost` to `Drop`. `Leave` may not cross a frame's end: this is
where `RemainingAgrees` is used, for only a right `frame_remaining` tells where
the frame under delivery ends.

### SyncClient

For all timeouts that satisfy `TimeoutsAssumption` and behaviours of any length:
`SyncInductive`, `Spec => []SInv`, and from it `IdleAlwaysRestored`,
`NoEarlyTimeout` and `InterruptsBounded`, one for each property of run *sync*.
The last two are action properties. `SInv` says, call by call, which timeout and
which deadline the socket has (`SockOK`): the deadline is always the begun
call's, and as long as it is not enforced the timeout is the call's own. It also
says that the deadline is enforced exactly from the first interrupt on
(`IntrOK`).

### Only model-checked

The liveness properties: fairness and ENABLED are out of the provers' reach.
`EventsAsSent`, the closed formula of `FrameMeaning`: it adds to the theorems
above the code with which each refused frame ends the connection, from sums over
all pieces of a message, and what a recursive sum or `SelectSeq` yields for every
input needs an induction over data that the provers cannot do. `FixDecode`:
`require_standard_header_field()` is a recursive operator there, with the same
difficulty.

## Not modelled

* Native client: masking, UTF-8, deflate and header bytes; close codes and
  reasons; the `WSMessage` buffer interface and its memory ownership; the
  handshake's header rules (one accepted or rejected choice); free-threaded
  builds (the client is thread-affine). These are byte-level conversions, or
  memory rules that the type system enforces.
* `connect()`: URI parsing, proxy selection, the SOCKS5 dialogue and the choice
  of TLS back end. This is argument checking and sequential I/O without shared
  state.
* rustls shim: loading certificates in `new()`, `get_extra_info()`,
  `get_write_buffer_size()`, and the forwarding of `pause_writing()` and
  `resume_writing()`, whose other side is in `SendPath`. The inside of rustls is
  external: which bytes it decrypts, when its handshake ends and when it fails
  are choices.
* tokio client: connecting, and the property getters.
* sync client: addresses, subprotocols, close codes, payload ownership, blocking
  writes (a write returns at once). A handshake read that times out reaches the
  caller as a `ConnectionError`; the model calls it a timeout.
* FIX decoder: BodyLength, trailer and checksum are one passed or failed choice;
  conversions to Python objects are left out.
* Benchmark servers, module registration and the Python re-exports have no state
  of the library.

## Plan

1. `FixDecode`: the header check as steps of its cursor, and an inductive
   invariant that relates the cursor and the slices to the grammar.
2. `Delivery`, an abstract specification of a message queue with cancellable
   receivers, implemented by `NativeClient` and, up to its cancelled receivers,
   by `AsyncClient`.
