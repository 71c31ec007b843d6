# TLA+ specifications of the Greengrass component SDK

This directory holds TLA+ models of `aws-greengrass-sdk-lite`, the TLC
configurations that check them, and proofs checked by TLAPS. `PROJECT.json`
lists the runs, the source lines behind every definition, the hazards of the
code, the findings and the theorems.

## 1. The system

The SDK connects a component to the Greengrass nucleus over a Unix socket and
speaks GG-IPC, which is RPC over event-stream packets. An application makes
calls and subscriptions from its own threads. One receive thread per process
reads packets and runs the user's callbacks.

| Part | State | Operations | Interacts with |
|---|---|---|---|
| IPC client, `src/ipc/client.c` | table of `GG_IPC_MAX_STREAMS` slots (stream id, generation, handler), `next_stream_id`, recursive `stream_state_mtx`, one `ResponseHandlerCtx` on the stack of each waiting thread | `ggipc_call`, `ggipc_subscribe`, `ggipc_close_subscription`, `dispatch_incoming_packet` | application threads, the receive thread, user callbacks (with the mutex held), the server |
| Connection and start-up, `client.c`, `socket.c`, `socket_epoll.c`, `init.c` | `ipc_conn_fd`, `epoll_fd`, static `ipc_recv_mem` and `ipc_send_mem` | `gg_sdk_init`, `ggipc_connect*`, `gg_connect`, the epoll loop | receive thread (epoll, process exit), calls (send buffer) |
| IPC commands, `src/ipc/client/*.c` | static base64 buffer and its mutex | publish, subscribe, get and update config, update state, restart | `ggipc_call`, `ggipc_subscribe` |
| Event-stream framing, `src/eventstream/*`, `crc32.c` | none, works on a buffer | encode, decode, header iteration, common headers | readers, static buffers |
| Byte streams, `file.c`, `socket.c` | descriptors | read and write loops, timeouts, file helpers | kernel |
| Memory, `arena.c`, `vector.c`, `buffer.c` | arena index, vector length | allocate, resize, claim, push, append, buffer slicing | everything that decodes |
| Objects and codecs, `object*.c`, `map*.c`, `list.c`, `json_*.c`, `base64.c` | fixed visit stack, parser position | visit, validate, encode, decode | arena, IPC payloads |
| Backoff, `backoff.c`, `sleep.c`, `rand.c` | current maximum delay | `gg_backoff` | callers that retry |
| C++ wrapper, `cpp/` | `Subscription` owns a handle | RAII close, callback trampolines | C API |
| Rust bindings, `rust/` | `INIT`, `CONNECTED` flags, boxed closures | `Sdk::connect`, `subscribe_*`, `Subscription` drop | C API |
| Logging, errors, math; mock server, tests, samples | - | - | - |

What is hard here:

* **Concurrency.** Application threads, the receive thread and callbacks meet in
  the slot table. The receive thread writes through a pointer into another
  thread's stack frame. The packet is read before the mutex is taken. The
  connection is registered with epoll before it is published.
* **Timeouts.** A wait that has reached its deadline still has to lock the mutex
  again, and in between the receive thread may handle its response and another
  thread may take over its slot.
* **Reuse.** Slots, generations and handles are reused, and closes may be late
  or repeated.
* **Failure.** Every step of a connect or of a subscribe can fail, and the slot,
  the socket and the callback context have to be given up exactly once.
* **Two mutexes.** Publishing holds one mutex while it waits for the other.

* **Memory in place.** Arenas are resized under live blocks, JSON strings and
  base64 are decoded in the buffer that is being read, maps are pruned in the
  array that is being walked, and objects are claimed into an arena piece by
  piece.
* **Shared static buffers.** Packets, base64 payloads and path components each go
  through one buffer per process.
* **Ownership in the bindings.** A C handle is a number; the C++ and Rust objects
  decide who closes it, and callbacks get a copy.

What makes each part correct is stated as properties (section 4).

## 2. Modules

| Module | Role |
|---|---|
| `IpcClient` | the slot table, calls, subscriptions, closes, the receive thread and callbacks |
| `IpcClientProperties` | what the client guarantees, and fairness |
| `IpcStreamService` | what the client promises about each stream, without slots, generations and threads |
| `IpcClientProofs`, `IpcClientCallbackProofs`, `IpcClientHandleProofs` | TLAPS proofs for `IpcClient`: frames and ids; callbacks; slots, handles and the refinement of `IpcStreamService` |
| `IpcConnect` | start-up, connect with its error paths, shared packet buffers, the Rust guard |
| `IpcConnectProofs` | TLAPS proofs for `IpcConnect` |
| `IpcPublish` | the base64 buffer and its mutex together with the stream mutex, with a short proof |
| `PacketChannel` | what one direction of a connection promises |
| `EventStream` | the same direction byte by byte: framing, partial reads and writes, timeouts |
| `EventStreamProofs` | TLAPS proofs for `EventStream`, with its refinement of `PacketChannel` |
| `EventHeaders` | headers of a packet: encoding, the walk that validates, the walk that reads, the common headers |
| `Arena` | bump allocation with resizing of the last block |
| `Objects`, `ObjectValues` | objects, maps and lists: lookup and validation; canonical form and memory use |
| `JsonEncode`, `JsonDecode` | text of scalars; the parser combinators, the grammar and the decoder |
| `ObjectVisit` | `gg_obj_visit` and the functions that are sets of handlers for it |
| `ObjectProperties` | what these promise, against reference definitions: nesting, canonical form, the meaning of a JSON text |
| `Base64`, `Base64Calls` | base64 both ways, and calls of it |
| `Backoff` | retries with a growing random delay |
| `Files` | opening, creating and reading paths component by component |
| `LibraryProofs` | TLAPS proofs for `Arena`, `Backoff`, `Files` and `EventHeaders` |
| `ConfigCommands` | get and update of configuration, restart, state, in C, C++ and Rust, with the server's store |
| `PubSub` | publish and the three kinds of subscription events |
| `Subscriptions` | the owner of a subscription in C++ and Rust |
| `BindingsProofs` | TLAPS proofs for `Base64Calls`, `PubSub` and `Subscriptions` |
| `MCIpcClient`, `MCIpcConnect`, `MCEventStream`, `MCLibrary`, `MCBindings` | instances for TLC; the last two put parts side by side that do not share state |

Operators named `..._Something` after a definition and marked *Mutant* are
faulty versions of it. They are used only to show that a property can fail, by
putting them in the place of the definition (`mutants` in `PROJECT.json`).

### IpcClient

An action is one critical section of `stream_state_mtx`, or one step outside
it. The mutex is a variable, because two sections are not a single step: a
thread that sends holds it from `SubscribeClaim` to `SubscribeSend` or
`SubscribeSendFail`, and the receive thread holds it while a user callback runs,
from `DispatchResponseCall` or `DispatchEventCall` to `ResponseReturn` or
`EventReturn`. In between, a callback may close any handle (`CallbackClose`, the
mutex is recursive) or try to call (`CallbackSubscribe`, refused).

| Code | Model |
|---|---|
| `stream_state_id`, `_generation`, `_handler`, `next_stream_id` | variables of the same names |
| `ResponseHandlerCtx` and the locals of `ggipc_subscribe` | `frame[t]`; a handler's `ctx` names the thread whose frame it points to |
| `pthread_cond_timedwait` | `SubscribeSend` releases the mutex; `SubscribeWake` returns with `ready`; `SubscribeExpire` is the deadline, `SubscribeTimedOut` the later return with the mutex |
| `eventsteam_get_packet` | `ReadPacket` picks any stream id; the rest of the packet is picked when the dispatch looks at it |
| JSON, headers, error schema | the classes of `Messages`: what the dispatch tells apart |
| a handle, 32 bits | the low half and the generation, plus the stream id it was issued for, which is not in the code and used only by properties |

The server is arbitrary: any stream id, any type, any flag, any time, any
number of times. `outcome`, `answered`, `ended` and `closed` are history
variables.

The application closes handles that it was given: by a subscribe that succeeded
or by a subscription callback. (`ggipc_subscribe` writes the handle before it
sends, also when it fails later; a program that uses it then is outside the
model.) Failures of the send in `ggipc_close_subscription` are ignored by the
code and change nothing.

### IpcStreamService

A stream is new, pending, open or ended; its caller is told once what became of
it; a subscription callback runs or does not; threads close streams. The client
implements it (`IsStreamService`): a stream is new until its id is given out,
pending while a slot has it with a NULL handler, open while a slot has it with a
callback, and ended otherwise (`Phases` in `IpcClientProperties`). What the
client may do beyond that is explicit: `Fail` with `TIMEOUT` may end one other
stream (finding 1).

### IpcConnect

One action per step of `ggipc_connect_with_payload` and one per group of error
returns. `guard` says what keeps two connects apart: the `CONNECTED` flag of the
Rust bindings, the program itself, or nothing. Sockets are numbered by the order
of their opening. `inbox` is what a reader finds in a socket. A call is reduced
to its use of the send buffer. The server is external: it acks, answers, sends
unasked packets, hangs, or closes.

`gg_connect` is three steps: `ConnectOpen` creates the socket and enters
connect(2); the server's `ServerAccept` or `ServerRefuse` ends that call, or
nothing does; and only then `ConnectTimeouts` limits the time of later sends and
receives.

### IpcPublish

`ggipc_publish_to_topic_binary` and `ggipc_publish_to_iot_core` with their
static buffer. The call underneath is the one of `IpcClient`, without the slot
table: it needs the stream mutex to send, to wake and to time out. Callbacks may
publish too.

### EventStream and PacketChannel

`PacketChannel` says: packets arrive whole, in order, at most once; the channel
may be cut without the senders being told, and nothing sent after the cut
arrives. `EventStream` is the code below `ipc_send_packet` and
`eventsteam_get_packet`. It implements `PacketChannel`: the variables `sent`,
`received` and `cut` are history variables with the same names, so the mapping is
the identity on them. A packet is sent when its last byte is written, and the
channel is cut when a write fails, or the process ends, with part of a packet
written.

| Code | Model |
|---|---|
| bytes, checksums | a byte is (packet, index); a checksum matches the bytes of one packet in order and nothing else |
| `ipc_send_mem` | `send_mem`: which packet it holds |
| `gg_file_write`, `gg_file_read` | `Write`, `Read`: any number of bytes at a time, within what is left and what the socket holds |
| `SO_SNDTIMEO`, `SO_RCVTIMEO` | `WriteFail` with the socket full, `ReadTimeout` in the middle of a packet |
| prelude 12 bytes, checksum 4 | `PreludeLen`, `CrcLen` |
| length checks, `count_headers` | `form` of a packet: good, lengths that do not fit together, headers that cannot be walked |

The other end is assumed to frame with the same code, as the mock server does;
its buffer may have another size, and it may stop reading at any time (`Hang`).

### EventHeaders

`count_headers` checks every length before it steps over a header;
`eventstream_header_next` reads the same bytes again without a check. Both walk
over a sequence of bytes, and what lies outside reads as -1. An integer has
`IntBytes` bytes, a name is at most as long as a byte says. A loop is a function
from turns to what there is after them (`CountTurns`, `Positions`,
`EncodeTurns`). `HeaderListsAssumption` says that a list that is encoded has
names and strings whose lengths can be written, and each name once, as the lists
of the callers of `eventstream_encode` do.

### Arena, Objects, ObjectVisit

`Arena` keeps the index of the code, and as history the blocks that were handed
out. A caller may try to resize any of them and pass any old size, as nothing in
the code ties that argument to the block. `arena.h` asks for the most recent
allocation and for its size. `newest` is that allocation, and `misused` is set by a
resize that broke both rules and still passed the check at `arena.c:83`.

An object is a record with its type and value. `at` says whether its memory is
inside the arena of the claim, outside, or NULL, which is what `gg_arena_owns`
tells apart. `SizeofObject` and `SizeofKV` are the sizes that count against the
arena. How an object is packed into nine bytes is left out.

A turn of the loop of `gg_obj_visit` is an action: a scalar, entering a list or
map, going to the next element, leaving. `levels` is the fixed stack. `handlers`
says which function runs the visit: the two claims, the measuring of memory, the
canonical form and its check, and JSON encoding; `ctx` is what they accumulate.

### JsonEncode and JsonDecode

The parser is an interpreter over combinators as in the code, and the grammar is
the same tree of combinators. `ParseResult` is kept, also what an alternative
that fails leaves in it. Texts are sequences of bytes, because unescaping
happens in the text that is still being parsed (`Overwrite`, `Reread`).
Integers have `IntMax` as their largest value, and the overflow checks are those
of the code. A float is its text without trailing zeros: `strtod` and the printing
of numbers are external. `strtod` gets no length, so the memory in which a text is
decoded has one more byte (`Beyond`), which it reads too if that continues the
number. A double reaches the powers of ten from -`FloatExp` to `FloatExp`; beyond
them `strtod` reports ERANGE and the decoder returns `GG_ERR_RANGE`. `EncodedLen`
is the size of the buffer in `json_encode_on_i64`.

### Backoff

The caller chooses the base, the maximum and the attempts freely. Only a base of
zero is refused. With a maximum of zero the window is empty from the second delay
on; the modulo is then undefined, and the model lets it trap or return any number
(`Modulo`). `UintMax` is the largest 32-bit number.

### Files

A path is the sequence of what stands between its slashes. Two threads share
`comp_buf` under `comp_mtx`. An action is one system call or one turn of the
loop of `gg_dir_openat`. Every call may fail, and another process may make or
remove a directory at any time. A file that is opened with `O_CREAT` has its
directories made too, as in the code.

Descriptors are numbers. `fds` has those that a call has opened and not closed,
and `local` the variables of its functions that hold one: the base, `cur_fd` and
its cleanup in `gg_dir_openat`, `parent_fd` in `gg_mkdirat`, the directory in
`gg_file_openat`, and the result. `Cleanups` says which of them a `GG_CLEANUP` in
scope closes at a return, and the swap of `cur_fd` (`DirOpened`) assigns both
variables. Every step says which descriptors it passes to system calls, opens and
closes (`SystemCalls`); `ebadf` records a use or a close of one that is not open.

`NoName` is the empty component, which the walk skips. `Names` relates what is
opened to the path that was asked for: the names are the components that are not
empty, in their order. `Excused` lists the reasons for which an open that creates
may fail. The assumptions say what a path is (it names something below the base;
the other paths are those of `OpenRoot`) and that other processes leave the base
alone.

### ConfigCommands, PubSub, Subscriptions

`ConfigCommands` has the nucleus's store as a map (external) and the rules by
which three clients put a value under a path and take it out again. A command is
sent, answered and handled; another component may change the store in between.
Maps from the server may have any form (`BadAnswers`).

`PubSub` follows a payload from a publish through the server (external) to a
callback. `Text` and `Map` build what `GG_MAP` and `gg_obj_buf` build. The server
also sends `BadEvents`. `TopicForm`, `IotForm` and `ConfigForm` say what an event
of each stream looks like, and `BadEventAssumption` that the bad ones do not: the
handlers have to find that out with their schemas.

`Subscriptions` has C++ variables, which are moved, swapped, reset, released and
closed, and Rust variables, which are assigned and dropped. A callback runs with
the stream lock held, so a close on another thread waits for it. The comparison
in `operator=` is the one the compiler finds: there is no `operator==`, so both
sides become `bool`, and moving one held subscription onto another does nothing.
Callbacks may close what they are given, keep it, or throw.

## 3. Runs

| Run | Constants | Shows |
|---|---|---|
| `client_timeouts` | 2 threads, 2 slots, 2 calls, 2 expiries | types, `FrameSafety`, `DistinctStreamIds`, `EventsReachTheirSubscription`, `ResponseAtMostOnce`, `PromptSubscriptionStaysOpen`, and `CallsReturn` under fairness |
| `client_reuse` | 2 threads, 1 slot, 3 calls, 1 expiry | `NoSlotLeak`, `QuiescentAfterClose`, `NoOrphanSubscription`, `HandlesNotReused`, `WaitersKeepTheirSlot`, `IsStreamService` (refinement) |
| `client_slot_stolen` | 2 threads, 1 slot, 2 calls, 1 expiry | **violation** of `SubscriptionStaysOpen` |
| `connect_guarded` | 2 threads, 3 sockets, Rust guard or careful caller | `RecvBufferExclusive`, `SendBufferExclusive`, `NoSpuriousExit`, `NoSocketLeak`, `ConnectReturns` |
| `connect_threads` | 2 threads, no guard | **violation** of `RecvBufferExclusive` |
| `connect_retry` | Rust guard | **violation** of `RefusedOnlyWhenBusy` |
| `publish_threads` | 2 threads | `PayloadsIntact`; `PublishReturns` when no callback publishes |
| `publish_callbacks` | 2 threads | **violation** of `CallbackPublishReturns` |
| `stream_bytes` | 2 threads, 3 sends, packets of 3 to 8 bytes, socket of 3 bytes | `IsPacketChannel` (refinement), `ParseErrorsHaveACause`, `RecvMemInBounds`, `SentIsReceived`, `SendReturns` |
| `library` | see below | `ArenaSafe`, `ClaimIsComplete`, `VisitLimitsExact`, `CanonicalKeepsFirst`, `JsonRoundTrip`, `JsonMeaning`, `Base64Exact`, `FullJitter`, `HeadersAgree`, `OpensNamedPath`, `NoDescriptorLeak`, `CreateSucceeds` |
| `json_integers` | `library`, with integers as long as the buffer for them | **violation** of `JsonRoundTrip` |
| `bindings` | 2 keys in a path, 2 subscribers, 2 C++ and 1 Rust variable, 4 subscriptions | `ConfigReadBack`, `PayloadDelivered`, `SubscriptionOwned` |

Why the bounds are enough:

* Two application threads and the receive thread give every pairwise race; a
  third thread could only repeat the part of the second. Two slots let two
  waiters, or a waiter and a subscription, coexist. One slot with three calls
  makes every call reuse the slot of the one before, which is where generations
  and stale handles matter.
* `MaxExpiries` bounds the deadlines that pass. In `client_timeouts` it equals
  the number of calls, so that every call may time out. That is also what the
  fairness of `SubscribeExpire` needs: with fewer, a call whose deadline may no
  longer pass could wait for ever.
* `GenMod` is the real 2^16; no run wraps a generation around.
* `MaxCalls` bounds stream ids, which in the code end at 2^31 - 1.
* Three sockets allow two failed attempts and a connection.
* In `stream_bytes` the prelude has 2 bytes and the checksum 1, so that a packet
  can be torn in the prelude, between the sections and in the data. Three sends
  allow a packet in front of a torn one and one behind it. The socket is smaller
  than most packets, and the packets include one too long for each buffer.

* In `library` an arena has 6 bytes and three blocks, enough for a block that is
  not the last and one that is, with padding between, and for an older block that
  is resized with a stale size. Objects go one level
  beyond `MaxDepth` and above `MaxSubobjects`, have duplicate keys two and three
  times, and lie inside and outside the arena; the arena of a claim has no room,
  some, or enough. JSON texts are all short sequences of tokens, bare and inside
  brackets and braces, all numbers of four characters, and pairs of strings with
  every kind of escape. A text is followed by a NUL or by a digit. `IntMax` is 127
  and `FloatExp` 3, so that the numbers around the limits are short. `UintMax` is
  15: the doubling of the window meets maxima that are zero, odd, even, below the
  base, and the largest number. Header bytes are all sequences of six bytes over a
  set that holds both types and lengths that do and do not fit. Two threads open
  six paths of one to three components, with empty and too long ones, so that two
  walks meet in a component and a walk swaps its descriptor before it fails or
  ends; another process makes and removes the directory that most of them go
  through. The threads are symmetric.
* `json_integers` has a buffer of 3 bytes for integers up to 127, as the code has
  19 for integers up to 2^63 - 1; `library` uses integers that are shorter.
* In `bindings` paths go up to two keys more than the limit. Two changes allow an
  update and one by another component around a get. Two C++ variables and four
  subscriptions allow every move, swap and assignment between empty and held ones
  and a replacement of each.

`CHECK_DEADLOCK FALSE` appears in the two `IpcPublish` runs, where the system
does stop, which is what `publish_callbacks` shows as a violated property, and in
`stream_bytes`, which ends when all sends are done or the connection is closed;
there the liveness properties say that nobody is left waiting.

### Fairness

Nothing is assumed of the server or of when the application calls.

* Strong fairness of the steps that lock a mutex: a mutex that is released again
  and again is eventually obtained. Weak fairness would not do, for the lock is
  not free continuously. POSIX does not promise this, but the holders are few and
  do not spin.
* Weak fairness of `SubscribeExpire` and `CallExpire`: the monotonic clock
  reaches the deadline.
* Weak fairness of the send: `SO_SNDTIMEO` bounds it (`socket.c`).
* Weak fairness of `CallbackReturn`: a user callback that is not blocked returns.
* In `EventStream`: strong fairness of the mutex as above, weak fairness of a
  thread that holds it and of a receiver that does not hang, with the socket
  timeouts among their steps. Nothing makes a hung receiver go on.
* `ConnectReturns` needs only that a connecting thread is scheduled: the timeouts
  of the socket end the send and the wait for the ack. Nothing is assumed of
  `ServerAccept` and `ServerRefuse`, so connect(2) may block for ever, and the
  property is about a connect that has come past it.

## 4. Properties

* `FrameSafety`: each handler with a NULL function points to the frame of a call
  that has not returned, that claimed this slot under this stream id and has no
  response yet; the pointer that the receive thread holds across a response
  callback does too.
* `DistinctStreamIds`: the first slot that matches a stream id is the only one.
* `EventsReachTheirSubscription`, `ResponseAtMostOnce`: routing, and no second
  response.
* `QuiescentAfterClose`, `NoOrphanSubscription`: after a close by a thread, and
  after a failed subscribe, the callback neither runs nor can be started, so its
  context may be freed.
* `NoSlotLeak`: every slot in use has an owner.
* `HandlesNotReused`: a handle that validates names its own subscription.
* `SubscriptionStaysOpen`: an open subscription has its slot until it is closed,
  ended or fails. It is violated; as long as no deadline has passed it holds
  (`PromptSubscriptionStaysOpen`), and so does `WaitersKeepTheirSlot`.
* `IsStreamService`: the client implements `IpcStreamService`. Seen from outside,
  slots that are reused, late closes, stale handles and closes from callbacks do
  not show: callbacks run only between acceptance and end, an end is for good,
  and a caller that is told of an error has no stream left.
* `CallsReturn`, `ConnectReturns`, `PublishReturns`: liveness. `ConnectReturns` starts
  when connect(2) has returned; from the start of the connect it would not hold.
* `RecvBufferExclusive`, `SendBufferExclusive`: the static packet buffers have
  one user at a time.
* `NoSpuriousExit`: the process ends only after a fault of the server or the
  system. A packet that nobody asked for, sent between the registration with
  epoll and the publication of the connection, does end it, and counts as a
  fault of the server.
* `NoSocketLeak`: every open or registered socket has an owner.
* `PayloadsIntact`: a packet carries the payload of its own publish.
* `IsPacketChannel`: the byte stream implements `PacketChannel`, even though a
  connection stays in use after a send was torn.
* `ParseErrorsHaveACause`: without torn or badly built packets the receiver never
  fails to parse, so the sends of several threads do not mix and both ends agree
  on where packets end.
* `RecvMemInBounds`: the receive buffer is not overrun.
* `SentIsReceived`, `SendReturns`: a packet sent is received or the receiver
  reports an error, and a send returns although the other end has stopped.

* `ArenaSafe`: the index is within the capacity, and blocks are inside the arena
  and aligned, whatever is resized with whatever old size. They are below the index
  and disjoint as long as no resize was `misused`. So a stale size for the last
  block, and an older block with its own size, are refused whenever they matter;
  an older block with a stale size that reaches the index is accepted (two bytes of
  a block of four are given back, a block of two follows, and the first is resized
  as one of four), and overlaps the other. `arena.h:52` forbids that call.
* `ClaimIsComplete`: a claim that succeeds leaves the same value with no pointer
  out of the arena, and one that fails leaves the same value too; it uses at most
  the memory that `gg_obj_mem_usage` reports, and fails only if that is more than
  there is.
* `VisitLimitsExact`: a visit fails for an object's size or depth exactly when
  the recursive definition says it is too large or too deep.
* `CanonicalKeepsFirst`: the canonical form is sorted and keeps the first of each
  key, and the check accepts exactly the fixed points.
* `JsonRoundTrip`, `JsonMeaning`: what is encoded decodes to the same value;
  decoding accepts exactly the texts with a meaning, which is defined without
  reference to the parser and has integers and floats in range, and returns that
  meaning. A text that is only a float, with a digit behind it in memory, is
  excepted, because `strtod` reads that digit too.
* `Base64Exact`: decoding in place accepts exactly the texts that encoding
  produces and inverts it.
* `FullJitter`: the first delay is below the base, whatever the maximum, and the
  n-th below the base doubled n - 1 times, capped at the maximum, except that with
  a maximum of zero the window is empty from the second delay on; the number of
  attempts is exact, and only a base of zero is refused.
* `HeadersAgree`: the unchecked walk stays inside what the checked walk accepted
  and yields headers whose encoding is exactly those bytes; what is encoded is
  accepted and read back.
* `OpensNamedPath`, `NoDescriptorLeak`, `CreateSucceeds`: the file that is opened
  is the one that was named; a call uses and closes only descriptors that it has
  open and keeps none but its result, wherever it fails; and threads that create
  the same directories do not fail each other.
* `ConfigReadBack`: a path means the same to update and get in all three
  languages. A map with a single scalar under the last key of the path cannot be
  told from a scalar in the server's answer and is read as the scalar; the
  property allows that.
* `PayloadDelivered`: a callback hears exactly what was published, and no event
  of another form reaches it.
* `SubscriptionOwned`: an open subscription has an owner, and no other variable
  closes it.

## 5. Findings

1. **A timed-out call clears a slot that is not its own**
   (`client_slot_stolen`, `client.c:612`). If the response is handled between the
   deadline and the return of the wait, the slot may already belong to another
   call or subscription, which then silently loses its stream.
   The call itself reports a timeout although its result callback has run.
   Looking at `ready` before giving up would remove both.
2. **`ggipc_connect_with_token` is called thread-safe but shares static buffers**
   (`connect_threads`).
3. **The Rust guard stays set after a failed connect** (`connect_retry`).
4. **Publishing from a subscription callback can deadlock instead of being
   refused** (`publish_callbacks`).
5. **Long integers are not encoded in JSON** (`json_integers`,
   `json_encode.c:32`). The buffer has 19 bytes, for a sign, 19 digits and a NUL.
   From 10^18 on the last digit is written as NUL and no error is returned; with
   20 characters the encoding fails.

Seen on the way, without a run of their own:

* `operator=` of the C++ `Subscription` does nothing if both sides hold a
  subscription (`subscription.hpp:45`), while the comment at `:37` promises that
  a moved one is empty.
* `//name` cannot be opened as a file although it can as a directory: its
  directory part is empty (`file.c:191`). `CreateSucceeds` lists the case.
* A C++ get accepts 15 keys, C and Rust 14; an update of a scalar takes 15, for
  the last key becomes part of the value.
* A directory that another process creates between the failed open and the
  `mkdirat` makes the open fail (`file.c:122`).
* `gg_map_get_path` leaves its result unset on failure, while `map.h:32` says it
  is set to NULL; nothing calls it.
* `gg_connect` sets the timeouts that the comment at `socket.c:58` introduces "To
  prevent deadlocking on hanged server" after connect(2) at `:48`, which blocks
  without limit while the backlog of a server that does not accept is full. The
  model lets it; `ConnectReturns` says nothing of it.
* `strtod` is given the number without its length (`json_decode.c:670`). If the text
  is nothing but a float, digits that follow it in memory change its value.
  `JsonMeaning` excepts that. The payloads of the client have to be maps, in which
  a float is followed by a byte of the text.
* `gg_backoff` with a maximum of zero divides by zero at the second delay
  (`backoff.c:65`), as `FullJitter` states.
* `gg_arena_resize_last` accepts an older block with a stale size that reaches the
  index (`arena.c:83`), as `ArenaSafe` states.

## 6. Proofs

The theorems about the client hold for any set of threads, any number of slots
below 65536, any generation modulus, and any number of calls and timeouts. They
rest on `ThreadsAssumption` and `BoundsAssumption` (`PublishAssumption` in
`IpcPublish`), which say that the thread names are distinct and the bounds are
numbers.

**`IpcClientProofs`** proves `TypeCorrect`, `FrameSafe` and `StreamIdsDistinct`.
None of `FrameSafety` and `DistinctStreamIds` is inductive alone. The
invariant `IInv` adds two parts:

* `LockInv`: who holds the mutex, and in which state it is. Without it a slot
  could be claimed while a response callback runs.
* `ResponseInv`: while a response callback runs, no other slot has its stream
  id, although the callback may close its own slot. Without it `response_handler`
  could write a stream id that another slot has.

One lemma per action shows that it preserves `IInv`. Those that clear a slot
share `ClearKeeps` and `GiveUpStep`, and those that answer share `RespondKeeps`.

The interesting step is `SubscribeTimedOut`, which clears a slot that may not be
its own (finding 1). It costs another call its slot, but leaves no pointer to the
frame that goes away: slots only point to frames without a response, and if this
frame has none, then no slot other than its own can point to it.

**`IpcClientCallbackProofs`** proves `EventsRouted`, `ResponsesOnce` and
`NoOrphans` from `CInv`, relative to `IInv`. `CallInv` ties active calls to
distinct stream ids without an outcome. `SubInv` says that a slot with a
callback was reported open, or will be by its caller (`Opened`). `EventInv` says
so of the callback that runs. `NoOrphans` is not obvious from the code: a timeout
that arrives late must still clear the subscription that its own late response
installed.

**`IpcPublish`** proves `PayloadsStayIntact`: the buffer is locked exactly by the
publish whose payload it holds, from encoding to return.

**`EventStreamProofs`** proves `TypeCorrect` and `RecvMemSafe` for any sizes of
packets, buffers and socket that satisfy `LengthsAssumption`,
`SendersAssumption` and `RecvHoldsPrelude` (the prelude fits in the receive
buffer, which the code asserts). The invariant adds `WriteInv` (whoever writes
holds the mutex and writes the packet that `ipc_send_mem` holds, so the write
loop ends exactly at its end) and `FitInv` (a data section is read only if it
fits).

The byte stream also implements `PacketChannel` (`ImplementsPacketChannel`). The
mapping reads the channel off the variables, so the step is to show that what
the receiver decodes is the next packet that was sent. `SInv` says what the bytes
in the socket are. `OrderInv`: packets are sent in the order of framing.
`IntactInv`: until a send is torn, the bytes are the packets that were sent and not
received, and the written part of the one under way. `CutInv`: after that they are
so up to the torn packet, and its missing part never follows, so a receiver that
reads on gets a bad checksum and not a packet. `CauseInv` gives
`ParseErrorsExplained`. `CountInv` bounds the framed packets by the calls. The
torn case is why the invariant is long: other threads go on writing behind the
torn packet, and the receiver may be anywhere in front of it. Most lemmas are
about a view of the stream (`Framed`) and not about the actions; a quiet step,
one that leaves the view alone, needs one lemma (`QuietSInv`).

**`IpcClientHandleProofs`** is about what slots stand for over time. `LInv` holds
unconditionally. It says that a stream can be only in the slot that its call
claimed and that its handle names, and in none once it has ended. `NoSlotLeak`
follows (`SlotsNotLost`), with finding 1 and all wraps included. The rest needs
generations. `NoWrap` says that no generation is about to wrap around, that is,
no slot has been claimed and cleared 2^16 - 1 times; `Spec /\ []NoWrap` is what
the theorems `HandlesSafe`, `ClosedIsQuiet`, `SubscriptionsStayOpen`,
`WaitersKeepSlots` and `ImplementsService` start from, and all runs satisfy it. The condition is real:
beyond it an old handle validates again, and a close of it takes the slot from
someone else. `HInv` says that a handle and the frame of a call are tickets: slot
`i` at generation `g` was given to stream `n`, and it has that generation for
exactly as long as it has that stream.

`ImplementsService` shows that the client implements `IpcStreamService`. The
initial states map to each other, and every action is a step of the service for
the stream it is about, or none. Because ids are distinct, the phase of a stream
can be read off its one slot (`PhaseInTable`). On top of `IInv`, `CInv`, `LInv` and
`HInv` it takes `SlotInv`: a request that is being sent still has its slot, which
the mutex guarantees, so a failed send ends the right stream. `NoWrap` is needed
for the closes: with a reused generation a close would end a stream that its
caller did not name, which the service does not allow.

**`IpcConnectProofs`** proves the four invariants of `IpcConnect` from `KInv`, for
any number of threads and sockets and any server, under `Guarded`: connects are
kept apart, by the `CONNECTED` flag of the Rust bindings or by the program. This
is the configuration of `connect_guarded`. Without it `RecvBufferExclusive` is
false (finding 2). `ConnectInv` says that there is one connect at a time and none
after one succeeded, `EpollInv` that only the connection, or the socket that is
about to become it, is registered, and `InboxInv` what can be found there.
`NoSpuriousExit` needs all of them: between registration and publication the
receive thread may read for a connection that is not there yet, and does so only
for a packet that nobody asked for.

**`BindingsProofs`** proves `Base64IsExact`, `PayloadIsDelivered` and
`SubscriptionsAreOwned`.

`Base64IsExact` is about texts of any length. `AfterTurns` is the invariant of the
loop of `gg_base64_decode`: after `k` turns the bytes of `k` segments are at the
front and the segments to come are untouched, because a turn writes at most
three bytes where it has read four. A recursive function is known to the provers
only as the choice of a function that satisfies its equation. So its existence
is shown first (`TurnsExist`: a loop of `k` turns can be extended by one), and
induction over the turns is a least counterexample. Two facts about one segment,
`ChunkDecodes` and `SegmentEncodes`, are arithmetic on the 64 digits.

`PayloadIsDelivered` holds for any topics, payloads and paths, any number of
subscribers and any bad events. `Deliveries` is the set of what can be on its
way: what a publisher sent as the server relays it, with what it gave, or a bad
event. That is inductive, and the rest is about the handlers: of a relayed event
each makes what was given, which for binary payloads is `Base64IsExact`; and one
that hands on an event has checked all that its form asks for, so a bad event is
refused (`BadEventsRefused`, from `BadEventAssumption`).

`SubscriptionsAreOwned` holds for any set of variables and any number of
subscriptions. The part that has to be added is `PendingInv`: the handle of a
subscribe exists before it is stored, and its first callback may already run,
close it, or keep it.

**`LibraryProofs`** proves `ArenaIsSafe` for any capacity, any set of alignments up
to 16 and any number of blocks, from `CapacityAssumption`, `AlignsAssumption` and
`MaxBlocksAssumption`, with resizes of any block and any old size. That blocks stay
inside the capacity follows from the checks alone. For disjointness, a new block
starts at or above the index and so above all others; and a block that ends at the
index can be resized without touching another, because every other block is
disjoint from it and below the index, hence below its start. That the last block
does end at the index, so that a wrong size for it is refused, is the part of the
invariant that has to be added.

It proves `JitterIsFull` for every base, maximum and number of attempts from zero
to `UintMax`, however many failures there are. `BackoffInv` gives the
window before and after each delay. The provers know nothing of exponentiation;
that powers of two double is derived from the number of subsets of a finite set,
which the library states as a power of two (`SubsetsDouble`, `PowersDouble`).

It also proves the three properties of `Files` for any number of threads, any
paths and any changes by other processes, from the assumptions of that module.
`FilesInv` says who has the buffer (`BufferInv`), which function a call can be in
(`KindInv`), that a call stands where the first `n` components of
its path lead and has the others before it, with the buffer holding its own
component while it has the mutex (`WayInv`), and that, unless something meddled,
where it stands exists (`MadeInv`). What `strip_trailing_slashes` leaves of a path
of any length would be an induction over the path. It is replaced by a least
counterexample: a set of numbers that is not empty has a least one
(`LeastNumber`, from the well-foundedness of the numbers).

`DescriptorsAreClosed` has an invariant of its own, `DescInv`: at each point the
descriptors that a call has open are exactly those in the variables whose cleanup
is in scope there, no two of these hold the same one, and `cur_fd` and its cleanup
agree (`HoldsFds`). So a return closes each once (`ReturnCloses`), and so does the
swap. It holds for every path length and every point of failure.

Last it proves `HeadersDoAgree`, for every sequence of bytes and every list that
`HeaderListsAssumption` allows. Four facts meet in one relation, `Laid`: the
headers of a list stand one after the other in the bytes and there is nothing
else. Bytes that `count_headers` accepts are laid out so (`CountedAreLaid`), and so
are the bytes that `eventstream_encode` writes (`EncodedAreLaid`). Headers laid out
so are counted (`LaidAreCounted`), read by the iteration (`LaidAreRead`), and are
what encoding them gives (`LaidAreEncoded`). That `count_headers` needs at most as
many turns as there are bytes is part of its loop invariant (`Counted`). The
loops are functions by `LoopExists`, and `UpTo` is induction over a set of
numbers, which the provers can instantiate where an operator they could not.

Only model-checked:

* the liveness properties, which are out of the prover's reach under fairness;
* `ClaimIsComplete`, `VisitLimitsExact`, `CanonicalKeepsFirst`, `JsonRoundTrip` and
  `JsonMeaning`: they compare the visit and the parser with recursive definitions
  over objects and texts of any nesting (`Erase`, `Canonical`, the meaning of a
  text), and their modules use RECURSIVE operators;
* `ConfigReadBack`: the server's store is a tree that is merged and searched
  recursively;
* the handles of slots beyond the wrap of a generation, where the properties are
  false.

## 7. Plan

What is left, in order of importance:

1. The Rust closures: lifetimes of callback contexts across close, drop and
   failure.
2. The visit: `VisitLimitsExact` as a theorem. It needs `At` and `Put` as functions
   of the levels, and the depth and the size of an object as functions of the
   paths in it, in place of recursive operators.

## 8. Not modelled

* Corruptions that CRC-32 does not detect.
* Both directions together: in `EventStream` a receiver that waits for the mutex
  of a sender is one that hangs.
* The descriptor between its close after a failed receive and `_Exit`: calls go
  on in the model, but what the number stands for by then is not modelled.
* Overflow of `next_stream_id` after 2^31 - 1 calls, and of a slot's generation.
* Rust: the conversion of objects, and the `FnOnce` closures of `call` and
  `subscribe`, which are read out of a variable that is dropped again on return
  (`ipc.rs:674`, `:762`); whether memory is freed twice is not a question about
  states of this model. The trampoline of configuration updates panics for a path
  of more than 14 keys (`ipc.rs:610`).
* The arguments of the three subscribe commands and the names of their errors:
  each is one call of `ggipc_subscribe`, which `IpcClient` models.
* The views and iterators of the C++ headers, and the vectors and slices of the C
  library: conversions and one-line operations that the modelled parts use.
* System calls that are interrupted and retried.
* Moving or swapping a subscription into the argument of a running C++ callback,
  whose release would lose it.
* Logging, error names, arithmetic helpers, samples, tests and the mock server,
  which is one instance of the arbitrary server.
