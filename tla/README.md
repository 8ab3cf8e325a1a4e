# TLA+ verification of TestClFFT01

The repository is a set of C++ programs for Windows, each a trial of a part: an OpenCL
FFT, threads that can be interrupted, messages between processes through shared
memory, and messages between programs through TCP. It has no document of its
own; the source and its comments (in Russian) are the reference. Some programs
exist in more than one generation, and both are here when both can be compared.

## Inventory

| component (source) | state | operations | interacts with | what is hard |
|---|---|---|---|---|
| shared-memory channel, `MemoryBase` (`TcMemory01/src/memory_base.*`) | data segment, control segment, auto-reset event, `_running`, reader thread | `WriteData`, `SetCommandControl`, `ClearCommandControl`, `event_loop`, constructor, destructor | two processes that share names; a callback | nothing locks the segments; signals coalesce; a reader can be rebuilt while a signal is pending; any view of a segment may be refused; nothing bounds the control string |
| earlier channel, `MemoryBase` over Boost (`TcMemory01/src/!!!!!!!!!!/memory_base — копия.*`) | two segments, named mutex, named condition, `_running` | `WriteData`, `run_control_event_loop`, destructor, `Destroy` | as above | condition without a predicate; notification without the mutex |
| interruptible thread, `wrap_thread`, `test_th_a` (`src/wrap_thread.h`, `src/streams_sockets.h`) | `running_`, `is_repeat_`, `paused_`, thread handle, round counter | `start`, `stop`, `thread_join`, `set_params`, `pause`, `resume`, destructor, `thread_func` | owner and worker share flags; virtual calls during destruction | restart of an object whose worker is over; interrupt only noticed in a sleep |
| thread driver, `streams_sockets::test_boost` | a map of three `test_th_a` | one run: start, poll, repeat, sleep, finish, join | owns `wrap_thread` objects | `is_repeat` switched around a worker that may be done |
| GPU FFT, `cl_fft_base` (`src/fft/cl_fft_base.*`) | OpenCL context, queue, buffer; result handler cached by type; event times | `calculate` (a chain of OpenCL and clFFT calls), `convert_data`, destructor | a caller's `std::any` | any call of the chain may fail; state left over by the call before |
| TCP sender, `TcpDuplex`, `manual_reset_event` (`SendToServerCharp/src/`) | lock-free queue, manual-reset event, `is_add_send_`, `is_working_send_`, socket | `send_data`, `start_thread`, `stop_thread`, `run_send`, `reconnect`, destructor | owner thread, sending thread, a server | lost wake-up, stop message, reconnect in the middle of a message, handlers nobody runs, so that a long message never leaves whole |
| peer node, `Node` and `DuplexNode` (`socket0/`, `src/sockets/`) | acceptor, one socket, deque of messages, read buffer, retry timer | `do_accept`, `do_connect`, `start_read`, `start_write`, `do_write` | handlers of one `io_context`, a posting thread, a peer | a socket and a buffer taken over by another connection, the write queue after an error, retry; `DuplexNode` throws at its start |
| duplex shared memory, `MemoryNome`, `CudaMemory` (`TcMemory01/src/`) | two `MemoryBase`, a user callback | `SendData`, `SendProcessedData`, `OnRawDataReceived` | two channels, the reader's thread | the reader runs before the object is complete and after part of it is destroyed |
| client with acknowledgement (`TcMemory02/`) | `_ackReceived`, a `MemoryProcessor` of another library | `Send…`, `OnAckReceived`, `IsWriteChannelReady`, polling in `main` | a server that clears the control segment | polling against a late answer; an empty block taken for a processed one; a server that dies half way |
| one-shot TCP programs (`Send01`, `Send02`, `SendToServerCharp`, `Boost_send`, `Boost_server`) | a socket | connect, handshake, one message, one answer | a server, other clients in its backlog | framing of a stream; a client of one kind at a server of another |
| address book in YAML (`ReadWriteYaml.h`, `IpAddressOne.h`, `MyYaml`, …) | a file; the text of a record | `ReadYaml`, `WriteYaml`, `encode`, `decode`, `serializeToYaml`, `deserializeFromYaml` | programs that exchange the texts | the round trip; a file that is being written |
| main program (`TestClFFT01.cpp`, `streams_sockets.cpp`) | none that lasts | `main`, `generation_beam`, `inicial_vector`, `test_sockets` | all of the above | none of its own |

What makes each component correct:

* **Channels.** What a callback gets is one message, or says how old it is at
  least; nothing that was replaced comes back; the last message arrives, as far as
  the system gives the views it needs; a destructor returns.
* **Threads.** Never two workers of one object, none beside a destroyed one;
  a worker that was not interrupted did its rounds; `stop` returns.
* **FFT.** A result belongs to the call that returned it, whatever failed before.
* **TCP sender.** Nothing handled twice, answers not mixed up, nothing queued
  behind the stop message, everything queued is taken, `stop_thread` returns: the last
  two unless a message too long for one write holds the thread.
* **Peer node.** A line printed is one line of one peer; every client is taken
  up; of the write queue after an error the code keeps less than that: see below.
* **Duplex memory.** No callback into an incomplete object; nothing goes back
  across two channels; the last request is answered.
* **Acknowledgement.** The second packet does not replace an unread first one.
* **One-shot programs.** An answer is taken for whole only when it is; every
  program ends.
* **Address book.** Who reads back what whom wrote.

Their main hazards, with lines and the properties that watch over them, are in
`PROJECT.json`.

## Modules

| module | what it is |
|---|---|
| `LatestMessage` | abstract: posted messages, and showings that never go back. Both channels implement it |
| `RequestReply` | abstract: requests, what the server has seen of them, what the client was answered. `CudaMemory` implements it |
| `AtMostOnce` | abstract: messages queued, taken in that order, handled once or never. `TcpDuplex` implements it |
| `SharedChannel` | the present channel: writer process, reader thread, owner of the reader |
| `BoostChannel` | the earlier channel: writer, reader, destructor, mutex and condition |
| `WrapThread` | any number of `wrap_thread` objects, each with an owner and a worker |
| `TestBoost` | extends `WrapThread` by `test_boost` as the owner of all the objects, or by free owners |
| `ClFftBase` | one `cl_fft_base` object and its caller |
| `TcpDuplex` | owner, sending thread, connection and server |
| `CudaMemory` | two `CudaMemory` objects, a client and a server, over two channels of the present kind |
| `AsioNode` | one peer node with the programs that connect to it, as `Node` or as `DuplexNode` |
| `AckClient` | the client of two packets and its server |
| `OneShot` | one-shot clients and `Boost_server`, the framed server or nobody |
| `AddressBook` | the YAML converters, and the book in its file |
| `MCPrograms` | composes `AckClient`, `OneShot` and `AddressBook` for one run: a behaviour moves one of them, which `Init` chooses |
| other `MC…` | the constants of the runs |
| `…_proofs` | the theorems about a module: `SharedChannel`, `BoostChannel`, `WrapThread` with `TestBoost`, `ClFftBase`, `TcpDuplex`, `CudaMemory`, `AsioNode` |
| `Programs_proofs` | the theorems about the smaller programs: `AckClient`, `OneShot`, `AddressBook` |

Throughout, a thread is a program counter and an access to something shared is a
step of its own; the definitions keep the names of the source. `OneShot` and `AddressBook` put `Shot`
and `Book` before `Init`, `Next`, `Spec`, so that one module of proofs can extend them both.

**SharedChannel.** A message is the number of the call that wrote it, a cell of
memory holds the number of the message that filled it, 0 for a zeroed cell. The
control string has four tokens: what precedes `size=`, the key, its digits, the
rest. `memset` and `memcpy` promise no order to another process, so a fill takes
its cells in any order while the reader reads cell by cell; `strlen` and the copy
after it are two scans. `std::stoul` of an empty string ends the process
(`ParseTerminates`), of torn digits gives any smaller number. A size outside the
segment makes `MapViewOfFile` fail, and it may fail in any call and any pass besides:
before `WriteData` touches the segment (`RejectWriteData`), between its data and its
control string (`LeaveDataUnannounced`), in a command (`RejectControlCall`), in
`GetCommandControl` (`RefuseControl`) and for the payload (`RefuseData`). A command
is a control string without a size. The event is consumed by the wait. `StopReader`, `SignalStop`,
`JoinReader` are the destructor, `OpenReader` a new constructor that finds the
named objects as they are. `WriterDies` ends the writer's process anywhere in a
call: what it had filled stays, nobody is told, and a new process goes on with the
next call; when the reader's side was closed as well the last handles go
with it and both segments and the event start anew. `Long` are the messages whose control
string has `CONTROL_SIZE` bytes or more, which nothing in the code excludes: copied,
it ends the writer's process half way (`CopyPastEnd`) or fills the segment
without a NUL, and then `strlen` ends the process of the reader (`ScanPastEnd`). This
rests on the page behind a view not being mapped: a view has two pages and begins
where Windows begins allocations, every sixteen pages; what is said of the outcome
then, an access violation, is all the model says. Only data messages are `Long`: an
entry of a command could be as long, which would add no case.

**BoostChannel.** `mutex` says who is inside the scoped lock. The wait gives the
mutex back atomically, may end without a notification, and takes the mutex again
in `LockReader`. The two segments hold message numbers; `Claim` is what the
`size` entry says, `NoNumber` if it is missing or not a number. The destructor
takes no mutex, as in the code. One reader is built and never rebuilt; the death
of a process, `Destroy` and the initialisation flag are left out.

**WrapThread, TestBoost.** An owner calls any operation it may, one at a time per
object; `stop` and `thread_join` have a step in which they block. Destruction
goes through `"base"`, where the virtual functions are those of the base class,
to `"gone"`. The counter `i` stays at N once it is there: no code tells larger
values apart. `paused_` is written by `pause` and read by nobody. `TestBoost`
puts the loops of `test_boost` in the place of the free owners, or keeps these
(`dpc = "free"`), so one run has both. `start()` of an object whose worker has
ended by itself does nothing, as in the code: `running_` is still set.

**ClFftBase.** `stage` names the next OpenCL or clFFT call. An OpenCL object is
a pair of kind and call of `calculate`; `alive` collects what is not released.
`Throw` is the failure of any stage that checks its result. Assumed of the
libraries: a command on a null buffer is refused; the transform leaves its
result in the buffer it was given (the plan of the single-beam case says
OUTOFPLACE and gets the same buffer twice). Use of a released or indeterminate
object is `undefined`, and nothing is said of what follows.

**TcpDuplex.** `wire` is what of each message the server has on the present
connection: its length, its whole body, or a part of it when it is longer than
one Asio write of 64 KB. `io_context_` is never run, so the rest of such a body
and the timer's handler have no step. A break may be noticed by a write or not
before the read; what was received whole before it may be handled later
(`HandleLate`). A message is the number of the `send_data` call. A connection need not
break: with a server that waits for the rest of a long message, `run_send` waits for ever (`Held`).
`Throw` is a read or write of a broken connection, or an answer whose length cannot be allocated.

**CudaMemory.** A channel is coarser here than in `SharedChannel`, which shows what
a torn reading may hold: a payload is the oldest and the newest request it has
something of, a control string is empty, torn or whole. `phase` follows one
object through `CudaMemory`, `MemoryNome` and their destructors, member by
member; `alive` is what a callback may use of it, `open` who keeps the named
objects in being. The first to open a channel finds it cleared. The reader thread
runs from `MakeReader` on, before the writer and the pointer to it exist, and
until `Join`, after the callback and the writer are gone. A use of a part outside
its life is recorded in `misused`, and nothing is said of what follows. A
`WriteData` that throws is reported and swallowed (`Refused`, `ControlRefused`)
and recorded in `lost`, as is a view that a reader cannot map (`ReadUnmapped`): its callback gets
no data, which `OnRawDataReceived` rejects. `lost` counts from the last request on, which
clears it when it goes out. The client is `main1.cpp`, whose callback prints; the
server's program is not in the repository, and its callback answers each request
by `SendProcessedData`, as the class is made for. An answer names the requests
it was made of. Left out: `SendDataRaw`, which takes any metadata, and the
construction of a second object under the same name.

**AsioNode.** One action per handler; the `io_context` runs them one at a time. The
definitions point at `socket0.cpp` for some and for others at the copy of `Node` in
`socket_test.cpp`, whose text is the same. `start_read` takes its socket by value, so it closes when
`start_read` returns: the read has what was there at that moment (`StartReadOf`) or
is aborted, and its handler refers to a socket that is gone. The model goes on as
after an error, or the process dies (`HandleReadError`). A read after a line is made of `socket_`,
which takes the outgoing connection away from the writing thread (`ReadOn`): that read gets whatever
the peer has sent by then (`OfPeer`), and a connect under way, or made but not yet handled,
ends with `operation_aborted`. Two
reads at once spoil `read_msg_` (`HandleSecondRead`), and a read that ends on a part of
a line leaves that part there for the next connection; bytes of the peer may come behind a
client's part of a line. All three are recorded in `torn`. A piece is
named by who sent it, a client or `"peer"`, and its number; `LineEnds` says which end a line. With `program =
"DuplexNode"` the path is that of `TestClFFT01`: the temperature, the wrapper of the
FFT, the constructor, and `start()`, in which `shared_from_this` throws because
`enable_shared_from_this` is a private base. The handlers behind that start are
never reached and have no step of their own.

**AckClient.** `main` step by step. Of the library and the server it is
assumed that a server reads the block, clears it and acknowledges, in that order,
and may end and start between any two of these. A `SendData` may throw, which
`main` reports and goes to its end. `inherited` says that an earlier client left a
packet in the block; then the server may clear the first packet for the earlier one.

**OneShot.** A stream is a sequence of cells; a length prefix is one cell, a body
two, so that a frame can arrive in parts. `Set` is one change of a function. A
write to a connection the other side closed resets it, and a reset may overtake
what was sent before it. `Send01` checks nothing: it goes on after a failed `connect`, and
`recv`'s −1 or a full buffer write outside of the buffer, which is the result
`"undefined"`. `Boost_server` takes one `read_some` for the message, answers one
line, of which a framed client takes the first four letters for a length: it waits for more than
a gigabyte, or cannot allocate it and ends. `Boost_server` then closes, and ends when `remote_endpoint()` throws for a client that is gone. The framed
server is outside the repository; it answers in a frame, a part of which may come
first, or closes.

**AddressBook.** A YAML map is a function from keys to values, a key a field in
upper or lower style, which is all that the converters differ in. `Formats` are the
pairs of a writing and a reading function. The file is opened (and emptied),
filled entry by entry and closed, or its writer dies; `ReadYaml` may come at any
moment. The shape of the root follows the keys, as yaml-cpp makes a sequence of
0, 1, 2, … and a map of anything else.

## Runs

| run | bounds | shows |
|---|---|---|
| `channel` | 4 calls (a command; a size entry past the segment with a control string as long as its segment or longer; one too large; one padded), 2 cells, any view refused, 1 rebuilt reader, a writer that may die in the second call | torn deliveries are ordered: payload not older than its size, tokens in order, nothing goes back; a write into a quiet channel is read whole unless its pass is refused a view; the last message is delivered unless its call threw or its pass got no view; a shutdown completes |
| `boost_channel` | 5 messages with right, short, too large and missing sizes | deliveries are whole and never go back; a notification of a waiting reader is enough |
| `boost_channel_destructor` | the same | **violated**: the destructor's notification is lost between test and wait, and its join hangs |
| `threads` | 2 objects, 2 and 1 rounds, with free owners or with `test_boost` | at most one worker, none beside a dead object; rounds complete; `stop` and the destructor return; the driver returns with all the work done |
| `cl_fft_base` | 3 calls | results belong to their calls; buffers fit; undefined behaviour only after a failed allocation |
| `tcp_duplex` | 3 messages, the second too long for one write, 2 launches | messages are taken in order and handled at most once (`AtMostOnce`), answers match, stop message last; the queue is served despite the lost wake-up; calls return; both but for a thread that the long message holds for ever |
| `cuda_memory` | 3 requests and their answers | parts are used in their life except by an answer given before the constructor is done or after the destructor has begun; a destroyed object is quiet; requests and answers are those of `RequestReply`; the last request is answered unless a write or a view was refused since; destructors return |
| `asio_node` | 2 clients and the peer, 4 pieces each of which the second and third end a line and the fourth is of a line that never ends, 2 posted messages; `Node` and `DuplexNode` | what is printed is one whole line until a read was torn, ended on a part of a line or got the peer's bytes behind one; after a failed write all posted messages are still queued; `Node` takes up every client |
| `asio_node_listens` | the same path of `main`, 1 client | **violated**: `DuplexNode` never listens |
| `programs` | `TcMemory02` with 3 looks for the 50; or a raw, a framed and a line client at once; or 2 values and books of no, consecutive and other keys | the second packet never replaces an unread first one, and the client ends; a frame is never taken for whole before it is, nor a line for a frame, and every program ends; which readers give back what which writers wrote |
| `address_book_round_trip` | 1 book of 1 record | **violated**: what `WriteYaml` wrote `ReadYaml` does not give back |
| `tcp_duplex_timeout` | 2 messages, a silent server | **violated**: the "timeout" never expires |

Why the bounds are enough. A torn reading involves the message being read, the
one being written and what remained from before: three messages, and the fourth
is the refused payload. Two cells are the least that
can differ, one rebuilt reader the least that inherits a signal, and one death the
least that leaves half a message behind one and before another. In
`BoostChannel` every kind of message follows some other. Threads interact only
with their own owner, so a second object checks independence only. What a call
of `calculate` finds is left by the one or two before it; three calls reach a
failed one between two of different types. In `TcpDuplex` three messages give a
predecessor, the one that breaks and a successor, which may be the stop message.
In `CudaMemory`
three requests give one that was answered, one half written and one that was
read in between. In `AsioNode` two clients give the outstanding reads that meet and
pieces that a later connection inherits; the first line has two pieces, the
second one, and the fourth piece is the part of a line that a broken connection leaves. `AckClient` looks three times: not at all, in vain, and for the last
time. In `OneShot` there is one client of each kind, and each may be the one that
waits behind another. The three models of `programs` share no state, so a behaviour that moves one of them loses nothing. The converters of `AddressBook` are checked in full; three books
are one of every root. The theorems below remove the bounds for all the safety properties.

Deadlock is not checked: every system here stops when its bounded calls are used
up, its objects are destroyed or its process has ended, and a hang that matters
is a liveness property of its own.

## Fairness

* Channels: the reader's thread is scheduled, its callback returns, a call of the
  writer and a destructor once begun go on. Nobody has to call. `BoostChannel`
  asks strong fairness of the reader, which waits for a mutex the writer takes
  again and again; the operating system hands a free mutex to a waiter in the
  end. No spurious wake-up is assumed to come, no writer has to die, and no view
  has to be refused or given.
* Threads: workers are scheduled, a join of a finished worker returns. `pause`
  has no effect on a worker, so no fairness depends on it.
* TCP: `run_send` is scheduled; for `LiveSpec` the server answers what it has got
  whole. No connection has to break: a message over 64 KB, which no server ever has
  whole, holds `run_send`, and with it the queue, `stop_thread` and the destructor, for ever on a
  sound connection, and `QueueIsServed` and `OwnerReturns` except just that (`[]Held`). Without
  the server's fairness a silent one
  holds `run_send` for ever, which is what `tcp_duplex_timeout` shows. `connect`
  may throw again, and every liveness property allows for the end of the process.
* Peer node: `main` goes on, and the acceptor takes up a connection of the backlog
  that stays there. Nothing is asked of clients, reads, connects or the writing thread.
* Acknowledgement (in `programs`, for the behaviours that run it): `main` goes on; the server owes nothing.
* One-shot programs: an unkilled program goes on, `Boost_server` takes up, answers
  and closes what it can, the framed server answers or closes. Boost_server's `read_some`
  needs a client that writes or ends, which the clients' fairness gives.
* Duplex memory: reader threads and what they call are scheduled, a constructor,
  destructor or `WriteData` once begun goes on. Nobody has to send, construct
  or destroy.

## Proofs

Checked by TLAPS for every value of the constants that satisfies the module's
assumption (numbers are naturals, tables are functions on the messages;
`BoostAssumption` says that the map of `test_boost` is numbered and not empty). Every
invariant and every action property that a run checks is stated by a theorem. A
*safety half* below is what is left of a liveness property when one takes the
scheduling away: that what has to happen is always still on its way.

* `SharedChannel_proofs`: `TypeCorrect`, `DataNeverOlder`, `TokensNeverOutOfOrder`,
  `ChannelImplementsLatestMessage`. None is inductive. The invariant adds that a
  fill belongs to the last message and that message's data fit (`WriterOK`), of which
  the size check of `WriteData` is the reason; the control segment has no such check, and
  `TypeCorrect` claims nothing of it. It further adds that the
  control segment never holds two messages (`CtlOK`), also when a writer died in it, that the data segment is
  not older than a size entry in it (`DataOK`), and that what the reader has
  copied so far lies between what was shown and what the segments hold now
  (`ReadOK`, `PayloadOK`). The order write data, write control against read
  control, read data carries the argument: at each step the reader's copy can
  only be overtaken.
  `CalmIsWhole` (`CalmWriteReadWhole`) needs an invariant of its own, `CalmStage`, which
  follows one message that no other call meets through every stage of writer and
  reader: nothing wakes the reader before the signal, and from then on what it has
  scanned is a part of that message, or nothing more when a view is refused (`IsUnread`). The same stages give `LastIsNeverLost`, the safety half of
  `LastMessageDelivered`: after the last call the message lies whole in the segments,
  unless its call threw, and its signal is pending, or the reader is in a pass that reads nothing else, or
  that pass was refused a view, or it was the last one delivered. There a signal that arrives in the middle of a pass is the hard case;
  it makes that pass worthless and the next one certain.
  `ShutdownIsShort`, the safety half of `ShutdownCompletes`: once a destructor has cleared
  `_running`, each step of the thread lowers `PassLeft`, at most `SegmentCells + 14`, and no
  message, signal or death of a writer raises it; it is zero just when the join may return
  or a torn size or a string without a NUL has ended the process. That needs the scans to be bounded (`StopInv`, `ReadOK`).
* `BoostChannel_proofs`: `TypeCorrect`, `DeliveriesAreWhole`,
  `BoostImplementsLatestMessage`. The invariant says who holds the mutex at which
  line, and that the segments agree whenever the writer is not between them.
  `WokenShowsNewest`, the safety half of `WaitingReaderIsServed`: a woken reader shows the
  newest message or, when that one has no usable size, nothing.
* `WrapThread_proofs`: `ThreadTypeCorrect`, `StoppedIsQuiet`, `EndedIsFinished`. The
  invariant (`HandleOK`) says that a worker is launched only with `running_` and a
  handle, and that only a join that saw it end gives the handle up. `StopHasTold`:
  `stop` joins no live worker that has not been interrupted, and nothing clears
  the flag before the join returns, the safety half of `StopReturns`.
* `WrapThread_proofs`, second part, on `TestBoost`: `BoostImplements` shows `test_boost`
  to be one of the owners `WrapThread` allows (each step of a loop is an owner's step or
  a stutter), from an invariant that says how far the loops are with each object
  (`Progress`); so it inherits the theorems above (`BoostIsQuiet`).
  `BoostLeavesNoWorker`: when it returns every worker is over with its rounds done.
  `BoostJoinsTheFinishing`: it joins no worker that is still to repeat, since the loop that
  sets `is_repeat_` is over before the one that clears it begins (`RepeatCleared`). The two are
  the safety half of `BoostReturns`.
* `ClFftBase_proofs`: `ResultOfThisCall`, `ConvertReadsItsBuffer`,
  `UndefinedOnlyAfterLoss`. From the second allocation on, `buffer_` is this call's or
  null (`BufferOK`), the cached handler is the one of the cached type
  (`HandlerOK`), and a live object loses its device only to a failed allocation
  (`DeviceOK`).
* `TcpDuplex_proofs`: `DuplexTypeCorrect`, `ImplementsAtMostOnce`,
  `AnswersAlwaysMatch`, `NothingAfterStop`. A message is in one place. The queue
  holds the latest messages in order and what run_send has in hand is older
  (`QueueOK`); the stop message is the latest (`StopOK`); the wire and the answers
  hold nothing but the message in hand (`WireOK`); that message is new to the
  server until handled or given up (`HandledOK`), so a reconnection, which
  never sends again, cannot repeat one. Under the mapping of `queued` to `sent` and `taken`
  to `data_` (`cur`), `try_dequeue` is `Take`, the server's two ways to handle are `Handle`
  and all the rest stutters. `EachInItsTurn`: run_send takes the messages one by
  one, passes none over and takes none again, as the first of the queue is
  always the one after the message in hand. `StopAlwaysComes`, the safety half of
  `OwnerReturns`: once `send_data` takes nothing more (`is_add_send_` is cleared), run_send
  is at work exactly as long as the stop message is queued. `EndsWithEmptyQueue`, that of
  `QueueIsServed`: run_send ends with messages in the queue only when it was asked to stop,
  although the owner may still be inside the call that queued the stop message.
  `OnlyLongMessagesHold` says what the exception of these two liveness properties covers: while `run_send`
  waits for an answer on a connection that is up, either the answer is there, or the server has a step
  to give it, or the message is too long for one write.
* `CudaMemory_proofs`: `TypeCorrect`, `PartsAreThere`, `DestructionIsComplete`,
  `ImplementsRequestReply`. A request goes from the client to a segment, to the server, to the
  other segment and back to the client; at each place nothing is newer than at the
  one before, and what is shown is not newer than what has been copied since
  (`WriteOK`, `ReadOK`). That a constructor clears a segment does no harm needs
  the life of the objects: who reads a segment holds it open (`LifeOK`). Hence what
  `CallUser` shows lies between what was shown before and what the other end had
  (`CallIsBetween`), which is a step of `RequestReply`; `SendData` is the other one, and
  everything else stutters.
  `LastIsNeverForgotten`, the safety half of `LastRequestAnswered`: while both objects stand
  and, since it went out, no write was refused and no view of a reader, the last request lies whole in its segment and the
  server has its signal to come, reads it, answers it, or has answered it, and the
  answer stands in the same relation to the client (`OnItsWay`, `Answered`).
  `JoinIsShort`, the safety half of `DestructorReturns`: a thread whose join has begun has at most
  eight steps left (`ThreadStepsLeft`), the rest of a callback and of its answer included, and
  nothing the other object does adds one (`InReply`: a thread in a reply is inside `WriteData`).

* `AsioNode_proofs`: `FailureIsFinal`. One chain leads to the writing thread (start,
  connect, the timer that repeats it), so once the thread runs nobody opens
  `socket_` again (`Chain`); hence no write succeeds, and what was posted is in the
  queue (`Queue`). `WholeLines` (`LinesComeWhole`): until `torn`, the read buffer
  with what the oldest read received is a sequence of consecutive pieces of one client, or of the peer, from the
  beginning of a line on (`LinesInv`), and `FirstEnd` cuts such a sequence after its first line. `DuplexNodeTakesNone`: the node that
  `TestClFFT01` starts never takes up a client, so the violated `DuplexNodeListens` is no matter of the instance. `BacklogIsLookedAfter`: whoever is in the backlog
  of a node that has not ended has an accept outstanding or `main` on its way to one, the safety half of `ClientsTakenUp`.
* `Programs_proofs`: `SecondIsAfterFirst`; the invariant says why the block may be
  empty: once the first packet was in it, only a server that has read that packet
  empties it. `ConvertersAgreeAlways`: `StringsInv` remembers which function made the text, and lemmas
  about `Encode` and `Decode` say what each pair of them gives back.
  `NoEntryComesBack`: `ReadYaml` never gives back an entry of any written book, since every entry on its way to the file or in it is in keys that `Decode` does
  not ask for (`FileInv`): `BookComesBack`, which a run violates, fails for every book with a record. `FramedReplyIsAlwaysWhole`: what a client has got, followed by what is
  still in its stream, is nothing, the length, or all of the one frame its server sends
  (`FrameInv`), so only the whole frame is ever complete.
  Three theorems are safety halves. `MainTakesFewSteps` (`ClientEnds`, run as `TcMemory02Ends`): each step of `main`
  lowers `MainStepsLeft`, nothing else raises it. `ProgramsTakeFewSteps` (`EveryProgramEnds`, run as `OneShotProgramsEnd`): the
  same for every one-shot program, at most seven steps; that the cells of an answer count down needs
  `FrameInv`, which bounds them by a frame. `NobodyWaits` (`EveryProgramEnds`): a program that reads in
  vain has a server with a step for it, or stands behind a client that itself gets on. For that
  `ServiceInv` says whom `Boost_server` serves, and that whoever waits for its first answer has
  written something.

Only model-checked: the properties that need fairness (`LastMessageDelivered`,
`ShutdownCompletes`, `WaitingReaderIsServed`, `StopReturns`, `BoostReturns`,
`QueueIsServed`, `OwnerReturns`, `LastRequestAnswered`, `DestructorReturns`,
`ClientsTakenUp`, `TcMemory02Ends`, `OneShotProgramsEnd`). The safety half of each is proved;
what is left to fairness is that threads run, since the provers have no reasoning about
`ENABLED`. The four violations are counterexamples of TLC. The invariants of the
proofs were first checked by TLC on the instances above. The attempt to prove
`LinesComeWhole` showed that the model had missed a case, a read that ends on a part
of a line; it has it now.

## Where code and comments disagree

1. `~MemoryBase` of the earlier channel notifies without the mutex; the comment
   promises that this wakes the thread (`boost_channel_destructor`).
2. `TcpDuplex` announces a timeout of the write that nothing can trigger
   (`tcp_duplex_timeout`).
3. `DuplexNode` "goes on listening" and "listens on 10000" by its comments; its start
   throws, because `enable_shared_from_this` is a private base, so `TestClFFT01` has no
   working node (`asio_node_listens`).
4. `ReadYaml` expects the map of numbers to records that `WriteYaml` is given; of what
   `WriteYaml` has written it reads nothing: `Id` and `id`, and a sequence for
   the keys 0, 1, … (`address_book_round_trip`).

Other things the models show of the code, of which no text of it says otherwise:

* `wrap_thread::start` takes `running_` for "already launched", which it is not once
  the worker has ended by itself or was joined: such an object cannot be started again.
* `cl_fft_base::calculate` makes two buffers and a plan in every call; only the
  latest `buffer_` is released, so the device's memory runs out in a long run.
* `reconnect` in the catch block of `run_send` may throw again and end the process;
  `stop_thread` followed by the destructor joins a thread that is not joinable.
* A text of more than 64 KB never leaves `TcpDuplex` whole: with a server that waits for the
  rest, `run_send`, `stop_thread` and the destructor hang for ever.
* Nothing compares a control string with `CONTROL_SIZE`: one that is longer ends the writer,
  one that just fills the segment ends every reader.
* A `MapViewOfFile` that fails costs a message: its signal is used up by an empty
  delivery, or its data lie unannounced under an earlier control string.
* `Node` never sends a message: `start_read` has taken `socket_` away before the
  writing thread exists.
* A part of a line that a broken connection of `Node` leaves in `read_msg_` is printed
  together with the first line of the next one, or with what the connected peer sends.
* A reader of a book that is being written, or whose writer died, finds an
  empty book without an error, as long as no entry has reached the file.
* `Send01` writes outside of its buffer after a reset or a full answer.
* A client of `Boost_server` that hangs up early ends the server for all others.

## Plan

Done, in the order of weight: the channel, its abstraction and the death of its
writer, the threads and their driver, the FFT object, the TCP sender, the earlier
channel, the duplex memory, the peer node, the client with acknowledgement, the
one-shot programs, the address book; every safety property proved, three abstract
specifications implemented, and the safety half of all the liveness properties that have one.

What could come next:

1. `CudaMemory` with its two channels as instances of `LatestMessage`, to replace the coarse
   segments it has now by the abstraction the channel is proved to implement.
2. Several threads that call `send_data`, which no program of the repository has yet.

## Not modelled

* Console tables, time records, sample data (`generation_beam`, `inicial_vector`),
  logging, GPU temperature: layout and arithmetic that no other step depends on.
* The handlers of `DuplexNode`: its start throws before any of them can run. They
  repeat those of `Node` with a socket held by pointer.
* The death of a process inside `WriteData` of the earlier channel: the five-second
  limit meant for it is commented out, and what a named mutex does after its
  owner's death differs between builds of Boost.
* Failures of Windows calls that create named objects, of Winsock's own start and of
  `resolve`; `ProcessMessage` of `TestYaml.h` and the template `serialize` of
  `MSocket01.h`, which nobody calls.
* What is inside OpenCL, clFFT, Boost, Asio and the Windows calls: taken from how
  the code uses them, with the assumptions named above.
* Files no program builds: `~!ClFftBase.txt`, `MemoryBaseXXX.h`, `cuda_node.*`,
  `duplex_memory.*`.
* Process-local pointers in shared memory (`std::vector<char>` in the earlier
  channel): memory is what was last written to it, so a reader in another
  process, for which such a pointer means nothing, is outside the model.
