# TLA+ verification of matrix-transposer

matrix-transposer is a server that transposes matrices for client processes on
the same machine. Its difficulty lies in the concurrency: two lock-free queues in
shared memory, a futex protocol between processes, a bank of client contexts two
server threads share through one atomic flag, unsynchronized worker threads, and
processes that come, go and crash. The modules here model those parts from the
code, TLC checks them on small instances, and TLAPS proves the central results
for every value of the constants.

## 1. The system

| Part | State it keeps | Operations | Talks to |
|---|---|---|---|
| `SpscQueueSeqLock` (`lib/spsc-queue`) | `head`, `tail`, `buffer` (plain), `seq` (atomic), in shared memory | `Enqueue`, `Dequeue` | producer = client, consumer = server's dispatcher |
| `SpscQueueRingBuffer` | `head`, `tail` (atomic), `buffer` | `Enqueue`, `Dequeue` | tests and benchmarks only |
| `FutexSignaller` (`lib/futex`) | one word in shared memory, the kernel's wait queue | `Wait`, `Wake` | client waits, dispatcher wakes |
| `SharedMemory` (`lib/shared-mem`) | a POSIX name, its object, mappings | constructor and destructor of owner and borrower | beneath queue, futex and matrix buffers |
| `transpose_server` | `clientBank`, `validClientsBitSet`, `clientBankUpdateAvailable`, `running` | `MessageHandler` (`AddClient`, `RemoveClient`), `WorkloadDispatcher`, `main` | IPC thread, dispatcher and main thread share it |
| `transpose_client` | `subscribeResponseReceived`, progress of its request loop | `main`, `MessageHandler` | socket, queue, futex, buffers |
| `UnixSockIpcServer`, `UnixSockIpcClient` (`lib/unix-socks`) | connections, bytes on them, `m_Running`, `m_ConnectionCount`, the batch of events | constructors, threads, `Send`, destructors | the two handlers |
| `TransposeTiledMultiThreaded`, `TransposeNaive` (`lib/mat-transpose`) | source, destination, blocks | one call | dispatcher; client's check |
| `SharedMatrixBuffer` (`lib/matrix-buf`) | row and column counts in 32 bits, a `SharedMemory` | constructor, accessors | client owns, server borrows |
| `ClientServerMessage`, `ClientStats` | a message's fields; times and a counter | `Generate...`, `Process...`; `StartTimer`, `StopTimer` | both programs |
| `MemoryUtils`, `Table`, benchmarks | none of the protocol's | - | - |

A client connects, creates its futex, queue and buffers, sends Subscribe and waits
for the response; then, request by request, it enqueues a buffer index and Waits;
at the end it sends Unsubscribe, compares the results with `TransposeNaive`,
sleeps for 10 ms and exits. In the server the IPC thread handles Subscribe by
filling a slot of the bank and Unsubscribe by retiring it; the dispatcher polls the
queues of the slots it knows in turn, transposes, Wakes the client and counts the
request. `PROJECT.json` lists what is hard to test in this, line by line
(`hazards`), with the properties that cover it.

## 2. Modules

| Module | Models | State and actions |
|---|---|---|
| `RingIndex` | the index arithmetic of both queues | `Inc`, and the segment of the array a pair of indices stands for |
| `SpscFifo` | what a queue promises | abstract bounded FIFO |
| `SpscQueueSeqLock` | the seq-lock queue | a step per access to shared memory; local variables of both calls |
| `SpscQueueRingBuffer` | the atomic queue | the same, with the index each side can see (`headSeen`, `tailSeen`) |
| `AutoResetEvent` | what the signaller promises | abstract event with one remembered signal |
| `FutexSignaller` | `Wait`, `Wake`, kernel | compare-exchanges and system calls as steps; a waker may be killed between them (`WakerDies`) |
| `ClientBank` | the server's three threads and the bank | a step per access to a field another thread uses |
| `UnixSockIpc` | the socket layer of both programs | `ServerThread` as a step per `epoll_wait`, event, `recv` and handler call; clients that connect, send, read and vanish; failing calls, stop, drain, join |
| `ClientServerMessage` | the fields of the messages | what `Generate...` writes and `Process...` reads |
| `TransposeSystem` | server and clients together | extends `ClientBank` and `ClientServerMessage`: the bank's actions conjoined with messages, sizes, queues, events, results, counters; the stop of the server and its refusals |
| `TransposeTiled` | the multi-threaded transposition | a step per element copied |
| `SharedMemory` | one shared-memory name | steps of the two constructors and destructors, failures, crash, the Subscribe between them |
| `SharedMatrixBuffer` | a matrix in shared memory | extends `SharedMemory`: its size from `m` and `n` in machine arithmetic |
| `*_proofs` | theorems about the module of that name and those it extends: `TransposeSystem_proofs` also about `ClientBank`, `SharedMatrixBuffer_proofs` also about `SharedMemory` | - |

In the composition the queue and the signaller appear as `SpscFifo` and
`AutoResetEvent`, which the detailed modules are proved to implement. A `Dequeue`
that fails because an `Enqueue` overlaps it is counted as one before that
`Enqueue`; this is sound as a client never has two requests in its queue
(`OneRequestPerWait`). Likewise the socket appears as a sequence of whole messages
in order, which is what `UnixSockIpc` shows of it (`HandlerGetsNext`).

Definitions named `X_Something` next to a definition `X` are deliberately wrong
variants of it: each property has one under which TLC refutes it (`mutants` in
`PROJECT.json`).

### Memory model

The queue `SpscQueueSeqLock` accesses `head`, `tail` and `buffer` with plain loads
and stores from two processes. The model admits what GCC on x86-64 can make of
them: the two plain stores of `Enqueue`, fenced by the two `fetch_add`, take effect
in either order; the consumer's store to `tail` may stay in the store buffer
(`tailSeen` lags behind `tail`). `running` of the server is a plain `bool` too, but
every iteration that reads it performs an acquire load as well, so the read is not
hoisted. Weakly ordered processors are outside the model.

### Simplifications, by name

* `SeqMod`: `seq` wraps there; any even number from 2 on, $2^{64}$ in the code.
* `IndexToAdd`: with no free slot the code uses an uninitialized index; the model
  takes any slot of the bank. An index outside it is undefined behaviour that the
  violated `LimitSuffices` already announces.
* `ClientBank`: messages of any running client arrive at any time in any order, a
  superset of what the clients send; at most `NumSlots` clients run. With
  `DeathAllowed` a client may vanish without its Unsubscribe being handled.
* `TransposeSystem`: a client is counted until the server has noticed its hang-up;
  `PromptServer` says that the IPC thread reads a message within the client's final
  10 ms. With `SetupMayFail` any constructor of `AddClient` or of the client's `main` may
  throw. `recv` of the server does not fail here: on a local stream with data in it the
  kernel reports no error, and `UnixSockIpc` has that branch. After the
  stop the handler may be called with the last message once more (`StaleCall`); it
  is followed for a sender that still runs, and a buffer nothing has been read into
  counts as a message of unknown type.
* `UnixSockIpc`: a message is `Chunks` pieces, `recv` returns any number of them;
  a `send` of a message's 20 bytes on a local stream is whole. `recv` and
  `epoll_wait` fail at any time under `CallsMayFail`. A descriptor is named after its
  connection: its number is reused only when no event of it is left in the batch.
  The client's thread reads whole messages, since the server's `send` is whole.
  Backlog, descriptors and the kernel's memory do not run out: `accept` and `epoll_ctl`
  do not fail. The constructors' failures end the program.
* `TransposeTiled`: an element of the source holds its own index as its value.
  Index products are not reduced modulo $2^{32}$; for the indices of an element of a matrix
  that could be mapped this changes nothing (`CountsMatchObject`).
* `SharedMemory`: the server opens a client's objects once for each Subscribe, which
  the client sends when all of them are ready; an owner with a Subscribe under way
  waits for the answer, unless it crashes. No process id is reused between the
  server's `shm_open` and its `mmap`, and `/dev/shm` is cleaned while the server is
  at rest.
* `SharedMatrixBuffer`: `WordBits` stands for 32. A shift by the width or more is
  undefined in C++; the model does what the x86 instruction does, the count modulo
  the width, as `m` and `n` are known at run time only.

## 3. Runs

All but two finish in under half a minute with two workers; `ipc` takes about a minute,
`system` three.

| Run | Instance | Shows |
|---|---|---|
| `seqlock` | capacity 4, two items, `seq` modulo 4 | `ImplementsFifo`, `NoSlotRace`, `FailsOnlyOnOverlap`, `EventuallyServed`, `IInv` |
| `ringbuffer` | capacity 4, two items | `ImplementsFifo`, `NoSlotRace`, `EventuallyServed`, `IInv` |
| `futex` | three waiters, two wakers that may die | `NoLostWakeup`, `ImplementsEvent`, `SignalConsumed` |
| `bank` | three clients, two slots, throwing constructors, stop | `NoUseAfterReset`, `HandoffExclusive`, `RemovesOwnSlot`, `LimitSuffices`, `IInv`, `HandlerReturns`, `EveryClientPolled` |
| `ipc` | two clients, batches of two, messages of two pieces, two messages, failing calls, stop | `HandlerGetsNext`, `RepliesReachSender`, `ReadNeverSpins`, `CountExact`, `KilledByDeserter`, `MessagesHandled`, `StopsUnlessPending` |
| `system` | two clients, two slots, two buffers, one repetition, throwing constructors, stop | `OneRequestPerWait`, `ResultsComplete`, `ServesOwnSize`, `LoggedTotals`, `EveryClientFinishes`, `WaitersWoken` |
| `transpose` | 4 x 8 matrix, tile 2, 0, 1, 2 or 4 threads | `WritersDisjoint`, `Correct`, `Returns` |
| `shm` | three objects, failures, crash, clean-up, words of 4 bits, exponents to 9 | `NoBusError`, `NoWriteErased`, `OwnerHoldsName`, `NameReleased`, `CountsMatchObject` |
| `bank_stop` | one client, stop | violates `StopsOnEnter` |
| `ipc_stop` | one client, no failing calls, stop | violates `StopsOnEnter` |
| `system_limit` | two clients, one slot, server not prompt | violates `LimitSuffices` |
| `transpose_small_matrix` | 2 x 2 matrix, tile 4 | violates `Correct` |

The type invariants of the queues and the bank are the first conjunct of their `IInv`,
which these runs check. The inductive invariants of the other components stand in their
proof modules; TLC has found no violation of them on the instances above.

Why the bounds are enough. Capacity 4 has full, empty, wrapped and partly filled
rings and lets the consumer's lag cover several slots; `seq` modulo 4 wraps within
one `Dequeue`; two items tell order and duplication apart. Three waiters and two
wakers let a waiter miss, another steal and a second `Wake` skip its system call.
Three clients for two slots make slots be reused and refused, by old and new ids;
clients come and go without bound. Two slots of polling are all the dispatcher's
scan distinguishes. For the safety properties the proofs remove all these bounds
(section 4); for liveness they are what the runs rely on. In `transpose` the zeroed first half of `blocks`, several blocks per thread and a
matrix that is not square all occur. Three connections ready at a time (two clients and
the listening socket) exceed a batch of two; two pieces are one message that can be
torn; two messages, from one client or from two, are what a buffer can confuse.
`MaxObjects` = 3 lets the name change hands twice. With words of 4 bits matrices have up
to 8 elements and the exponents 0 to 9 reach the width, twice the width and
beyond. Deadlock is checked where the system may not stop: in the queues and the
signaller. It is not checked in `bank`, `ipc` and `system` (the stopped server rests),
`transpose` (the call returns) and `shm` (the bound on objects).

### Fairness

* Queues: the consumer polls for ever (the dispatcher's loop), a producer finishes
  the call it is in and need not make another; store buffers drain. In `ringbuffer`
  the producer also retries, as the tests and benchmarks do.
* Futex: threads that are not asleep run; nobody need call `Wait` or `Wake`, and no
  spurious wake-up is relied on.
* Bank: the IPC thread inside its handler, the dispatcher and main run; no message
  and no Enter need come.
* Socket layer: the server's thread and each client's thread run. `epoll` moves what
  it has reported behind what it has not, so a descriptor that stays ready is in some
  later batch (strong fairness per descriptor). Nobody need connect, send or stop, and
  no call need fail.
* System: in addition each client runs once it has connected. The IPC thread gets
  to each ready connection again and again (strong fairness of `ReceiveFrom` and
  `Hangup`), for the same reason. A response is received as long as the server lives.
* Transposition: each thread runs.

### Disagreements the runs show

1. `bank_stop`: "Press Enter to stop the server" - the IPC handler can be left
   spinning on a flag only the dispatcher lowers, after the dispatcher has exited;
   the destructor then joins that thread for ever.
2. `ipc_stop`: the same promise - the drain after the server's loop closes every
   connection with an event but not the listening socket; a client that connects
   after the last accept keeps it turning for ever. `StopsUnlessPending` shows that
   this is the only way.
3. `system_limit`: the hang-up branch of the server's loop precedes the read, so an
   Unsubscribe not read within the client's last 10 ms is lost with its slot; with
   every slot lost `indexToAdd` is uninitialized although fewer than `MAX_CLIENTS`
   clients run.
4. `transpose_small_matrix`: `iEnd = iStart + tileSize, rowCount` declares a
   variable and clips nothing; a matrix smaller than the tile is accessed out of
   bounds (the client's default is 16 x 16, the server's tile 64).

Others that need no run of their own:

* A request is counted after its client has been woken: the total the server logs can
  be one short of the client's. `LoggedTotals` shows that it is never more than one.
* A borrower would create a missing object, after which the owner throws; the order of the
  two-process test (`tests/test_FutexSignaller.cpp:128-139`) allows it. In the demo
  Subscribe comes between the two, so that this branch of `BorrowerOpen` is never taken;
  dropping that order (`MayOpen_BeforeSubscribe`)
  breaks `NoWriteErased`.
* 0 worker threads pass the test for a power of 2: nothing is transposed and the
  clients are woken all the same (`Correct` says so).
* A failing `epoll_wait`, also one interrupted by a signal, ends the server's thread
  while `m_Running` stays true: the server goes on without anybody reading messages.
* The client's `m_ConnectionCount` is only ever decremented, from 0.
* `SubscribeResponse` carries `clientBank.size()`, always `MAX_CLIENTS`, as the number
  of clients.
* The comment "Wake up one waiting thread if any." stands beside a `FUTEX_WAKE` of
  `INT_MAX`, which wakes all.

## 4. Proofs

| Module | Theorems | Argument |
|---|---|---|
| `RingIndex_proofs` | `SlotsFit`, lemmas | the rounding of the buffer's size; distances and segments round the ring under one step of either index |
| `SpscQueueSeqLock_proofs` | `Invariance`, `TypeCorrect`, `SlotRaceFree`, `Refinement`, `FailureNeedsOverlap` | `IInv` |
| `SpscQueueRingBuffer_proofs` | `Invariance`, `TypeCorrect`, `SlotRaceFree`, `Refinement` | `IInv` |
| `FutexSignaller_proofs` | `TypeCorrect`, `WakeupsKept`, `Refinement` | `NoLostWakeup` is inductive with the types, dying wakers included |
| `TransposeSystem_proofs`, bank | `BankInvariance`, `BankTypeCorrect`, `ContextsSafe`, `HandoffSafe`, `RemovalExact`, `SlotFound` | `IInv`, and counting: fewer subscribed ids than slots |
| `TransposeSystem_proofs`, system | `SystemIsBank`, `SystemInvariance`, `NoRequestLost`, `ResultsThere`, `SizesMatch`, `TotalsLogged`, `ClientsKeepBankSafe` | `SysInv`, on top of the bank's `IInv` |
| `UnixSockIpc_proofs` | `Invariance`, `MessagesInOrder`, `RepliesNotMisdirected`, `ReadsProgress`, `CountIsExact`, `KilledOnlyByDeserter` | `IInv`: an account of every piece of every message |
| `SharedMatrixBuffer_proofs` | `Invariance`, `MemoryBehindMapping`, `FillsFreshObject`, `NameKept`, `NameFreed`, `CheckCoversObject`, `MatrixIsObject` | `IInv`; for the sizes, laws of exponents |
| `TransposeTiled_proofs` | `Invariance`, `NoWriteRace`, `TransposedRight` | `TiledInv`, and that the tiles partition the matrix |

With these, every invariant and every safety property that a passing run checks has a theorem.

Assumptions on the constants: the capacity of a queue is a power of 2 from 2 on (the
constructors throw otherwise; of the composition's queue only that it is not 0 is
needed), `SeqMod` is even, `None` is not an item or a client, `Base` not a client, sets
of clients are finite, the bank has a slot, a message has a piece, the connection counter
does not wrap on the clients there are, matrix sides and tile are positive. `PowersAssumption` of `SharedMatrixBuffer` is no
restriction but arithmetic ($2^{a+b} = 2^a 2^b$), which the provers do not know; TLC
evaluates it.

Hypotheses of theorems, each of which is needed:

* `DeathAllowed = FALSE` for the bank alone: `system_limit` shows a slot lost for good.
  `ClientsKeepBankSafe` shows that the client programs meet it while the IPC server runs.
* `PromptServer = TRUE` for the system: without it an Unsubscribe is lost with its
  connection, the client's context stays and a later client of that id shares it.
* `Repetitions # 0` for the system. The client accepts 0 (`atoi` of its argument); it then
  makes no request, its comparison fails and it leaves at once, without the sleep, so that
  its Unsubscribe may not be read. That is the loss of a slot again.
* `Whole` for the transposition, sides that are multiples of the tile: for others
  `transpose_small_matrix` shows accesses outside the matrix.

*Seq-lock queue.* `NoSlotRace` is not inductive: that the reader's slot differs from
the writer's follows from the room left when `Enqueue` checked `tailSeen`, and must
survive every later step. `RoomInv` keeps the account: lag of `tailSeen` plus
published items is below the capacity, with one slot more to spare while an
`Enqueue` is in progress. `ParityInv` says that `seq` is odd exactly between the two
increments, so that a reader that saw it even saw no half-written `head`
(`ReaderInv`). The refinement maps the queue to the segment from `tail` to the last
published head; an `Enqueue` takes effect at its second `fetch_add`, a `Dequeue` at
its store to `tail`. `QuietInv` gives `FailsOnlyOnOverlap`.

*Ring buffer.* The four indices `tailSeen`, `tail`, `headSeen`, `head` stay in this
order round the ring (`RoomInv`).

*Client bank.* `FlagInv`: the flag is down while the IPC thread may write the bit
set, up while the dispatcher copies it, and once down the copy is current.
`CopyInv`: the copy lags by the bit being set or cleared only. `BankInv`: which
contexts are subscribed, by the step the handler is at. `IdInv`: no slot below a
subscribed one holds its id; this is why a removal by id alone finds the right slot.
`AliveInv`: subscribed ids are running clients, no more than there are slots.

*System.* `SystemIsBank` comes first: a step of the composition is a step of the bank or
leaves the bank alone. `SysInv` then has two regimes. While the IPC server runs, the bank's
`IInv` holds and `ConversationOf` ties where a client's `main` is to what is on its socket
and whether it has a context: a client is subscribed from its response to its Unsubscribe,
and a client that has closed its connection has no unread message (here `PromptServer` and
`Repetitions` enter). Once `main` has joined the dispatcher and stops the IPC server the
handler may see old messages and contexts may be wrong, but nobody serves them any more
(`StopInv`). `OneRequestPerWait` is inductive only with `RequestOf`, which says that the
request under way is for the buffer the loop is at and that a signal implies its
transpose; `ContextInv` counts the requests of a context as those its client has finished,
but for the one between `Wake` and `StopTimer`.

*Socket layer.* `StreamOf` says where the bytes of a connection are: handled, in the
buffer (`ReadOf`), or on the socket in order up to the last message sent (`InOrder`).
`BufferInv` says that the buffer holds the first `totalRead` pieces of the next message.
`EventsInv` keeps the events of a batch true while the others are handled, which is why
`ReadNeverSpins` holds when a read starts; it is a part of the invariant itself, since the
event is consumed then. `CountExact` rests on one event per connection: none is closed
twice.

*Shared memory.* `FreshInv`: an object under construction is known to its owner alone.
`SubscribeInv`: between a Subscribe and its handling the name leads to a sized object,
whether its owner lives or has crashed; this gives the borrower memory behind its mapping
(`SizeInv`). `OpenInv` ties a borrower in its constructor to the owner's object.
`CheckCoversObject` adds what the constructor of the matrix has computed: when a count
or the product loses bits modulo $2^{32}$ the size is 0, which cannot be mapped. A mapped
matrix thus has fewer than $2^{32}$ elements, and division with remainder shows that the
client's loops reach each of them and that no index wraps. It says nothing of the
server's tiles, which leave a matrix smaller than a tile (`transpose_small_matrix`).

*Transposition.* A thread stays on blocks congruent to its number (`idx[t] % numThreads`),
so two threads are never in the same tile; `TilesDisjoint` and `TilesCover` show by
division with remainder that tiles do not overlap and leave nothing out. Every element
copied holds `TransposeNaive`'s value from then on, since nobody writes there again.

Model-checked only: the liveness properties `EventuallyServed`, `SignalConsumed`,
`HandlerReturns`, `EveryClientPolled`, `MessagesHandled`, `StopsUnlessPending`,
`EveryClientFinishes`, `WaitersWoken` and `Returns`. They rest on fairness, that is on
`ENABLED`, which the prover does not handle.

## 5. Not modelled

* `ClientStats`: times and averages; no decision depends on them.
* `ClientServerMessage::ToString` (unused), `ProcessSubscribeResponseMessage` (the client's
  handler does not look at the response at all), object names, `GetName` and the other
  accessors: they change nothing.
* Argument parsing, logging, the random contents of the matrices.
* `MemoryUtils`: queries of the system; the cache line size is a parameter of
  `CalculateBufferSize`. `Table`: formatting, included and unused.
* Benchmarks and tests: they exercise what is modelled above.
* Weakly ordered processors, and an index outside the bank.

## 6. Plan

Done: queues, signaller, bank, composition with refusals and stop, socket layer,
transposition, shared memory and matrix sizes, each with a proof of its safety properties.

Left to prove:

1. What remains of the system's theorems without `PromptServer`: the bit set, and the
   results of clients that do not share an id with a lost one.
2. The composition with the detailed queue and event in place of `SpscFifo` and
   `AutoResetEvent`; today the two refinements are proved one by one.
