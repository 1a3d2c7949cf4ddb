# A TLA+ verification of the image-processing engine

The engine takes raw frames over TCP, applies a chain of image filters to each
on the CPU or the GPU, and sends the result back. Its pixel arithmetic is
ordinary; what is hard in it is what happens around the pixels: reader, writer,
worker and acceptor threads that share a pool of slots, a bounded queue and one
outbox per connection; a byte stream that has to be resynchronised after every
malformed frame; and a GPU backend that keeps several frames in flight, caches
compiled kernels and replaces its driver context when the driver fails. This
directory models those parts, checks them with TLC and proves with TLAPS every
safety property that the passing runs check.

## 1. Inventory

| Component | State | Operations | What makes it correct |
|---|---|---|---|
| Slot pool (`util/slot_pool.*`) | free list, owner per slot, held per owner, closed, waiters | claim, release, close | a slot is free or owned, once; the per-owner cap; no lost wakeup; close frees all waiters |
| Bounded queue (`util/bounded_queue.h`) | items, high-water mark, closed, two sets of waiters | push, pop, try_pop, close | capacity, FIFO, no lost wakeup with `notify_one`, close drains |
| Server (`net/server.cpp`) | per connection: socket, outbox, outstanding count, reader and writer; shared: pool, queue, in-flight table, connection list | reader, writer, worker and acceptor loops, start, stop | slots conserved, every frame answered once and with its own image, stop() returns and leaves nothing behind |
| Wire protocol (`net/protocol.*`) | none | pack, unpack, validate, disposition | what is accepted fits a slot, whatever the integers do |
| Client and framing (`net/client.cpp`, `net/socket.cpp`, `reader_loop`) | two byte streams, pending map, bytes still unread | send, send_raw, receive, read, drain | both ends agree on where the next header starts; answers reach the right request |
| Backend contract (`backend/backend.h`) | state of each job | submit, poll_completions | each job settles once and is returned once |
| CUDA backend (`backend/cuda/cuda_backend.*`, `kernel_cache.*`) | context, streams, cache, completions | allocate_slots, prewarm, submit, poll_completions, recreate_context | the contract, across driver faults; no frame gets another's image or parameter |
| Driver handles (`backend/cuda/cuda_raii.h`, backend members, `worker_main`) | contexts, modules, streams, events, buffers, registrations, slot memory | construct, unwind, recreate, destroy | nothing leaks, dangles or is destroyed twice; slot memory is not freed under its readers; a context dies on its own thread (it does not always, section 5) |
| Op chains (`core/op_chain.*`) | none | parse, canonical text | exactly the documented texts; the canonical text parses back |
| Kernel key and cache (`core/kernel_key.*`, `backend/cuda/kernel_cache.*`) | entries | equality, hash, get, clear | one entry per kernel, none for two |
| Fusion planner and codegen (`backend/cuda/codegen.cpp`) | stages, kernels | plan_stages, emit_stage | fused kernels compute the chain in its order with the frame's parameters, within the hardware's limits |
| Generated kernels | shared tile, destination | load, barrier, taps, store | every byte computed from the samples the CPU uses; no thread stuck at a barrier |
| CPU backend (`backend/cpu/cpu_backend.cpp`) | completions | submit, poll_completions | the contract, in order |
| CPU ops (`backend/cpu/ops.cpp`) | none | one function per op | the reference for the kernels' sampling; arithmetic not modelled |
| Tools (`tools/`) | none | option checks, backend factory, client loop | partly, see section 8 |
| Image files, benchmarks | | | not modelled, see section 8 |

Interaction: a reader claims a slot, receives the payload straight into it and
pushes a frame on the queue; the worker pops it, submits it to the backend, polls
for completions, releases the slot and pushes the response on the connection's
outbox; the writer sends it. `stop()` shuts sockets down, closes pool and queue
and joins the threads. The backend is called from the worker only.

The hard behaviours are the interleavings of these threads, condition variables
with `notify_one`, shutdown in the middle of anything, clients that stop reading
or disappear, completions out of order, driver faults between any two calls, and
fixed-width arithmetic on lengths a client chooses. `PROJECT.json` lists them as
hazards, each at its line and with the properties that watch it.

## 2. Modules

| Module | Models | Properties live in |
|---|---|---|
| `SlotPool` | the pool with its condition variable | itself; `SlotPoolProofs` |
| `BoundedQueue` | the queue with both condition variables | itself; `BoundedQueueProofs` |
| `Server` | all threads of the server | itself; `ServerProofs` |
| `Protocol` | header codec, validation, dispositions (pure operators) | `FramingProofs` |
| `Framing` (extends `Protocol`) | client and reader over byte streams | itself; `FramingProofs` |
| `JobService` | the IBackend contract, abstractly | |
| `Completions` | completions and the refinement mapping both backends share | |
| `CudaBackend` (instantiates `JobService`) | GPU backend, kernel cache, recovery | itself; `BackendProofs` |
| `CpuBackend` (instantiates `JobService`) | CPU backend | itself; `BackendProofs` |
| `BackendLifetime` | driver handles, slot memory and the worker thread that owns them | itself; `BackendLifetimeProofs` |
| `OpChain` | op table, parser, canonical text (pure operators), and the grammar they are checked against | `FusionPlan`; `FusionPlanProofs` |
| `KernelKey` (extends `OpChain`) | key equality and hash, limits of tile, constants, taps and shared memory (pure operators) | `FusionPlan`; `FusionPlanProofs` |
| `FusionPlan` (extends `KernelKey`) | parsing, cache lookup, planning, kernel arguments, launching | itself; `FusionPlanProofs` |
| `TiledKernel` (extends `KernelKey`) | one launch of one generated kernel, thread by thread, and the CPU's sampling | itself; `TiledKernelProofs` |
| `MC*` | constants for TLC | |

How the state corresponds to the code:

* **Condition variables.** A thread is `idle`, `asleep` (in the wait set), `woken`
  (notified, waiting for the mutex) or `notify` (has unlocked and not notified
  yet). A critical section is one step. Spurious wakeups are allowed anywhere.
* **Server.** `rpc`, `wpc`, `kpc`, `apc` and `spc` are the program counters of the
  readers, the writers, the worker, the acceptor and the caller of start() and
  stop(). A step is a blocking call or a critical section, so `retire()` is four
  steps (look up, release, respond, `job_retired`). The pool and the queue appear
  as their blocking predicates, which is what `SlotPool` and `BoundedQueue`
  justify: a waiter whose predicate holds is woken. A frame is its connection,
  sequence number and kind: good, bad but skippable ("drain"), or ending the
  connection ("close"). Socket buffers hold `RecvBuffer` frames and `SendBuffer`
  responses, so flow control blocks both directions. The history variable `dropped`
  notes the frame a reader gives up: its slot was refused, its payload broke off, or
  the queue was closed.
* **BoundedQueue.** `capacity_` is what the constructor makes of the capacity it is
  given, and `depths` is a history of the depths the queue has had.
* **Framing.** Streams are sequences of bytes, headers are really packed and
  unpacked. `Byte` is the number of values of a byte: 256 in the code, 8 in the
  runs, so that TLC's 32-bit integers hold the products; `U16`, `U32`, `U64` are
  its powers and keep their relation. The proofs hold for every even `Byte` above 6,
  so that the status codes are bytes.
* **CudaBackend.** `submit()` is split where it may wait for the GPU. A driver error
  is sticky (`poisoned`) and any later driver call throws. The rebuild may end
  with no context, or a context with fewer streams than asked for. An image is
  the handle it was computed for and the parameter used.
  A kernel compiled in another context than the current one yields no image.
* **BackendLifetime.** A handle is its context, its kind and a number; a context is
  named after the thread that made it. A wrapper that exists holds its handles, so
  the backend is a record of them. `Destroy` takes the destroy calls in their order
  and notes those on handles that are gone. Any create call may fail; in a poisoned
  context all do, and destroy calls there only report. An exception unwinds
  `building`, the members of the object under construction.
* **OpChain.** A text is a sequence of lexemes: blank, comma, colon, word, number. A
  parameter is an integer number of hundredths, which is what the code rounds to and
  hashes; a number in a text has thousandths, so rounding has something to do. Halves
  round as in the code, where strtof comes first: 0.095 is nearest to a float below it
  and becomes 0.09, 4.005 to one above it and becomes 4.01 (`float_is_below`).
* **KernelKey.** The hash is the byte string that FNV-1a is run over.
* **FusionPlan.** An image is the sequence of ops applied to the frame, so "computes
  the right thing" is equality of sequences. The parameter of an op is the
  kernel's literal, or the argument the executor passes for its position.
* **TiledKernel.** A sample is the index of the source byte it was read from, a result
  the sequence of its samples in the order they are weighted and added: two filters
  that agree on that, with the same weights, agree on the pixels. A load-loop
  iteration of one thread is a step; the barrier is a step of all of them. Blocks
  share only what they read, and run one after another in any order.

`X_something` definitions beside a definition `X` are variants of it with a plausible
mistake; they are not used by any specification, and exist to show that a
property would notice (`PROJECT.json`, "mutants").

## 3. Runs

| Run | States | What it shows |
|---|---|---|
| `slot_pool` | 30 thousand | slot accounting, cap, wakeups; `RunnableClaimerWakes`, `CloseFreesWaiters` |
| `bounded_queue` | 455 thousand | capacities 0, normalised to 1, and 2: depth and high-water mark, `notify_one` suffices, order, close drains |
| `server_shutdown` | 2.0 million | two clients, every kind of frame, clients may die, stop() at any time |
| `server_restart` | 92 thousand | stop() returns from every state, with clients that neither read nor hang up, or die; start() again after a failure or a stop(): slots are conserved |
| `server_clients` | 131 thousand | a client that sends five frames before reading gets five answers |
| `cuda_backend` | 273 thousand | four jobs, two streams, a fault anywhere, kernels baked or parameterized; refines `JobService`; every job returns |
| `framing` | 320 thousand | every kind of request twice, hang-ups; documented statuses and the one departure from them, no frame larger than its slot, every frame the reader comes to answered |
| `fusion_plan` | 246 thousand | from text to pixels: the parser against the grammar, the canonical text, limits of generated kernels, one cache entry per kernel, every frame its own chain |
| `tiled_kernel` | 40 thousand | tiled, naive and pointwise kernels against the CPU's sampling, under every interleaving of the threads of a block |
| `backend_lifetime` | 19 thousand | handles and slot memory across failed starts, poisoned contexts and failed recoveries |

No run repeats a type invariant: a variable that left its type would break the
properties that use it. `SlotPool` states one because its proof needs it.

Two runs are expected to fail; each checks what a comment or document says:

| Run | Claim | What happens |
|---|---|---|
| `server_outbox_depth` | the outbox depth is bounded in practice (server.cpp:48) | slots are released before the response is written, so the reader keeps going while the writer is stuck with a response it cannot write |
| `framing_long_chain` | chain_len is the chain's length (PROTOCOL.md:21) | Client::send truncates it to 16 bits and sends the whole chain |

Deadlock is checked wherever a run does not say otherwise. `Framing` and
`FusionPlan` stop when the bounded client has sent, or the bounded launcher has
launched, everything; a kernel ends (that it does is `KernelFinishes`), and a server
that is destroyed has nothing left to do: there it is off. `Server` and `BoundedQueue` have an explicit
`Terminated` step for the one state in which they may rest.

### Bounds

* Slot pool: three connections, three slots, cap two is the smallest instance in
  which one waiter is at its cap, another is not, and a release frees a slot only
  the second can use. Two other threads give concurrent release and close.
* Queue: one place and three producers make producers wait for each other's
  notifications; two places and two values of one producer make a wrong order visible.
  The constructor is called with 0 and with 2.
* Server: two connections are needed for crossed responses and for one slow client
  beside a fast one; two slots for two jobs in flight; two starts for the closed
  queue. Two frames of one client fill its socket buffer and leave the writer stuck
  (`server_restart`); five frames fill every buffer between client, reader, slot,
  outbox and client (`server_clients`, and `server_outbox_depth`, whose property
  asks for a writer that is blocked). `MCServerShutdown` uses symmetry over connections (no liveness in it).
* CUDA backend: two streams and four jobs fill all streams, stall once, and leave a
  job for the aftermath of a fault.
* Framing: two requests show that the second header is found whatever the first was,
  and that answers in either order find their request. Among the requests are one
  whose dimension product wraps in 32 bits, and two whose product wraps in 64 bits
  and whose dimensions are negative as an `int`.
* Fusion: all chains of up to three ops of the four shapes (pointwise or stencil, with
  or without a parameter) and one of five with a prologue, two stencils and two
  epilogues; one, two and three stages make odd and even numbers of buffer swaps. The
  texts are all sequences of up to `MaxLexemes` = 4 lexemes and every insertion,
  deletion and replacement in a well-formed one of twelve. Numbers lie on both sides
  of the gaussian's bounds before and after rounding. Tile edge 32 and sigma 4 are
  the extremes of the limits that `GeneratedKernelFits` is about; 33 is refused by main().
* Tiled kernel: block edges 1 and 2 (`kNaiveBlockDim` is 16 in the code, 2 in this run)
  and images of 1 to 3 pixels a side, so that blocks hang over both edges; radius 2
  is wider than the tile and reaches over the whole image. The threads of one block
  share the tile, and four of them take up to 36 cells in turns.
* Backend lifetime: two streams, so that one is whole when the other fails; three
  starts, so that a failed one is followed by another failed and a successful one; three
  contexts, so that a recovery can fail and be repeated.

### Fairness

Threads that can run do (weak fairness per thread); the worker keeps polling while
it has jobs, because its loop does; the backend finishes what it was given, which
is what `JobsReturn` shows of the CUDA backend. A thread inside the pool or the
queue gets the mutex. Nothing makes a client send, read or hang up, and nothing
makes anybody call start(), stop(), claim or push. The threads of a kernel run and its
blocks are scheduled, as the hardware promises. Only `server_clients` assumes
something of clients, as the property is about them: they send until done, then
read, and their connection request is accepted in the end (strong fairness: the
acceptor polls the listener for ever).

## 4. What is proved

For every value of the constants that satisfies the named ASSUMEs:

* `SlotPoolProofs`: `TypeOK`, `FreeOrOwned`, `HeldWithinCap`, `NoLostWakeup` and
  `LoudOwnerCannotStarve` are invariants. The inductive invariant `IInv` joins
  `TypeOK`, `FreeOrOwned`, `HeldWithinCap` and `NoLostWakeup`: the free list has to be
  duplicate-free for a claim to keep a slot's owner unique, the counts have to be
  exact for `can_claim` to mean what it says, and the wakeup invariant needs both.
  `OwnedAfterTake` and `OwnedAfterRelease` do the counting with the library's theorems
  on cardinality. `LoudOwnerCannotStarve` follows from `IInv` by counting slots.
* `FramingProofs`, in three layers, for every word size, limit, number of requests and
  order of completions.
  * *Integers.* `AcceptedFramesAreSafe`: the 64-bit product alone does not rule out a
    wrapped product; the proof shows that dimensions which survive the narrowing to
    `int` are below half a word each and their product with at most four channels
    cannot wrap (`UsableProductsDoNotWrap`). `DrainIsBounded` bounds the bytes drained.
  * *Requests.* `FramesFitTheirSlots` (`AcceptedFramesFit`) rests on `ReaderInv`: streams are
    sequences of bytes, `header` is a request header, and a header was accepted whenever
    the reader is past it; decoding any 25 bytes gives fields in their ranges
    (`DecodeMakesHeader`). `ReaderKeepsItsPlace` (`HeadersIntact`) rests on `StreamInv`: there is
    a table of positions, one per frame sent, relative to the reader, such that the
    stream holds each frame's bytes at its position, and the reader's own state says
    which position it stands at. Packing and unpacking are inverse on header fields.
  * *Answers.* `AnswersFindTheirRequests` (`ResponsesMatchRequests`) and
    `StatusIsDocumentedOrWrapped` (`StatusDocumentedUnlessWrapped`) rest on `AnswerInv`: there is a ledger of
    answers, each for one request taken and with a status its checks allow, no request
    twice; its head has been received, its tail lies on the response stream, and
    requests that are not in it are with the reader or among the jobs. The documented
    check of the dimensions and the code's differ in the frames whose product wraps and
    in no other (`DimensionChecksDiffer`), and no backend takes one of those.

  The three theorems of the last two layers name what they need of the constants.
  `LengthsFit`: chains and images passed to send() are shorter than their length fields can
  tell; nothing in Client::send enforces it for the chain, and without it the theorem
  is false (`framing_long_chain`). `LimitsAgree`: the server's payload limit is not above
  the client's constant, as protocol.h:35-38 prescribes. Nothing is assumed of the
  dimensions in a header. The instance of the run `framing` satisfies both.
* `BackendProofs`, CPU: `CpuReturnsInOrder` and `CpuImplementsContract`, the refinement of
  `JobService`. `CpuInv` says that what was returned and what waits are together the
  handles 1, 2, 3, ...; so a job's position is its handle, and the state that the
  mapping `JobState` gives it can be read off that position (`StateReadOff`). A
  submission then settles one job, and a poll returns exactly the settled ones.
* `BoundedQueueProofs`: `WithinCapacity`, `SleepersAreAnnounced` and
  `NothingLostOrReordered`, for any capacity the constructor is given and any number of
  producers, consumers and values. `WithinCapacity` says that `high_water` is one of the
  depths the queue has had and the greatest of them. Why `notify_one` suffices is counting: while somebody sleeps, every free place
  (or queued item) is matched by a notification still to come or a thread already
  woken. A push and a pop change both sides by one, and a notification moves one from
  the first kind to the second.
* `ServerProofs`: `SlotsConserved`, `OutstandingExact`, `NoResponseDropped`,
  `EveryFrameAnsweredOnce`, `ImagesMatchRequests`, `StopLeavesNothing`, for any number of
  connections, frames, slots, buffers and starts. A frame is a token. It is with its
  reader, in the queue, in the in-flight table or in the worker's hands, and
  `Travelling(X)` counts the tokens with property X (of one slot, of one connection, of
  one sequence number); every step moves one token or none. So the owner of a slot, the
  outstanding count and the answers can be read off the tokens. The invariant also
  needs: handles in the table are distinct (`HandlesOK`), the threads' program counters fit
  each other and start() and stop() (`ControlOK`), an outbox is closed only when nothing
  is owed (`ClosedOutbox`), frames lie on the wire in sequence (`WireInOrder`), and what
  lies in a slot is what its frame says (`ImagesOK`). `EveryFrameAnsweredOnce` excuses one
  frame per connection, the one its reader gave up before the queue had it: that such a
  frame is the reader's last, that its connection is broken or the queue closed, and that
  no token of it is left is `DroppedOK`, for which `ShutFirst` orders the steps of stop(). `StorageOutlivesReaders` is proved
  for `MaxStarts <= 1`: every program in the repository starts its server once, and with
  two starts it is false (section 5).
* `BackendProofs`, CUDA: `EachJobOnce`, `ImagesAreOwn`, and `ImplementsJobService`, the
  refinement of `JobService`, for any number of jobs and streams. Again a handle is a
  token: on a busy stream, in the hands of claim_stream, in `completed_` or returned. A
  sweep and a recovery move as many tokens of each handle to `completed_` as they take
  from the streams; the loop over `streams_` visits each slot once and in ascending order,
  and that such an order exists is shown by descent on its length. `StepMoves` says
  that every step submits, settles, or polls; each of these is a step of the contract
  under the mapping. The image of a frame is its own because a cached kernel is of the
  current context (`CacheOK`), is found only under the frame's own parameter, and a busy
  stream carries the image of the handle it is busy with (`StreamsOK`).
* `BackendLifetimeProofs`: `DriverHandlesAccounted`, `SlotMemoryStaysPut` and
  `OnlyOrphansDieElsewhere`, for any number of streams, starts, contexts and modules. At
  any moment there are at most two backends, each with at most one context; all they
  hold is in their context, and everything that exists is in one of the two (`LiveOK`). So
  a teardown in an order that ends with the context removes just what it names. The
  two contexts differ as their threads do (`Apart`). Induction also needs that a
  half-built slot shares no handle with the slots before it (`Numbers`, `Disjoint`):
  otherwise its unwinding could take theirs away. That every orphaned context does die
  elsewhere needs `Elsewhere`: a worker thrown out of allocate_slots() has destroyed no
  context before and comes to no destructor after.
* `FusionPlanProofs`, for texts and chains of every length and any number of frames.
  * *The plan and the kernels*: `FusionIsBounded` (`FusionBounds`), `KernelsAlwaysFit`
    (`GeneratedKernelFits`), `NoKernelCompiledTwice` (`OneEntryPerKernel`) and
    `EveryFrameGetsItsChain` (`ImageIsTheFramesChain`). The invariant `IInv` says that the
    chain's parameters are in range (`RequestOK`), that the stages planned so far cut the
    ops so far into consecutive runs, each but the first opening with its stencil
    (`PlanOK`), that no block is too large (`ProgramFits`), that every cache entry runs the
    chain of its key and no two have equal keys (`CacheOK`), and that the buffer the next
    launch reads holds the ops of the stages before it, with the frame's own parameters
    (`LaunchOK`, `ResultOK`). That the limits of the hardware suffice is
    arithmetic over the ranges of the op table.
  * *The parser*: `ParserTakesTheGrammar` (`ParserMatchesGrammar`). Each turn of the loop takes
    what lies between two commas. One turn is what the grammar says of a segment,
    whatever the blanks in it; a text with a segment that is no op is rejected, since
    the loop stops at the first such segment, and one without is taken to its end.
    `GrammarInv` carries what was found at parsing through the steps that follow.
  * *The canonical text*: `CanonicalTextReadsBack` (`CanonicalRoundTrip`). The text has one
    segment per op, and a segment printed from an op in range is read as that op: the
    sign, the whole part and the decimals give the number back, and rounding leaves
    it as it is.

  The parser, the canonical text and the running of a kernel's body are loops, written as
  recursive functions. The provers have no induction over data, so the arguments are by descent:
  among the positions at which a statement fails there is a least (or greatest) one, which
  the well-foundedness of the naturals provides, and it is shown to have another before it.
* `TiledKernelProofs`: `KernelMatchesCpu` (`ImageMatchesOracle`), for every size of image, tile,
  block and radius, and every interleaving of a block's threads. Of the tile, a thread
  loads the cells congruent to its number modulo the number of threads; the invariant
  says that it has loaded those below its loop counter, each with the pixel at its place
  around the block, clamped to the image. Past the barrier the tile is therefore whole.
  A pixel whose thread is done is painted as the CPU paints it; the grid covers every
  pixel once (`GridCovers`, `AddressUnique`) and two pixels share no byte, so later steps leave it alone.

The assumptions are otherwise those of the modules: positive sizes, supported channel counts,
`Nil`, `None` and the like are not values of the data they stand beside. The inductive
invariants were checked with TLC on the runs' instances before they were proved; the
exceptions are `StreamInv` and `AnswerInv`, which say that a table or a ledger exists
and so cannot be enumerated. There TLC checked the properties that follow from them.

Only model-checked is liveness (`RunnableClaimerWakes`, `CloseFreesWaiters`, `CloseDrains`,
`StopTerminates`, `PipelinedFramesAnswered`, `JobsReturn`, `FramesAnswered`, `KernelFinishes`), which
is beyond this prover, as is `ENABLED`.

## 5. Observations beside the runs

* The 64-bit product in validate_request_header still wraps for 2^31 x 2^31 x 4. Such a
  header with a payload length of 0 passes the check that PROTOCOL.md:71 gives status
  5 for; the backends then refuse the negative width and the client sees status 6.
  Nothing is read out of bounds (`AcceptedFramesAreSafe`). The run `framing` sends such
  frames, and `StatusDocumentedUnlessWrapped` says that they, and no others, are answered
  with 6 (or 4, when their chain does not parse) in place of the documented status.
* cuda_backend.h:133-135 says that `busy` is cleared in one place, after the event.
  recreate_context() clears it too, without asking the event. It is harmless: the slot
  is destroyed next (`ImagesAreOwn`).
* stop() closes the queue last, with the comment (server.cpp:283-287) that otherwise
  jobs "are never retired". `pop` drains a closed queue, so they would be; what the
  order is needed for is that the worker, and with it the slot storage, outlives the
  readers (`StorageOutlivesReaders`).
* The comment at protocol.cpp:54 says that `chain_len` is bounded when a frame is
  drained. When the chain is over its limit only the 16 bits of the field bound it
  (`DrainIsBounded` states the real bound).
* A context that comes back without streams (a failing attach or allocation) is
  never rebuilt again unless a later driver call fails: frames are refused with a
  logic error, which does not trigger recovery. Every job is still answered.
* A queue that a failed start() (server.cpp:245) or a stop() (298) has closed is never
  reopened. A later start() succeeds all the same; its worker finds the queue closed,
  leaves at once and destroys the backend, while the acceptor accepts connections
  whose readers still receive into the slots of that backend. With two starts TLC
  reaches that state in nine steps, which is why `StorageOutlivesReaders` is checked
  with one start only (`server_shutdown`). server.cpp:232-235 says that a failed start
  never shows "as a server that accepts connections and then cannot serve them", and
  backend.h:110-114 that slot storage lives as long as the backend. imgjit-server
  itself starts once.
* If allocate_slots() throws (server.cpp:315-318), worker_main returns without resetting
  the backend, which is then destroyed by whichever thread destroys or restarts the
  server. The comments at cuda_raii.h:20-21 ("only that thread destroys it"),
  cuda_backend.h:57-58 and server.cpp:326-327 are wrong of these backends, always, and
  right of all others: that is what `OnlyOrphansDieElsewhere` says. Their handles are
  still all given back.
* `SlotMemoryStaysPut` sees memory that is freed or another backend's. Pages are named by
  their worker, so a change of address is not expressible; `memory_` is assigned in the
  constructor of RegisteredHostBuffer only.
* If cuMemHostRegister fails in the constructor of RegisteredHostBuffer, memory_ is a raw
  pointer of an object whose destructor will not run: the pages leak (`RegisterThrows`).
* A parameter far out of range (1e30) is rounded and formatted for the error message:
  lround is out of its range there, and labs(LONG_MIN) undefined. The model takes
  numbers that fit, where rounding and ranges are what the code computes.
* Two keys whose FNV hashes collide cost a comparison, never a wrong kernel: the map
  compares keys (`Found`).

## 6. Plan

Done: the server and its threads, wire protocol and framing, both backends with the
lifetime of their resources, the way from a chain's text to its pixels, and the proofs of
their safety properties. Left: `Outbox` with its condition variable, as `BoundedQueue` has
it, and its proof along the same counting argument.

## 7. Running

    tlc -workers 2 -config MCSlotPool.cfg MCSlotPool
    tlapm SlotPoolProofs.tla

and likewise for the other modules; `PROJECT.json` pairs each cfg with its module.

## 8. Not modelled

Floating-point arithmetic on samples and weights (`cpu/ops.cpp`, the bodies of the
generated kernels): TLA+ has no floating point; what is modelled is which samples are
combined in which order. The wording of generated source and of messages. What strtof
makes of more than three decimals. The condition variable inside `Outbox`. Image files and PNG output, except
that a failed save turns an ok response into an error. Socket set-up and options.
Statistics. Argument parsing of the tools, the one-shot tools `imgjit-cli` and
`imgjit-spike`, and benchmarks: sequential callers of modelled parts. Vendored libraries.

Two hazards are left to others. Closing a connection with unread bytes in its receive
buffer (server.cpp:531) makes TCP reset it, which may destroy the error response on its
way; the model delivers what was written. And a server configured with a larger payload
limit than the client's constant (client.cpp:82) sends echoes that the client takes
for malformed; the model keeps the limit below the constant, as protocol.h:35-38
prescribes and ServerConfig does not enforce.
