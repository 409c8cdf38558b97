# A verification development for ftj-ssd-sim

TLA+ models of the storage engine of this repository, the TLC runs that check
them on small instances, and proofs checked by TLAPS that hold for every
instance. Paths below are relative to the repository's root.

## 1. The system

`ftj-ssd-sim` simulates a solid-state drive built from ferroelectric tunnel
junctions. It exists twice: as a C++ engine (`include/ftj_engine.hpp`,
`src/ftj_engine.cpp`) that the benchmarks, the analysis tool and a WinFsp
virtual disk call, and as Verilog (`hdl/`) for an FPGA prototype.

| component | state | operations | interacts with |
|---|---|---|---|
| NVMe queue rings (`LockFreeRingBuffer`, `NVMeQueuePair`) | cells with a sequence number, enqueue and dequeue positions | `Push`, `Pop` from any number of threads, without locks | clients and backends |
| Queue-pair benchmark (`src/main.cpp`, benchmark 4) | counters of submitted and reaped operations, `backend_active` | client, backend and main threads | rings, controller |
| Flash translation layer (`FTJController::Write`, `Read`, `RunGC`) | mapping and its inverse, valid flags and counts, free lists, hot counters, page contents, under `mapping_mutex_` | out-of-place write, read, garbage collection | ECC, physics |
| SECDED ECC (`CalculateECC`, `DecodeAndCorrect`) | one ECC byte per 8-byte chunk | encode on write, decode on read | translation layer, drift |
| Crossbar physics (`SetPhysicsConfig`, `TriggerAutonomousRefresh`, `SimulateRetentionDrift`, `CalculateEffectiveVoltage`, ...) | disturb and wear counters (atomics), configuration under `physics_mutex_` | formulas, refresh, drift | shares pages and counters with Read and Write |
| Latency injector | calibration (static) | busy wait | Read, Write |
| Burst coalescer | staging pages under `mtx_`, atomic counters | `PushWrite`, `FlushToFTL`, `Reset` | calls `FTJController::Write` with its lock held |
| Virtual disk (`src/win_vdisk.cpp`) | file nodes with reference counts, name map, file data, the special file `ftj_disk.bin` | create, open, overwrite, read, write, resize, rename, read directory, can-delete, cleanup, close | WinFsp calls it; `FTJController` behind the special file |
| Virtual disk service (`src/win_vdisk_srv.c`, `memfs.h`) | the file system it made | start, stop | virtual disk |
| RTL submission queue (`hdl/ftj_submission_queue.v`) | pointers, full flag, memory | write, read in one clock edge | host, engine |
| RTL write pipeline (`ftj_bdi_encoder.v`, `ftj_word_serializer.v`, `ftj_compressor.v`, `ftj_byte_assembler.v`, wired in `ftj_chip_top.v`) | one state machine each | valid/ready handshakes | each other, top controller |
| RTL top controller (`ftj_top_controller.v`) | AXI front end, remap table, collection and refresh states | AXI transactions | NAND model |
| RTL NAND model (`nand_flash_model.v`) | array, busy state machine | program, read, erase | top controller |
| Testbenches, UVM, harnesses, analysis tool, web pages, scripts | drivers and presentation | | |

### What is hard here, and what makes each part correct

* **Rings.** Threads interleave between the load of a position, the load of a
  turn, the compare-exchange, the write of the data and the publication. Correct:
  one thread in a cell at a time, no entry lost, duplicated, reordered or read
  before it is written, refusals only at a full or empty ring, every entry
  delivered in the end.
* **Benchmark.** Any client takes any completion, a call fails while a cell of the
  ring is still held by another thread, and three kinds of threads end by
  watching each other's counters. Correct: as many requests are under way as clients
  wait, every operation is executed and reaped once, by some client, and the
  backends stop.
* **Translation layer.** Long sequences of legal writes drive mapping, free
  lists and counts through collections that may only half succeed. Correct: a
  read returns what was written last; a free page holds no data; mapping and
  inverse agree; a write is refused only when nothing can be reclaimed; the
  collector stops.
* **ECC.** Drift, partial rewrites and read flips combine. Correct: an error is
  noticed, and what is accepted is what was written.
* **Coalescer.** Slots are shared by pages that hash alike; flushing is partial
  and may fail. Correct: what the buffer does to one part of a page costs no other
  part anything, then or later, and the depth others see without the lock is exact.
* **RTL.** Back-pressure and simultaneous handshakes, a controller that is busy for
  thousands of cycles while the next burst arrives. Correct: each stage loses,
  duplicates and reorders nothing; every burst and read is answered once, and after
  it was complete.
* **Virtual disk.** Files deleted, replaced or renamed while handles are open,
  directories read in several calls while they change, sizes and allocations set on
  either side of each other, the special file in every operation. Correct: a node
  lives exactly as long as the map or a handle refers to it; no insertion finds its
  name taken; the tree stays closed;
  a reading of a directory misses nothing; a file is a flat sequence of bytes and its
  buffer has room for it.

`PROJECT.json` lists every hazard at its line, with the properties that cover it.

## 2. The modules

| module | what it is | code |
|---|---|---|
| `BoundedQueue` | abstract: a bounded FIFO queue of entries of several producers | - |
| `LockFreeRingBuffer` | one action per shared-memory access of `Push` and `Pop` | `include/ftj_engine.hpp:205-282` |
| `LockFreeRingBufferProofs` | its theorems | |
| `QueuePairBenchmark` | the threads of benchmark 4 around two bounded queues | `src/main.cpp:411-511` |
| `QueuePairBenchmarkProofs` | its theorems | |
| `FTJController` | `Write`, `AllocatePhysicalPage`, `RunGC`, what `Read` returns | `src/ftj_engine.cpp:118-172, 423-433, 488-725` |
| `FTJControllerProofs` | its theorems, and those of `SecdedEcc` | |
| `SecdedEcc` | one chunk of 64 bits and its ECC byte | `src/ftj_engine.cpp:271-372, 434-478, 535-565` |
| `BurstCoalescer` | staging, flush, reset | `src/ftj_engine.cpp:731-857` |
| `BurstCoalescerProofs` | its theorems | |
| `BoundedFifo` | abstract: a clocked FIFO, port by port | - |
| `SubmissionQueue` | the RTL queue, one clock edge a step | `hdl/ftj_submission_queue.v` |
| `SubmissionQueueProofs` | its theorems | |
| `MemFs` | names, file nodes, reference counts, handles, directory readings | `src/win_vdisk.cpp:202-313, 345-392, 435-460, 649-893, 1117-1453, 1742-1833, 1898-1998, 2553-2614` |
| `MemFsProofs` | its theorems | |
| `FlatFile` | abstract: a file is a sequence of bytes | - |
| `MemFsFile` | the data of one file: size, allocation, buffer, or the controller's flash | `src/win_vdisk.cpp:147-166, 1333-1386, 1420-1427, 1455-1608, 1678-1740` |
| `MemFsFileProofs` | its theorems | |
| `WordSerializer`, `Compressor`, `ByteAssembler`, `TopController` | next-state functions of the registers of one RTL module each | `hdl/ftj_*.v` |
| `ChipTop` | these four, wired as in the chip, with a host | `hdl/ftj_chip_top.v` |
| `ChipTopProofs` | its theorems | |
| `MC*` | instances for TLC | |

**Rings.** `pc[t]` is where thread `t` stands between two accesses; `pos` is the
local of the C++ functions; `log` is a history of the entries in the order their
positions were claimed. A failed `compare_exchange_weak`, spurious or not, is
`PushClaimFails`/`PopClaimFails`. Accesses are sequentially consistent: the
positions are accessed `relaxed`, but an entry is read only after an acquire load
of a turn that a release store published, and no decision depends on the order of
two different positions. `size_t` is not bounded; 2^64 pushes are out of reach.
Abstractly, an entry enters the queue when its position is claimed and leaves it
when the Pop claims it: `ImplementsQueue` maps the claimed part of `log` to the
queue.

**Benchmark.** The rings are bounded queues whose failing calls change nothing, so
a thread that spins is a thread whose next step is not enabled. A call has two halves:
it claims a cell, which is when the entry enters or leaves the queue, and frees it in a
later step (`publish`, `drain`). Until then the ring refuses the call that comes
round to this cell, a push although there is room (`Room`) and a pop although
there are entries (`Ready`). That is the only way a push can be refused here: with
one request a client and no more clients than cells no ring is ever full. `PopRequest` does
have a step for a refusal, because the backend then looks at its loop
condition again. The depth is at least 2, since a ring of one cell is not a queue
(section 5). `outcome` and `reaped` are histories.

**Translation layer.** One request holds the mutex at a time; its page loop and the
loops of `RunGC` are single steps with a cursor, so each intermediate state is a
state of the model. A page has `Granules` parts in place of 4096 bytes, which is
enough to tell a partial write from a whole one; a request is a run of parts and
may be empty. `gc.return` is the place `RunGC` was called from: the retry inside
the page loop or the end of `Write`. `written` is a history of what the host wrote,
updated when a page is placed, so a request refused halfway counts with the pages
it did write. `doubleFreed` becomes true when the collector frees a page that is on
a free list; see section 5. A trailing partial block, whose pages the constructor
assigns to a block that does not exist, is excluded by `WholeBlocks`; no capacity in
the repository has one. Wear, disturb and byte counters do not influence the
mapping and are not here.

**ECC.** A word is the set of its 1 bits. `CodeIdx` is the chain of increments in the
code, evaluated as written; the masks are computed from it. `covered` is the word
the ECC byte was computed from, `host` the word the host wrote, `drifts` the bits
flipped in storage since. Reads are steps whose result stays in `read` until the
chunk changes.

**Coalescer.** `cursor` is the loop variable of `FlushToFTL`, or `Unlocked`. The FTL
takes a page or refuses it. `wanted` is a history of the last value pushed to each part
of each page, `spoiled` one of the parts whose last value the code does not keep. There
are four ways: two pages meet in a slot, which spoils the parts written, in both; a write is cut at
its page boundary, which spoils the parts beyond it; the FTL refuses a flush, which
spoils the parts staged; a page staged in part is flushed with zeros over data, which spoils
the parts under the zeros. A part is mended when it is pushed again. `Reset` drops what is staged
on purpose: what is in flash is then what is wanted.

**Names of the virtual disk.** WinFsp's lock lets calls that change the map exclude all
others, so a call is a step; a refused call changes nothing and is none. `map` is a set
of nodes, since the keys of `FileNodeMap` are the `FileName`s of its values; the order
of the map is `Before`. A name is a sequence of components, and a component a number
in the order of its text; two numbers with the same half are two spellings that a
volume without case takes for one, so the case rules of `MemfsFileNameCompare` and the
spelling that `Create` takes over from the directory are there. That components have one
order is a restriction: it is so on a case-sensitive volume, and on a case-insensitive one
for names of ASCII characters. `MemfsWcsnicmp` hands a component to `CompareStringW`
once it comes to a character that is not ASCII, and the two orders together are no strict weak
order (section 5). **Everything checked and proved of `MemFs` is for names with one order.**
`Rename` asserts that its insertions find the name free; `Lost` are the nodes for which they
would not, whatever node is in the way, and the action lets them fall out of the map as the code
does without assertions. `InsertionsSucceed` says that there are none. What WinFsp guarantees
is in guards marked so: it keeps the handles, asks `CanDelete` before it marks a file for
deletion (unless the file was opened to be deleted on close), deletes at the last
cleanup or, for a POSIX deletion, at an earlier one, and closes a handle once. It may
delete a directory that got a child after `CanDelete`, which is what the second
`HasChild` in `Cleanup` is for. `scan` follows one reading of a directory over several calls and one file
in it that keeps its name.

**Data of a file.** `MemFsFile` has one node: its `FileSize`, `AllocationSize` and buffer,
where fresh bytes of the heap are `Junk`. A size of a step is any number up to beyond
the limit. The disk file is the node whose name is `\ftj_disk.bin`, whichever node that
is: `MemfsCreateFunnel` makes one with an allocation and no buffer (`born`), and another
file may be renamed onto it. The length of a write to it is computed in 32 bits, `Wrap`.
An access outside of the buffer sets `crashed` and ends the behaviour, since what it
does to the rest of the process is undefined. The controller refuses ranges outside of
its capacity and may run out of space in the middle of a write (`FTJController`).

**Chip.** Each stage is a record of registers and a function from the registers and
inputs of a cycle to the registers of the next; `ChipTop` applies the four to the old
values at once, as non-blocking assignments do. The word latch and byte index of the
serializer are the rest of the word; a word of the assembler is the sequence of its
strobed bytes. The BDI encoder is combinational: the host offers any of `Words`. The counted waits of the
controller and its scans over the tables end when the input `go` says so. `due`,
`received`, `bursts`, `garbled`, `endsLost` are histories; `due` leaves out the bytes that the
code drops by itself, so that `OnlyKnownLosses` is a statement about all other bytes, and
`endsLost` counts the ends of bursts that were dropped, so that `BurstsAnswered` still
says something after the first. Once a word was replaced or a zero lost its mark the stream is
`garbled`, and `OnlyKnownLosses` says no more about it.

**RTL queue.** Non-blocking assignments read the old values, so a clock edge is one
step made of the write, the read and the flag update; when both assignments to the
flag fire the later one, clearing, wins. The memory is not reset: it starts with
anything. The ports are variables: `wr_en`, `rd_en` and `data_in` stand at some level before
each edge and `BoundedFifo` has the same ports under the same names, so `ImplementsFifo` binds every
signal and maps only the requests inside. A queue that drops an accepted write, stores another
word or ignores a read does not refine it.

## 3. The runs

| run | question | instance | expected |
|---|---|---|---|
| `ring` | is the ring a bounded FIFO queue, are refusals justified, is everything delivered? | 2 producers, 2 consumers, 2 cells, 2 entries each (two laps) | holds |
| `queue_pair` | does the benchmark end with every operation done once, when calls are refused and tried again? | 2 clients, 2 backends, depth 2, 2 operations each | holds |
| `ftl_small` | do data and invariants survive a full flash, refusals included, and does every write return? | 4 pages in 2 blocks, 2 parts a page, 8 requests of 5 kinds | holds |
| `ftl_gc` | the same when the collector moves pages and stops halfway | 40 pages in 2 blocks, 56 writes to 2 pages | holds |
| `ftl_double_free` | does a page keep naming the page that maps to it? | 40 pages in 10 blocks, 60 writes | violated |
| `ecc_every_flip` | is no error of one or two bits read as clean, and nothing wrong accepted after one? | 3 words, writes of a byte or of all, drift in 7 bits, read flips of every pair of bits | holds |
| `ecc_single_bit` | is every single-bit error corrected? | drift only | violated |
| `bc_staging` | is the depth exact, and every part held as pushed last unless this part was spoiled? | 2 slots, 3 pages, 3 pushes, flushes of 1 page | holds |
| `sq_fifo` | is the RTL queue a FIFO, port by port, under every input? | 4 slots, 3 requests | holds |
| `memfs` | are nodes counted, names free when they are taken, the tree closed, directories empty when they look so, renamed whole and read completely? | 4 nodes, 2 handles, names of 3 components with two spellings of one and one order, buffers of 1 or 2 entries, with and without case | holds |
| `memfs_file` | is a file a flat sequence of bytes, and does its buffer hold it? | units of 2 bytes, files of up to 2 or 6, a disk of 4, lengths that wrap at 8 | holds |
| `chip` | does the write path keep every other byte, and does the controller answer every burst whose end arrives, and every read unless it waits for an end? | 2 words of 1 to 3 bytes, words of 2 bytes to the flash, runs of 2 zeros, 3 blocks, 2 pages | holds |

### Bounds, and why they are enough

* `ring`: two cells and two laps make every turn value meet its successor of the
  next lap; two threads of each kind give every race of the two compare-exchanges
  and of a slow thread that is lapped. The proofs remove the bounds for safety.
* `queue_pair`: with two clients a completion can go to the wrong client, with two
  backends completions can change order; with two cells a call comes round to
  the cell that a slower thread still holds, in both rings.
* `ftl_small`: eight requests fill the flash, collect, collect without progress and
  refuse; it fires every action but `GcMove`. Below forty pages the low
  watermark is one page, so a collection starts with no free page to move data to;
  from forty on it starts with one: that is `ftl_gc`, where two blocks force the candidate to hold data.
  The VIEW `LiveView` of the runs of forty pages identifies
  states that differ in the content of pages no logical page maps to; such content
  is copied nowhere and overwritten when the page is allocated, and the collector
  moves only valid pages, which are mapped (`OwnersMapBack`). `ftl_small`, which
  checks liveness, has no VIEW.
* `ecc_every_flip`: the masks are linear, so what matters is the set of flipped
  positions, and all single and double flips of the 64 bits occur; the three words
  (none, all, and the one of `src/tests.cpp`) are there to catch a dependence on
  content all the same. The theorems hold for every word.
* `bc_staging`: three pages on two slots is the smallest instance with aliasing;
  `MaxPages = 1` makes a flush stop with dirty slots behind it.
* `sq_fifo`: no bound on time; all pointer positions, and all inputs in each.

* `memfs`: three levels of names are the least at which a rename moves a subtree and a
  directory has siblings before and after the names below it; two spellings of one
  component, the disk's name beside it, and `.` and `..` between the components in
  order. Four nodes give a target, a directory, a child and the root; the second handle
  keeps open what the first deletes or replaces. No bound on time. Nodes and handles
  are symmetric.
* `memfs_file`: offsets on both sides of every size, of the capacity and of the wrap;
  limits below and above the capacity, so that the disk file can and cannot be grown
  again. No bound on time.
* `chip`: two words are one burst of two or two bursts, of which the second is on its way while
  the controller programs the first; they are up to three words for the assembler.
  `FreeRange = Blocks`, as in the code (2^10), so a collection comes first. With
  `MaxPe = 0` a second write to a page is beyond the endurance and remaps. Resets come
  at any time.

`CHECK_DEADLOCK FALSE` is in the `ftl_*` runs and in `memfs_file`: with `MaxWrites` requests made,
the host of the model stops, and so does a process that has accessed memory it does not have. `SubmissionQueue`, `BurstCoalescer` and `SecdedEcc` have
no end; `QueuePairBenchmark` has the explicit step `Over`, so a deadlock of its
threads would be reported; in `LockFreeRingBuffer` consumers poll for ever.

### Fairness

`LockFreeRingBuffer`: weak fairness per thread (the scheduler runs it), and strong
fairness of the successful compare-exchange: the hardware does not fail
`compare_exchange_weak` spuriously for ever. `QueuePairBenchmark`: weak fairness per
thread; every retry loop of the code yields. `FTJController`: weak fairness of the
running request, which is one thread holding the mutex; nothing says a host makes
another request. `ChipTop`: the clock runs (weak fairness of a tick); a wait of the
controller ends and the host takes an answer some time (`Goes`), since the counters of
the waits reach zero and AXI hosts take what they asked for; the host sends an address for every burst it
sends (`Asks`). `ReadsAnswered` has two parts: the address of a read is taken, unless
the chip is reset or the controller waits in `STATE_COALESCE` from then on; and what was taken is answered.
The controller prefers a write to a read, so an endless stream of bursts could hold
a read back; the words of the instance are finite, and that case is outside of it. `MemFs` and `MemFsFile` have no liveness: nothing says that a program
makes another call.

## 4. What is proved

All for every value of the constants that satisfies the named assumptions.

* `LockFreeRingBufferProofs` - `TypeCorrect` for any size; for `Size > 1`: `Invariance`,
  `CellsHaveOneOwner`, `CapacityRespected`, `PopsAreCorrect`, `RefusalsHaveCause` and
  `Refinement` (`Spec => ImplementsQueue`). The invariant `IInv` of `LockFreeRingBuffer`
  says which turns a cell can show for the positions in the window between
  `dequeue_pos` and `enqueue_pos` and the one lap around it (`Turns`), that a thread
  between its claim and its publication holds a position no other thread holds
  (`Claims`), that a thread that has only loaded a position is at most behind (`Stale`),
  and that published cells hold the entry of the log (`Contents`). The properties alone
  are not inductive: without `Turns` nothing ties a cell's sequence to who may be in it.
* `SubmissionQueueProofs` - `TypeCorrect`, `FullFlagIsTight` and `Refinement`
  (`Spec => ImplementsFifo`) for every depth above 1. The refinement is of the same ports: the
  word stored is the `data_in` of the edge, in the cycles that accept it and in no others. The strengthening is
  `FlagShape`: the flag is up only with the pointers equal or the write pointer one
  behind. The step proofs compute the held requests after a write, a read and both.
* `FTJControllerProofs` - `TypeCorrect`, `OwnershipKept`, `FreeListsSound`, `DataIntact`
  and `Invariance` for every number of pages, block size, hot threshold and set of
  requests. Besides the properties, `IInv` has: the running request is inside the
  capacity (`RequestInside`, so a logical page exists), the collector's cursor is in
  its block (`CursorInBlock`), and until a double free every mapped page is owned by
  the page that maps to it and holds what the host wrote (`MappedUntilDoubleFree`).
  `OwnersMapBack` needs no such condition: it survives double frees.

  Its last section is about the ECC of the same class: `ErrorsAreNoticed`, `SingleErrors`,
  `AcceptedReads` and `EccInvariance` for every set of words, masks and flips and any number of
  errors. `EccIInv` says that the ECC byte is that of the word it was computed from, whatever
  has drifted since (`EccOfCovered`), and that the last read decoded the stored word with some bits
  flipped (`ReadExplained`). Under it are the facts about the code: the parity of an exclusive or is the exclusive
  or of the parities (`OddXor`, from the cardinalities of a union and a difference); so
  the syndrome and bit 7 depend on the flipped bits only (`SyndromeOfFlips`,
  `OverallOfFlips`); and the chain of `CodeIdx` gives the 64 bits different numbers of seven
  binary digits (`CodeIdxFacts`, `SevenBits`, `BitsTold`), none of them zero. `OneFlipOutcome` and
  `TwoFlipsOutcome` say exactly what a read makes of one and of two flips.
* `MemFsFileProofs` - `TypeCorrect`, `BufferIsLargeEnough`, `OthersNeverCrash`,
  `TrimsKeepTheSize`, `FlashWritesStayInside` and `Refinement` (`Spec =>
  ImplementsFlatFile`) for every allocation unit, set of limits with a largest one,
  capacity below 2^32, and all offsets and lengths. `IInv` adds to the properties that
  the node made as the disk file stays it. The arithmetic is in two lemmas: rounding up
  never goes below its argument, and a length that wrapped around is one the controller
  refuses (`LengthFacts`).

* `QueuePairBenchmarkProofs` - `Invariance`, `NoWaiterForgotten` and `EveryCompletionOnce` for
  any number of operations and backends, and as many clients as the queues have room for,
  at most (the code starts one per entry). `IInv` says that every command id taken so
  far is in exactly one stage (held, queued, executed, completed or reaped), that none
  is there twice, and that the counters are the cardinalities of the operations
  begun and finished (`OperationsCounted`). Without the first nothing keeps two backends from
  the same command; without the last a client could stop before its work is done.
  `NoWaiterForgotten` is an equality of numbers: clients that wait, and requests under way. `EveryCompletionOnce`
  says that an id is reaped once by some client. Neither says that a client gets its own
  completion, and in the code it need not. The cells held decide only whether a call is refused, and
  a refused call changes nothing, so safety does not rest on them.
* `BurstCoalescerProofs` - `Invariance`, `QueueDepthSound` and `NoOtherLoss` for any number of slots,
  pages and values. The strengthening is `SlotsHoldTheirPages`: a dirty slot is staged for a
  page that hashes to it, every other slot is as `Reset` left it. The depth is
  the cardinality of the dirty slots, which a push or a flush changes by one. `NoOtherLoss`
  is about each part of each page by itself: a part that was not spoiled, or was pushed again since,
  has its last value, whatever happened to the other parts and pages.
* `MemFsProofs` - `Invariance`, `ReferencesExact`, `InsertionsNeverFail`, `NoOrphans`,
  `HasChildCorrect`, `DescendantsComplete`, `DiskProtected` and `ReadingsComplete` for any
  set of nodes, handles and names on which the order of the map is one order (a
  case-sensitive volume, or ASCII names). The first part of the module
  is a theory of the names: `Before` is a strict order of the names that differ, the
  names below a directory are a run that begins behind it (`PrefixIsRun`), and the least name
  behind a directory is a child if there is one (`NextIsChild`, by a least element of a
  finite set), which is why the loops of `HasChild` and `Rename` may stop where they do.
  The names of a moved tree differ from each other because the old ones did, and from all others
  because the target is no directory, or the moved one itself, so that nothing else is below the
  new name: nothing is lost on the way (`NoneLost`), and `Create` finds the name free under the spelling of its directory, too
  (`CreateInserts`, `RenameInserts`). References are cardinalities of the handles of a node. `DiskStays` needs to know which
  handles may delete (`MarksAreSound`). `ReadInv` says that a reading which went past the file
  it watches has told of it; a reply is a first part of the entries behind the marker
  (`ReplyIsFirst`), and a rename or deletion elsewhere moves neither (`NamesStay`). It rests
  on the assumption that no component is a spelling of `..`, which has no letters.
* `ChipTopProofs` - `TypeCorrect`, `Invariance`, `ControllerNeverAhead`, `SharingIsWear`,
  `OffersAreKept` and `NothingElseLost` for any set of words, word size, longest run and flash
  geometry, a single page included. Every next-state function has lemmas of its own, and the lemma of
  a clock edge puts them together. `IInv` says that the ends of bursts under way are no
  more than those sent (`EndsUnderWay`), and balances what was asked, seen and answered with the
  handshake the controller is in (`Handshakes`), which needs the shape of its states (`CtlShape`).
  For the stream, `StreamInv` adds the states of the stages that never meet (`InStep`): a
  compressor that ends a burst faces a serializer at rest, and the tokens always end
  between two tokens, never behind a zero whose length is to come. `NothingElseLost` speaks of the
  stream until it is garbled. `OffersAreKept` covers a byte of the serializer that is not the last
  of its burst, a word of the assembler that is not replaced, and the answers of the controller. Each stage carries
  the bytes it holds (`SerCarry`, `CmpCarry`, `AsmCarry`); what the compressor tells stands for
  the bytes it counted and took (`StandFor`). That a decoder which reads one token more is the
  same decoder one token later (`DecoderAppend`) is proved from the existence and uniqueness of recursive
  functions, by an induction over a set of numbers (`SetOfNat`), which needs no
  operator as a parameter.

The theorems about `ChipTop` and `FTJController` are about `Spec`; `FairSpec` implies it.

Only model-checked:

* liveness (`AllDelivered`, `Ends`, `RequestsReturn`, `BurstsAnswered`, `ReadsAnswered`), since
  fairness and ENABLED are out of the prover's reach.

Every safety invariant and action property of the passing runs, and every refinement, is
stated by a theorem.

## 5. Observations

Checked by a run that is expected to fail, or seen in the code while modelling.

* Ring of one cell: with one cell the turn published by a Push, `pos + 1`, is the turn the
  next Push waits for, so it overwrites an entry that is queued. `src/main.cpp:413`
  builds a queue pair of depth 1; there its single client has one request under way,
  so the benchmark never fills the ring.
* `ftl_double_free`: `RunGC` frees every page of its candidate block that is not valid,
  those already on a free list too (`src/ftj_engine.cpp:700-713`). A page listed twice
  is allocated twice, and two logical pages share it. The data properties of
  `FTJController` are therefore stated up to the first double free, which the proofs
  show to be the only way they can fail.
* `RunGC` gives up when its first candidate yields nothing, and the write
  fails as out of space although other blocks hold invalid pages. The candidate is
  chosen by a count that line 715 resets although pages may have stayed or moved in.
* Below five blocks `num_blocks_ / 5` is 0 at line 708 and 1 in the constructor: the
  hot zone is lost at the first collection.
* `ecc_single_bit`: README.md:214 promises correction of all single-bit errors and
  detection of all double-bit errors. The overall parity covers check bits recomputed
  from the erroneous data, so a flip in an odd number of masks leaves it unchanged and
  is reported as uncorrectable, and about half of the double errors are "corrected"
  into a third word. Which ones is proved (`OneFlipOutcome`, `TwoFlipsOutcome`); what holds of
  all of them is checked by `ecc_every_flip` and proved.
* A write of part of a chunk computes a fresh ECC over the bytes it keeps, drifted or
  not (line 564). `AcceptedReadsAreTheHosts` is stated up to that.
* A page staged in part is flushed whole, zeros included. A push into a slot
  held by another page is accepted under the other page's address, although the
  header says the call returns false when the buffer is full.
* `docs/architecture/API_SPEC.md:27` gives completions a status, negative for errors; the
  backend of `src/main.cpp:444` completes everything with 0.
* A reading of a directory whose buffer ends with `..` is resumed at the first name after
  `..` in the order of the map; a file whose name sorts before it (`!a`, `+b`, `$x`) is never
  returned. Line 1965 treats only the marker `.` specially. `ReadingIsComplete` has this
  as its exception.
* On a case-insensitive volume the map's comparison is not a strict weak order, which
  `std::map` requires. `MemfsWcsnicmp` (`src/win_vdisk.cpp:220-240`) compares ASCII characters by
  upper-cased code points and hands the whole component to `CompareStringW` at the first character that is not
  ASCII: `z` comes before `_` by the first rule, `_` before `é` and `é` before `z`
  by the second. What the map finds then is undefined; these names are outside the model.
* `CanDelete` and `Rename` refuse the disk file, but a file opened to be deleted on close, or
  another one renamed onto it, takes it away (`DiskStays`). The file renamed onto it keeps
  its own size and allocation, and shows the flash.
* The disk file has an allocation and no buffer. Set its size lower, then higher again:
  line 1717 clears memory at a null pointer (`OnlyTheDiskCrashes`). Its allocation, once
  cut, cannot be raised above `MaxFileSize` again, which may be below its capacity.
* The data path of the chip drops bytes. `ftj_word_serializer.v:128` withdraws the last byte
  of a burst if it is not taken at once and ignores a word sent in that cycle, although
  its header says that it holds its input until all bytes have been forwarded; the
  compressor takes the byte that ends a run of zeros and forgets it, and writes a single
  zero at the end of a burst as its length, without the mark; the assembler takes bytes while a
  finished word waits and replaces it, while line 11 promises that no data is dropped at
  the end of a burst. A stall of the compressor always comes with one of these. What
  happens to every other byte is `OnlyKnownLosses`.
* The controller keeps only the last word of a burst (`curr_wdata`), and when the end of a burst
  was lost it waits for one in `STATE_COALESCE` for ever and answers neither writes nor reads.
* Wear levelling gives the page with the number of the cold block the worn block, so two
  pages share it (`SharedBlocksAreWorn`) and the hot page stays. A reset forgets the table.
* With 1024 blocks `free_block_count` starts at 0 and a hundred collections of block 0
  come before the first request. The commands of the controller never reach
  `nand_flash_model.v`: `cle` falls in the cycle in which `we_n` rises.
* The full flag of the RTL queue looks at the write side only: a read in the cycle of
  the last write leaves it up with one slot free, until the next read. `FullIsNearlyFull`
  says that this is the worst case.

## 6. Not modelled

* Crossbar physics formulas: floating point, no protocol. Refresh, drift and the
  configuration would race with `Write` and `Read`, but every caller in the repository
  calls them from the one thread that also reads and writes, and nobody calls the drift.
* Latency injector, web pages, scripts, documents, drivers: no state the rest of the
  system depends on.
* Of the virtual disk: security descriptors, attributes, times, the volume label, the
  `Control` hook, look-ups by name that change nothing, and what its undefined macros
  leave out (slow I/O, streams, reparse points, extended attributes).
* The service around it: one thread that starts what is modelled or gives up.
* WinFsp and the Windows heap: external, by how they are used.
* Of the RTL: the BDI encoder's choice of an encoding, the ECC codec of the top
  controller, the data it holds, and the NAND model, which never sees one of its commands.
* Data races that the language leaves undefined: `FspPathSuffix` edits a name in place in
  calls that run beside each other, `LatencyInjector` calibrates without a lock.

## 7. What could come next

The safety part of the plan is done. Left are the liveness properties, which need a prover
with rules for fairness, and the parts of section 6, of which the data path of the RTL top
controller (with its own ECC codec) and the
pins to the NAND would say most. A NAND model only becomes worth composing once the
controller's commands reach it.
