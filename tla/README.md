# A TLA+ model of ContentRedirectionModule

ContentRedirectionModule is a resident module of the Wii U. It patches the
file-system functions of `coreinit` (the FSA API, whose calls are synchronous,
and the FS API, whose calls are asynchronous) and answers some of the calls
from *layers*: replacement directories that plugins lay over `/vol/content`,
`/vol/aoc` and `/vol/save`. This directory holds its verification: TLA+ modules
translated from `src/src/`, configurations for TLC, and proofs for TLAPS.

## 1. Inventory

### Components, their state and their operations

| Component | Source | State | Operations | Correct when |
|---|---|---|---|---|
| IO threads and dispatch | `FileUtils.cpp` (76-93, 381-411, 461-585), `FileUtils.h`, the first 130 lines of `FSReplacements.cpp` and 56 of `FSAReplacements.cpp`, `processShimBufferFor*` | `gThreadData[3]` (queue, `setup`), `gThreadsRunning`, heap objects `FSShimWrapper` (*param*) and `FSShimWrapperMessage` (*message*), the caller's `FSAShimBuffer` or `FSCmdBlock` | start, stop, send, receive, process, reply, complete | each request is decided once and returned once; nothing is used after it was freed or freed twice; nobody waits for ever |
| Life cycle | `main.cpp` | the hooks' order | `WUMS_INITIALIZE`, `_APPLICATION_STARTS`, `_ENDS`, guard of `OSCancelThread` | threads exist exactly while an application runs |
| Layer stack | `FileUtils.cpp` 65-74, 95-360; `IFSWrapper.h` | `fsLayers`, `pIsActive`, `fsLayerMutex` | `doForLayer`, `clearFSLayer` | the topmost layer that is concerned decides; handles go home; nesting ends |
| Plugin API | `export.cpp` | none of its own | `CRAddFSLayer`, `CRRemoveFSLayer`, `CRSetActive`, `CRGetVersion`, `CRAddDevice`, `CRRemoveDevice`, `getAOCPath` | changes the stack only between walks |
| FSWrapper | `FSWrapper.cpp`, `FSWrapper.h`, `FileInfo.h`, `DirInfo.h` | `openFiles`, `openDirs`, one POSIX descriptor each | 18 handlers, path rewriting, handle table | a handle names one open file; positions are kept; a read-only layer is not written |
| Merging layer | `FSWrapperMergeDirsWithParent.cpp`, `DirInfoEx.h` | per directory: `realDirHandle`, `readResult[]` with marks | open, read, rewind, close, using its own FSA client | the listing is the union of both directories, each name once, marked ones hidden |
| Working directories | `FileUtils.cpp` 14-15, 20-63 | `workingDirs` per client | `getFullPath`, `setWorkingDir` | relative paths resolve as the console resolves them |
| Error conversion | `FSReplacements.cpp` 8-88, `FileUtils.cpp` 318-345, `IFSWrapper.h` 6-10 | none | masks, `processFSError` | no internal code reaches an application |
| Transfer loops | `FileUtils.cpp` 413-459 | none | `readIntoBuffer`, `writeFromBuffer` | all or as much as there is |
| Patched functions | the rest of `FSReplacements.cpp`, `FSAReplacements.cpp` | none | one wrapper per function, in two shapes | no difference for the caller |
| Stat translation, logging | `utils/` | none | conversions | not modelled |

### How they interact

An application thread (any core) enters a patched function. The wrapper
prepares the request in a shim buffer, wraps it in a *param* and a *message* and
posts the message to the queue of the IO thread of the core it happens to run
on. That thread takes `fsLayerMutex`, walks the layers from the top and asks
each. Two kinds of calls of a layer come back to the patched functions while it
answers: a merging layer's FSA calls on the parent directory, and the POSIX calls
(`stat`, `open`, `readdir` ...) of every layer on its replacement directory, which
the C library's devoptab turns into FSA calls. The patch sees that it runs on an
IO thread and processes the call in place, so that `doForLayer` is on the stack
twice, with the lock taken twice. In the first case the client is the layer's own
and the inner walk starts below that layer; in the second the client is the
devoptab's, which is no layer's, and the inner walk starts at the top of
`fsLayers` again (`FileUtils.cpp:98-105`) and may come to the layer that called.
When no layer answers, a sync caller gets the request back
and calls the real function; an async one is submitted to it by the IO thread.
Sync results travel through a one-slot queue inside the message, async results
through the application's IO queue. Plugins change `fsLayers` from any thread.
The main thread creates the IO threads when an application starts and stops them
when it ends.

### What is hard

Ownership that moves between threads without a lock (*param* freed by the layer
code, *message* by the caller or by the IO thread, the command block by nobody
but reused by the application); an IO queue of 16 that is fatal when full; a
spinning send under a global lock; a STOP message that travels the same queue as
requests and whose loss nobody notices; queues initialised by the thread that
reads them; a recursive lock; nested walks over a stack that changes between
calls, and walks from the top inside walks; `.deleted_` marks that are recognised
in any capitals and compared in exact ones; counts that are cast to error codes;
fallback after partial failure; handles made from addresses; transfers
that move a part and then fail; 32-bit products; a note of the working directory
that is taken before the console has changed it and cleared before the layers
are. The list with lines is `hazards` in `PROJECT.json`.

## 2. Modules

| Module | Role |
|---|---|
| `RequestService` | what the module promises a caller: submitted, decided once (`layer` or `real`), returned once |
| `FSIOThreads` | the request path in detail; implements `RequestService` |
| `MCFSIOThreads` | instances of it for TLC, four configurations |
| `FSIOThreads_proofs` | proofs for all values of its constants: messages and the lock; request slots, the refinement, and the queues' ends and limits |
| `LayerStack` | what one IO thread does under `fsLayerMutex`: `doForLayer`, the layers' handle tables, the plugin API |
| `MCLayerStack` | its instance for TLC |
| `LayerStack_proofs` | proofs for all values of its constants |
| `Reentry` | the layers' POSIX calls, each a walk of its own from the top; implements `LayerStack` |
| `MCReentry` | instances of it, two configurations |
| `Reentry_proofs` | proofs for all values of its constants |
| `MergeDir` | one open directory of a merging layer |
| `MCMergeDir` | instances of it, three configurations |
| `MergeDir_proofs` | proofs for all values of its constants |
| `ErrorCodes` | the 32-bit words between layers and application, their masks and conversions |
| `Storage` | the file system behind a layer, as `read`, `write`, `open` and `ftruncate` show it (external) |
| `ReferenceFile` | what an application may rely on: atomic operations on files |
| `FileOps` | every file command of one layer; implements `ReferenceFile` |
| `MCFileOps` | its instance for TLC |
| `FileOps_proofs` | proofs about `FileOps`, and the lemmas on overlaid bytes they need |
| `FileOps_application_proofs` | proofs of what the application sees of `FileOps`: the refinement and who answers with what |
| `Paths` | prefixes, rewriting and the console's reading of paths, over sequences of tokens |
| `Paths_proofs` | lemmas on paths of any length: what completing, comparing and rewriting do to the names in them |
| `WorkingDir` | `workingDirs`, the walk that completes paths with it, the two sections of `clearFSLayer` |
| `MCWorkingDir` | its instance for TLC |
| `WorkingDir_proofs` | proofs for all values of its constants |

### FSIOThreads

A request is named by the slot of its caller: the thread for a sync call (one at
a time), the command block for an async one. `pc[t]` is where an application
thread is in `processFSAShimInThread` and its wrapper, `io[c]` where the IO
thread is between `OSReceiveMessage` and the free of the message, `phase` and
`coreId` where the main thread is in its two loops. `heap` is the set of
allocated objects; a *param* and its *message* get one address from `Malloc`, an
operator that may return any unused address or follow a policy, so that reuse of
a freed address is explored. Queues are sequences; `inited` tells a queue that
its thread has initialised from zeroed memory. Handlers are cut into steps where
another thread could see the difference: malloc, send, receive, lock, answer,
completion, free, reply.

What a layer computes is the choice `layer` or `real`. `NestedCall` and
`NestedReturn` are the patched calls a layer makes on the IO thread itself; they
keep the outer request, so only the lock and the depth change; they stand for
POSIX calls and for a merging layer's own calls alike. Plugins may call at any
time (`CRApi`). `handleAsyncResult` has its three ways: the completion is sent,
nobody is told because the block names no queue (`TellNobody`), or callback and
queue are both set, which is fatal (`BothSet`); the last two are for the blocks in
`Careless`. `SubmitReal` has no branch for a command without a case: every
command that `FSReplacements.cpp` prepares has one.

Bounds: `MaxNest` nested calls, `MaxLives` applications, `Ptr` addresses.
`QuietEnd` is the assumption that no application thread makes a call while the
application ends; `EagerIO` that a resumed IO thread, of the highest priority on
a core of its own affinity, initialises its queue before the main thread goes
on. Both are off where safety is checked. `AllocFails`, `Fragile` (blocks for
which an error is fatal) and `Drainer` (which thread empties the completion
queue) choose the environment.

### LayerStack

State: the stack, the active flags, for each layer what its replacement
directory holds and marks as deleted, the handle tables of all layers and of
the console (`owner`, `isDir`, `opener`, `parent`), what the application was
given (`held`), and `frames`, the `doForLayer` calls on the stack of the IO
thread. One step is one iteration of the loop, or one call. Only one walk is in
progress at a time: that is what `LockDiscipline` of `FSIOThreads` establishes.
Commands are grouped by what the walk does with them: by path (open, stat), by
handle (`useFile` stands for read, write, seek, ...), closing, directories.
A handle that a layer allocates is unused at that time but may have been used
before. A plugin may remove a layer while files or directories are open in it:
the tables die with the layer (`Forget`), the application keeps its handles. The
history variable `lost` remembers such handles until the application ends.
Their numbers may be given out again, so what happens to them is the console's
or another file's business, and the properties about handles are stated for the
others. What a layer's POSIX call finds is given here (`has`, `deleted`, and an
error at any time); how it is found is the next module.

### Reentry

The POSIX calls of the layers, as walks. `frames` is the innermost walk that a
POSIX call or the application has started, with the walks of merging layers
nested in it; `outer` holds those that wait, each with what it waits for: the
`stat` for a `.deleted_` mark (`AskMark`), the call on the layer's copy or
descriptor (`AskStorage`), or the `close` after an allocation failed
(`CloseAgain`). A call (`PosixCall`) starts with the devoptab's client `Posix` at
the top of `fsLayers`; `PosixReturn` gives its result to the waiting layer
(`told`, `opened`), which then takes its step of `LayerStack` (the actions
`Says...`). A layer's descriptor (`fd`) may itself be another layer's handle.
All files are the console's (`realHas`): `has` and `deleted` are what the marks and
copies there amount to, kept up to date with what the calls find (`Learn`). The
console's `stat` is assumed not to fail for a file that is there. `Place` is
`GetNewPath`, `Mark` puts `deletePrefix` before a name; the paths are only
points, what their text does is in `Paths`.

Two assumptions on how replacement directories lie are named where they are
needed, because the code makes neither sure. `Grounded`: in some order of the
paths, a layer's copies and marks are below what it replaces; where a
replacement directory leads back into itself (a merge of `/vol/content` from a
directory below `/vol/content`, say) `doForLayer` calls itself until the stack of
the IO thread ends. Plugins give directories on the SD card, which no prefix of a
layer covers. `Outside` is just that: no layer replaces what lies in a
replacement directory. It is what makes a layer's answer one step.

Bounds: `AppPath`, the paths that the application uses, and `MayExist`, those that
files may be stored under.

### MergeDir

One `DirInfoEx` from `FSOpenDir` to `FSCloseDir`. `own` and `real` are the
contents of the two directories, which do not change meanwhile; an entry is a
name and the spelling of the mark before it: none, `.deleted_` exactly, or in
other capitals. Line 87 takes both for marks and skips the entry (`IsMark`); the
filters at 112 and 117 compare with `strcmp`, so only the exact one hides the
parent's file (`IsDeleted`, `IsListed`). `readResult` is the array, as long as
its capacity, each element with its flag; elements that malloc or realloc have
just supplied have any flag. `call` is where `FSReadDirWrapper` is in its two
loops. Writing the flag one past the array (line 88) is undefined; the model has
the two outcomes a byte has: lost, or found there when the array grows. What
such a write does to the heap's own data is not modelled. `listed` and `ended`
are what the application saw in this pass; `failed` and `rewound` remember what
happened to the handle. `LayerStack` has the same handle in the walk, where
`ReadDir`'s nested call goes to the layers below.

### FileOps, Storage, ReferenceFile, ErrorCodes

One layer of any of the three kinds (replacing, merging, writeable save layer)
that plugins add and remove, its replacement directory (`disk`), its `openFiles`
(`file`, with position and access mode of the descriptor), the descriptors of
the process, the loop of `readIntoBuffer` or `writeFromBuffer` (`transfer`), and
the last answer (`reply`). One action is one wrapper of `FSWrapper.cpp` with the
end of `doForLayer` (`Answer`: mask, fallback, real function); a transfer is
begun by `FSAReadFile`, `FSAReadFileWithPos` or `FSAWriteFile` and goes on with
one `read()` or `write()` per step (`ReadSome`, `WriteSome`), each of which may
be short, return 0 or fail. Calls do not interleave, because `fsLayerMutex` is
held from the call to the answer (`LockDiscipline`). `size * count` is taken
modulo `Word`, as `size_t` does; the FS API's check for 4 GB is
`RefuseTransfer`, which ends in `FS_STATUS_FATAL_ERROR`, the FSA API has none. The bytes a caller writes are 1, 2, 3 ...,
so that a byte in a wrong place is seen. `dropped` counts the descriptors that
removed layers left open.

`Storage` is what is behind the layer: names that are nothing, a directory or a
file of bytes. It assumes that the storage refuses to remove or rename an open
file and to rename onto an existing name, and that a hole reads as zeros; every
call may also fail for reasons of its own (`fault`). The console is assumed not
to know a layer's handle.

`ErrorCodes` has a word as a record: the kind that the upper twelve bits give
it, the name of the error, the number a successful call returns. A count of
elements is a `uint32_t` cast to `FSError` (`FSWrapper.cpp:414`, `572`): from `Sign`
(2^31) on it is negative and its bits mean what they happen to mean (`Misread`, any
set of such words), an internal flag included. What coreinit
does with a word (`__FSAShimDecodeIosErrorToFsaStatus`,
`fsaDecodeFsaStatusToFsStatus`) is modelled from its use and external.

`ReferenceFile` is the abstract specification: open, close, seek, read, write,
truncate, remove, rename, make a directory, each in one step; a read moves the
position over bytes of the file, a write lays a prefix of the caller's bytes
over the file. The refinement mapping shows a file during a transfer as it was
before it, so the whole loop is one step, taken when the answer is given. Three
oddities of the code are written into it as such: the position after `IsEof`, an
open that fails after it has created or emptied the file, and the position that
a failed read at a position leaves set.

### WorkingDir, Paths

`workingDirs` is the module's note of each client's directory, `consoleDir` the
directory that counts. A change of directory is noted under the lock and then
on its way (`changes`) until the caller's thread, or the console's queue, makes
it, in any order, or is refused. `walk` is a request for a path: each active
layer completes the path with `getFullPath`, compares its prefix and rewrites
it. `phase` is where `clearFSLayer` is: its first section takes
`workingDirMutex` only, so it can fall between two layers of a walk. `excuse`
and `late` are histories: why note and console are known to disagree.

A path is a sequence of tokens: separators and pieces of names, so that
`/vol/content2` is the prefix `/vol/content` followed by a piece, and upper case
is a table of pieces. `Resolve` is how the console is assumed to read a path:
names between separators without regard to case, `.` and `..` walked. The loops
over a path are `Fold`s: recursive functions over the numbers up to its length,
so that they can be proved about as well as evaluated.

`WorkingDirAssumption` has what the code fixes about a layer: its prefix is one that
`CRAddFSLayer` passes (`/vol/content`, `/vol/save`, a user's directory below it, or
the path of a title's add-on content), so it begins with a slash, does not end with
one, and has neither backslashes nor two slashes in a row (`WellSpelled`). The
replacement is any text. A client that gives `FSAChangeDir` a relative directory has it
noted as it is, so that later paths are completed to relative ones; no prefix
matches those, and they are exceptions of `RedirectsExactly` and of
`ResolutionAgrees` (`relative`).

## 3. Runs

| Run | Question | Size |
|---|---|---|
| `threads_safety` | `MCFSIOThreads_Safety.cfg`: 2 cores, 2 threads, 1 block, 3 addresses (symmetric), queues of 1, 2 applications, any failure, no assumption on timing | 180 thousand states |
| `threads_capacity` | `MCFSIOThreads_Capacity.cfg`: 2 cores, 1 thread with 2 blocks, so 3 requests at most in a queue of 3, completion queue of 2, quiet end | 620 thousand |
| `threads_liveness` | `MCFSIOThreads_Liveness.cfg`: 2 cores, 1 thread with 1 block, 2 applications | 27 thousand |
| `threads_orphan` | `MCFSIOThreads_Orphan.cfg`: 1 core, a thread that calls as the application ends; **violated** | 2 thousand |
| `layers_handles` | `MCLayerStack_Handles.cfg`: 2 merging layers, 1 path, 2 layer handles, 1 console handle, handles and layers symmetric | 1.8 million |
| `reentry_beside` | `MCReentry_Beside.cfg`: a merging and a replacing layer for 1 path, every content of the storage (the path, both copies, the mark), 1 layer handle, 1 console handle; no layer replaces a replacement directory | 220 thousand |
| `reentry_chain` | `MCReentry_Chain.cfg`: the replacing layer replaces what the merging one keeps its copies in; 2 layer handles | 130 thousand |
| `merge_safety` | `MCMergeDir_Safety.cfg`: all layer directories of up to 4 entries over 2 names and marks, all parents, every failure | 600 thousand |
| `merge_once` | `MCMergeDir_Once.cfg`: up to 3 entries; **violated** | 14 thousand |
| `merge_rewind` | `MCMergeDir_Rewind.cfg`: the same; **violated** | 3 thousand |
| `file_ops` | `MCFileOps.cfg`: 1 handle, 2 names (a file of 0 or 2 bytes, a free name or a directory), 5 modes, sizes and counts 0..2 with `Word` 3, files up to 2 bytes, 2 descriptors | 1.3 million |
| `working_dirs` | `MCWorkingDir.cfg`: 1 client, up to 2 layers (a merging and a replacing one), 5 paths, 2 directories to change to, 2 changes under way | 230 thousand |

Why the bounds are enough. Two cores are the least for two IO threads that race
for the lock and for one block that moves between them; two threads the least
for two callers on one core; one-slot queues make every full queue reachable,
and the capacity run uses queues of exactly the size that suffices. Three
addresses let two messages be under way while a third is reused. Two
applications in a row make stale state of the first visible to the second. Two
merging layers are the least that can nest into each other. For the POSIX calls
two layers, one of each kind, are the least with a fallback from one to the other
and with a walk inside a walk in both manners; more layers, paths and handles are
left to the proofs. Four entries make the array
grow to 1, 2 and 4, so that a flag lands inside the array and past it. With
`Word` 3, 2 * 2 wraps and 2 * 1 does not; two bytes let a transfer be short once
and go on, three positions are inside, at and beyond the end; with two
descriptors one removed layer leaves room for one more file, two leave none. One
handle suffices because calls do not interleave and handles share no state but
the names, of which two let a file be renamed, hidden or a directory. Two
changes under way are the least that can overtake each other, two layers the
least that can disagree about a path; the five paths are a spelling with
capitals and backslashes, a longer name, two separators in a row, a relative
path, and one that goes up; of the two directories one is relative.

Deadlock is checked except in
`threads_safety`, where `OSFatal` stops the
console and a lost STOP leaves the main thread in `OSJoinThread`, and in
`threads_orphan`, whose caller waits for ever, and in the runs of `MergeDir`,
where a handle is closed once.

What they show:

* **Memory.** `NoUseAfterFree`, `SingleOwner`: the comments "param is free'd at
  this point", "we only need to clean up message", "if it's async we need to
  clean up message" hold together, whatever address malloc returns.
* **Blocks.** `BlockOwnership`: the IO thread does not touch a command block
  after its completion is queued; a block is completed once, by the callback, by
  the real function or by the faked `FS_STATUS_MEDIA_ERROR`.
* **Lock.** `LockDiscipline`: `fsLayerMutex` is held inside `doForLayer` only.
* **Replies.** `ReplyIsMine`, and `ImplementsService`: the refinement of
  `RequestService`, in every environment of the safety run.
* **Limits.** `NoQueueFatal`, `NoSpinUnderLock`, `DrainedAtExit`: for an orderly
  application the fatal paths and the spinning are not reached when the queues
  have room for all slots of the callers.
* **Progress.** `ServiceProgress`, `StopTerminates` under the same conditions.
* **Layers.** `HeldIsOpen`, `GoesHome`, `ParentBelow`: handles stay what they were.
* **Walks in walks.** `Descends` and `WalkEnds`: with grounded replacement
  directories every walk inside another one has less to do, and the lock is
  released again. `ImplementsLayers`: with replacement directories outside what
  layers replace, an answer with all its POSIX calls is one step of
  `LayerStack`. `OverlayResolved`: a path is answered by the topmost active layer
  that decides it, with what its files say, unless the storage failed on the way.
* **Merged directories.** `HidesDeleted`: no mark is listed, and `.deleted_x`
  hides the parent's `x`, whatever the flags of the buffer hold. `.Deleted_x`
  hides nothing: `ListsAll` has a first pass list the union without the names
  that exact marks hide. (On a file system that ignores case, `stat` and `open`
  of `x` find that mark all the same, so listing and opening disagree; no line
  says which is meant, so this is a hazard and no finding.)
  `TwiceOnlyByFlag`: a wrong flag is the only reason for listing a name twice.
  `ReleasedOnClose`: parent handle and buffer go with the handle.
* **Files.** `ReadsWhatIsThere`, `WritesWhatWasGiven`: short and failing calls
  move the right bytes to the right place. `ShortReadIsTheEnd`: a count less
  than asked for means the end of the file, except for an FSA caller whose
  product does not fit 32 bits, and for elements of size 0. `ImplementsReference`:
  files behave like the reference, except as written there. `WriteProtected`:
  only a save layer's directory changes. `DescriptorsAccounted`: the only
  descriptors lost are those of removed layers.
* **Answers.** `AnswerIsHonest`: no internal word reaches the application; no
  failure of the storage, however late in a transfer, is told as a success; and a
  transfer is told as an error only if the storage failed or was full, the file
  was not open for it, or the number of elements is one that the sign test takes
  for an error (2^31 elements, or any number the division by a size of zero
  gives). `HandleStaysHome`: a layer's
  handle reaches the console only by the commands without a case (a write at a
  position, unknown flags), by such a number, or from a merging layer that could
  not or would not serve it. `FatalHasACause`: the FS API's fatal error follows from a failing
  storage, from the arguments, or from Remove, Rename, Write and Truncate, whose
  tables lack cases (removing a file that is not there is fatal).
* **Paths.** `ResolutionAgrees`: with an absolute, noted and accepted change of
  directory, module and console mean the same place; the exceptions (relative,
  refused, overtaken, not noted, cleared, left over from the application before)
  are in the property, and `excuse` is reset by the next good change.
  `SamePathForAll`: all layers of a walk see one path. `RedirectsExactly`: what
  lies below a prefix, and nothing else, is redirected, to the same place below
  the replacement; dots, separators in a row, longer names and paths that a
  relative directory leaves relative are the exceptions.

### Fairness

`FairSpec` of `FSIOThreads` gives weak fairness to every thread: the console
schedules them by priority and none of them loops without a blocking call,
except the spin on the completion queue, which is a wait in the model. Strong
fairness on `LockLayers`: an OSMutex serves its waiters in order at equal
priority. Strong fairness on a layer's answer: a handler makes finitely many
nested calls. Strong fairness on `AppReceives`: the application comes back to
its queue. Plugins and application threads are never forced to make a call.
`FairSpec` of `Reentry`: the IO thread goes on, and a directory has an end.

### The disagreements found

**Shutdown.** `FSReplacements.cpp:126` says "the other thread is call free for us", and
`FSAReplacements.cpp:48` "param has already been free'd by the other thread".
`stopFSIOThreads` sends STOP while `gThreadsRunning` and `setup` are still set,
so a call made during the shutdown is queued behind STOP. The IO thread leaves
its loop, the message and its param stay allocated, and a sync caller waits for
its reply for ever (`threads_orphan`).

**Duplicates.** `FSWrapperMergeDirsWithParent.cpp:85` says of a `.deleted_` entry
"We keep the entry but mark it as deleted", `:116` "Check if this is a new
result". The mark is written after the count was incremented, so it lands on the
next entry, and fresh memory holds any mark. The search at 117 skips a marked
entry, so the parent's entry of that name is listed again (`merge_once`). The
`.deleted_` name itself is compared without the mark, which is why hiding works.

**Rewind.** `:97` says "Read the real directory." `FSRewindDirWrapper` forgets the
parent's handle (208) when rewinding it has succeeded: later passes lack the
parent's files, and the parent's directory is never closed (`merge_rewind`).

## 4. Proofs

`FSIOThreads_proofs` proves, for every number of cores, threads, blocks and
addresses, every queue capacity, any allocator that returns unused addresses,
and in every environment of the constants:

| Theorem | States |
|---|---|
| `Invariance` | `Spec => []MessageInv` |
| `TypeCorrect` | `Spec => []TypeOK` |
| `MemorySafe` | `Spec => []NoUseAfterFree` |
| `OneOwner` | `Spec => []SingleOwner` |
| `LockBalanced` | `Spec => []LockDiscipline` |
| `RightReply` | `Spec => []ReplyIsMine` |

Assumptions: the named `ASSUME`s of `FSIOThreads` (there is a core, capacities
are positive, `Malloc(S)` is a subset of `S`, callers and blocks are different
names, STOP is no address).

Argument. `NoUseAfterFree` is not inductive: a queued message could be about any
request, and the thread that frees its *param* could share it with another.
`MessageInv` adds who refers to what. `CallerOwns`: a caller that posts or waits has
its own message, made for its request. `QueueOwns`, `IOThreadOwns`: what is
queued or served names its request (`InFlight`), and if that request is a sync
one, its caller is waiting with this very message (`Awaited`). `SingleOwner`: a
message is in one place. From the last two, the thread that frees something is
the only one that refers to it, so no other clause is disturbed. `Phases` says
on which cores there is a thread, which is needed where the main thread creates
one (an empty queue replaces an old one) and joins one. `LockDiscipline` with
`MutexFree` is inductive by itself. The module has facts about sequences, frame
lemmas (a part is kept by steps that leave its variables alone), one lemma per
action, and the temporal theorems at the end.

Its second part, about the slots of the requests, is as general:

| Theorem | States |
|---|---|
| `SlotInvariance` | `Spec => []IInv`, where `IInv` is `MessageInv` and `SlotInv` |
| `BlocksAreOwned` | `Spec => []BlockOwnership` |
| `Refinement` | `Spec => ImplementsService` |
| `Orderly` | `QuietEnd`: `Spec => [](IInv /\ OrderlyInv)` |
| `Drained` | `QuietEnd`: `Spec => []DrainedAtExit` |
| `QueuesSuffice` | `QuietEnd`, `EagerIO`, at most `QueueCap` requests: `Spec => []NoQueueFatal` |
| `NeverSpins` | at most `AppQueueCap` blocks: `Spec => []NoSpinUnderLock` |

Argument. `BlockOwnership` speaks of IO threads only, so it says nothing of a
message in a queue that is about a block somebody has just given back. `SlotInv`
follows a request through its whole way. A message *carries* its request while it
is posted, queued, or served up to the point where the request is handed over
(`Carried`); a thread carries one while it calls the real function. `OneCarrier`
and `RealOwns`: a request has one carrier, and while it has one its block is the
module's. `Stages`: the decision is open until `doForLayer` ends, and what it is at
each later point. `Completions`: the application's queue holds exactly the blocks
that are done, each once. Most steps only drop carriers (`QuietStep`); a decision
disturbs no other request because no other message carries it (`DecideSlots`), and
a hand-over ends the only carrier (`HandOver`). For the refinement every step is
shown to change the status of one request as `RequestService` allows, or of none
(`OneMoves`, `Stutter`): `Stages` gives the status before the step.

The last four theorems have hypotheses because the code has limits: without them
`threads_safety` reaches a full queue, and `threads_orphan` the message that is left
behind. `QuietEnd` is a promise of the application, and `EagerIO` follows from the
priorities of the console; each is named where it is needed, and no more. The
numbers are the code's arrays: an IO queue has 16 places, so that 16 threads and
command blocks together are served without a fatal error, and `NeverSpins` needs
neither a quiet end nor eager threads. `OrderlyInv` says what the two loops of the
main thread leave behind them. `Callers`: from the moment an application ends
nobody posts or waits. `Threads`: a core has no thread, or one that has exited,
only where the main thread says so, and then its queue is empty. `StopIsLast`: STOP is the
last message of the queue of the thread that is joined. It is kept because
requests are posted only while the application runs and STOP only afterwards, and
`DrainedAtExit` is `Threads` read at the exit. `QueuesSuffice` needs `SetUp` besides
(the queues exist before anybody sends), and a count: the messages in a queue are
carriers, so by `OneCarrier` they are about different requests, and none is about
the request that is being posted; hence there are fewer of them than requests
(`QueueFits`, an injection into a finite set). `NeverSpins` counts the same way: by
`Completions` the blocks in the application's queue are different and done, and the
block that is being completed is not among them.

`MergeDir_proofs` proves, for directories of any content and length up to any
`MaxOwn` and `MaxReal`, the only assumptions being those bounds and that `Unset`
is no entry:

| Theorem | States |
|---|---|
| `Invariance` | `Spec => []IInv` |
| `TypeCorrect` | `Spec => []TypeOK` |
| `DeletedStaysHidden` | `Spec => []HidesDeleted` |
| `FirstPassComplete` | `Spec => []ListsAll` |
| `NothingLeaks` | `Spec => []ReleasedOnClose` |
| `TwiceIsTheFlag` | `Spec => []TwiceOnlyByFlag` |

Argument. What the search finds depends on the array, and the promise is about
the directory: `Copied` says that the entries in use are those that were read,
and that the parent is read only when there are no more (`SearchFacts`). It is
kept because growing and marking change no entry (`RoomFacts`, `KeepFacts`).
`Progress` says that the names listed so far are those read so far without the
hidden ones; at the end of both directories that is `ListsAll`. One lemma per
part of `IInv`, one step per action. `TwiceIsTheFlag` has a second invariant on
top, `Sources`: which read each item of the list comes from. Two items of one
name can only be the layer's and then the parent's, because no directory has a
name twice, and the search lets the second through only past a flag.

`FileOps_proofs` proves, for any files, names, modes, sizes and counts, any word
width, files of any length and any number of descriptors, from the named
assumptions of `FileOps` (which say that the constants have these types, that
the disks to start with are inside the bounds, and that `Nil` is none of the
records it stands in for):

| Theorem | States |
|---|---|
| `Invariance` | `Spec => []IInv` |
| `TypeCorrect` | `Spec => []TypeOK` |
| `NoDescriptorLost` | `Spec => []DescriptorsAccounted` |
| `ReadsAreExact` | `Spec => []ReadsWhatIsThere` |
| `WritesAreExact` | `Spec => []WritesWhatWasGiven` |
| `ReadOnlyLayersChangeNothing` | `Spec => WriteProtected` |

Argument. The properties of transfers are about answers, and what makes them true
is an invariant of the loop, `LoopOK`: the bytes moved so far and those left are
no more than `size * count`; a read's buffer is the file from where it began to
the position; a written file is the old one with the bytes so far laid over it,
and the next byte goes right behind them. It is kept because laying a piece of
bytes behind another is laying their concatenation (proved pointwise at the head
of the module), also beyond the end of the file. `ReplyOK` is the same for the answer, which
stays true because the application takes it before the next call. `FdOK` counts
descriptors with the cardinality of the open handles. `WriteProtected` needs the
invariant in one place: a write loop runs only in a writeable layer.

`FileOps_application_proofs` continues, from the same assumptions, with what the
application sees:

| Theorem | States |
|---|---|
| `Places` | `Spec => [](IInv /\ PlaceOK)` |
| `Refinement` | `Spec => ImplementsReference` |
| `Replying` | `Spec => [](IInv /\ ReplyInv)` |
| `ShortOnlyAtTheEnd` | `Spec => []ShortReadIsTheEnd` |
| `NeverAstray` | `Spec => []HandleStaysHome` |
| `Honesty` | `Spec => []AnswerIsHonest` |
| `NoIdleFatal` | `Spec => []FatalHasACause` |

Argument. While a transfer runs the reference sees its file and position as they
were before it. So each step in a loop is a stutter, and the step that ends it is
the reference's read or write of all the bytes moved, wherever it was cut short.
For that the end has to know where the loop began and how far it is, and that a
read has not left its file: `PlaceOK`. Every other step is one of the reference's or
leaves both alone (one lemma per action). The four properties of answers are about
one step, but its reason lies in the call and not in the answer: `Excused` says
per call when it may go to the console, when it may be an error or fatal and when a
read may be short, and `Spoken` that the answer of a step, if it gives one, is excused. Two
facts of earlier steps are needed, and make up `ReplyInv` with these properties:
only save layers have handles that cannot be read (`Readable`), and what a loop has
moved and what is left make up the product (`Counted`).

`WorkingDir_proofs` proves, for any clients, layers, directories and bounds, and paths,
prefixes and replacements of any length and spelling:

| Theorem | States |
|---|---|
| `Invariance` | `Spec => []IInv` |
| `TypeCorrect` | `Spec => []TypeOK` |
| `OnePathForAllLayers` | `Spec => []SamePathForAll` |
| `NotesAreDirectories` | `Spec => [](IInv /\ DirInv)` |
| `LayersAndConsoleAgree` | `Spec => []ResolutionAgrees` |
| `WalksAreSound` | `Spec => [](IInv /\ WalkInv)` |
| `PlacesAreKept` | `Spec => []RedirectsExactly` |

Assumptions: `WorkingDirAssumption` (see section 2) and `LowerCaseAssumption` of
`Paths` (lower case turns no piece of a name into a separator or into dots, nor these into
anything else).

Argument. That the set of paths the layers saw has at most one member is not
inductive; `AskedSame` says that they are what `getFullPath` makes of the path
now. It is kept because `workingDirs` changes during a walk only by the made-up
note, which completes the path to what it was completed to before, or by the
first section of `clearFSLayer`, which sets `cleared`.

`ResolutionAgrees` speaks of moments when nothing is on its way. `DirInv` says what
is known before: of the changes on their way at most one is the newest, and the note
is its path (`NewestNoted`), so that when it is made, the note is where the console is;
and while nothing excuses a difference the note leads to the console's directory
(`DirNoted`). Across applications it needs `NotesCleared`: between the sections of
`clearFSLayer` and until the next application only clients that are in `late` have a
note other than `/`, because without layers none is taken. The theorem then is a
fact about paths, `NamesBehind`: a note ends with a slash, so the names of a
completed path are the note's and then the path's, and walking them is walking
the note and then the path (`WalkedOn`).

`RedirectsExactly` speaks of the end of a walk. `WalkInv` keeps what each layer on the
way has found: the layer that answers has the path below its prefix and the target
from `GetNewPath` (`Answered`), and every layer that was passed and had to answer
does not have it (`Passed`). Layers and notes stay what they were because whoever
changes them waits for the walk. The rest is in `Paths_proofs`: a path that starts
with the prefix, in whatever case, and does not go on with a longer name, has the
prefix's names and then those of the rest (`StartsWith`, `NamesApart`); neither slashes for
backslashes nor clearing double slashes changes a name (`NamesOfSlashes`,
`NamesOfNoDoubleSlashes`), and names without dots lead straight down (`WalkedDown`):
that is `RedirectedPlace`. The other direction, that a layer misses no path below its
prefix, goes through spelling: an absolute path with slashes only and no two in a
row is its names, each behind a slash, and perhaps a last slash (`SpelledOut`), so
whoever has the names of the prefix has its text (`PrefixByNames`, `NotBelow`).

What a loop over a path computes is proved by induction, without a theorem that takes an
operator: `Induct` is about the set of the numbers for which something holds, and
follows from the least element of a set of numbers (`WFMin`, with the relation
`<`). That is why the loops are recursive functions over an interval and their steps are
functions: both can be arguments of a lemma.

`LayerStack_proofs` proves, for any layers, paths and handles, hence any number of
layers that are added, switched and removed while files are open in them, and any
depth of nested calls:

| Theorem | States |
|---|---|
| `Invariance` | `Spec => []IInv` |
| `TypeCorrect` | `Spec => []TypeOK` |
| `AlwaysOpen` | `Spec => []HeldIsOpen` |
| `AlwaysBelow` | `Spec => []ParentBelow` |
| `Resolves` | `Spec => OverlayResolution` |
| `AnsweredAtHome` | `Spec => GoesHome` |

Assumptions: `LayerAssumption` and `NameAssumption` of `LayerStack` (merging layers
are layers, the names of layers, clients, paths and handles are different).

Argument. None of these properties is inductive. `HeldIsOpen` speaks of the
time between calls; `HeldOK` adds the one exception during a call, the handle
whose close has failed in a merging layer and goes on. `ParentBelow` needs that a
parent's directory is nobody else's (`ParentOK`, `Free`), or another close could
take it. `WalkOK` has a fact about every frame: it is inside the layers its client
may see, has asked every layer above it that would decide (`FrameOK`), waits with
a directory of its own if it waits (`Waits`), has the client and the handle of the
frame below it (`Nested`), and has the home of the application's handle still
before it (`First`). `RetOK` says what a merging layer may expect of the answer it
waits for. A step returns, steps down or nests (`ReturnStep`, `NextStep`,
`NestStep`, about the frames); opens, closes or leaves the tables alone (`ClaimStep`,
`CloseStep`, `SameStep`, about the tables); each action is one of each. The plugins'
actions happen between walks; `RemoveKeeps` shows that what the removed layer did
not own keeps its order and its handles. The two action properties then follow
from `WhoAnswers`, which says what is known when an answer is given.

`Reentry_proofs` proves, for any layers, paths and handles, any replacement
directories and any depth of walks inside walks:

| Theorem | States |
|---|---|
| `WalksInvariance` | `AllSpec => []WInv` |
| `AlwaysDescends` | `Grounded => (AllSpec => []Descends)` |
| `RealisesLayers` | `Outside => (AllSpec => ImplementsLayers)` |
| `OverlayHolds` | `Outside => (AllSpec => OverlayResolved)` |

Assumptions: those of `LayerStack` and `PlaceAssumption` (`Posix` is no layer and
not the application, `Fd` no handle). `Grounded` and `Outside` are hypotheses of the
theorems, see section 2.

Argument. `WInv` is about the shape of the stack: the frames of one walk descend
from layer to layer (`StackOK`), a waiting walk stands at a layer that covers what
it was asked for (`OuterOK`), and the call above it is the one this layer makes for
it (`LinksOK`). Under `Grounded` the rank of its path is then smaller, which is
`Descends`. For the refinement `OInv` says in addition that at most one POSIX call
is under way and that it is a `Leaf`: by `Outside` no layer has an answer to it, so it
passes down to the console (`InnerStep`, a stutter of `LayerStack`), and what it tells
is the truth about the files (`Truth`), so that `Learn` learns nothing
(`ReturnedStep`). Every other step is the step of `LayerStack` of the same name
(`OuterStep`, `BetweenStep`, and the lemmas `Same...`, which compare the definitions
of the two instances). `OverlayHolds` is that refinement and the theorem `Resolves`
of `LayerStack_proofs`.

Only model-checked: `ServiceProgress`, `StopTerminates`, `WalkEnds` and whatever else
needs fairness, because liveness and ENABLED are out of TLAPS' reach here; in
particular that a chain of commands on handles inside handles ends, which
`Descends` does not bound by a rank. `TypeOKReentry`, the type invariant of `Reentry`,
is model-checked too. Every other property of the runs that pass is stated by a
theorem. The three violated properties are refuted by their runs.

## 5. Not modelled, and the plan

Every component with state of its own is modelled, and every safety property is
proved. What is left is a composition of `LayerStack` with `FileOps`, so that the
files of several layers are the reference's files.

What the checked properties leave out, on purpose: an IO thread that has not
initialised its queue when the first request comes (`EagerIO`; without it
`NoQueueFatal` fails at `FileUtils.cpp:548`), a STOP that meets a full queue
(`FileUtils.cpp:567`; `QuietEnd` and the capacities exclude it), the parent's
directory that stays open after a rewind, a path that goes on behind a prefix without
a separator (`/vol/content2`), and the position after `IsEof`, which the reference
has in the same way. They are in the models, and in the hazards of `PROJECT.json`.

Not modelled: patching of functions and the guard of `OSCancelThread` (one-shot
calls, and nothing in the model cancels a thread), the logging module (output),
`translate_stat` (a pure conversion without state), `getAOCPath` (a sequence of
library calls), `CRAddDevice`, `CRRemoveDevice` and the patched functions that
only log and forward (no state of the module), the check of the stack's
allocation (`FileUtils.cpp:528`; what a thread does on a null stack is the
console's).
