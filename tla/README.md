# TLA+ models of OpenUSD

This directory holds TLA+ specifications of the parts of OpenUSD (the `pxr`
tree) whose correctness depends on the order in which threads, notifications or
calls interleave, the TLC configurations that check them on small instances, and
TLAPS proofs of the properties that matter most for every instance.

Every definition is translated from the source; `PROJECT.json` maps each one to
the lines it stands for (`map`), and lists the runs, the properties, a mutant per
property, the hazards the properties are for, and the theorems.

## 1. The system

OpenUSD is a stack of libraries. From the bottom up, with the state each keeps,
its operations, what is hard about it and what makes it correct:

| Component | State and operations | What is hard | What makes it correct |
|---|---|---|---|
| `base/tf` locks: `TfSpinRWMutex`, `TfBigRWMutex` | one atomic integer, or 16 of them and a writer flag; acquire, try, release, upgrade, downgrade | every operation is several atomic accesses; readers count themselves optimistically and undo it; a release overlaps the next acquisition | mutual exclusion, exact counts, a flag with one owner, progress |
| `base/tf` smart pointers: `TfRefPtr`, `TfWeakPtr`, Python ownership (`pyIdentity`) | an atomic count per object, a remnant per weakly held object, a Python object that keeps the C++ object alive | weak-to-strong conversion during destruction; calls to a listener exactly when a count goes between one and two | nothing freed in use, nothing leaked, the Python object is kept exactly while C++ shares the object |
| `base/tf` notices: `TfNotice`, `Tf_NoticeRegistry` | deliverer lists per notice type; register, revoke, send, block | listeners revoke themselves, or others, during a delivery | no call after revocation by the same thread, every registered listener called once |
| `base/tf` tokens, singletons, registries, diagnostics | sharded token table with counts; `TfSingleton`, `TfRegistryManager`; `TfErrorMark` lists | a token's count reaching zero while another thread looks it up; creation in two threads | one entry per string; one instance |
| `base/work`, `base/trace`, `base/vt` | dispatchers, detached tasks; per-thread event lists; copy-on-write arrays | waiting for tasks that spawn tasks; reading lists while threads append; detaching shared storage | wait returns after all tasks; no lost event; no write to shared storage |
| `base/arch`, `base/gf`, `base/js`, `base/plug`, `base/pegtl` | system calls, linear algebra, parsers, plugin discovery | numeric, I/O | not state machines; not modelled |
| `usd/sdf` layers and registry: `SdfLayer`, `Sdf_LayerRegistry` | the global registry of weak handles under one `queuing_rw_mutex`; per layer its identity and two initialization flags; `FindOrOpen`, `Find`, `CreateNew`, `SetIdentifier`, destruction | a lookup meets an expiring layer; upgrading the lock lets others in; other threads wait for a layer being read; failed reads and saves | one live layer per path, never used before it is read, registry exact, every call returns |
| `usd/sdf` change processing: `Sdf_ChangeManager`, `SdfChangeBlock`, `Sdf_CleanupTracker` | per-thread change lists and block depth; open, close, record, flush | nested blocks, changes made by notice handlers | every change is sent once, after the outermost block |
| `usd/sdf` paths: `Sdf_Pool`, `Sdf_PathNode` | per-thread spans and a shared free list of 32-bit handles; a table of nodes with counts | node revival while its count is zero, free-list reservation | one node per path, no node reused while referenced |
| `usd/sdf` list operations: `SdfListOp` | ordered edits; apply, compose, reorder | composition must equal application in turn | pure algorithm against a reference |
| `usd/pcp`: `PcpCache`, `PcpChanges`, `Pcp_Dependencies`, `Pcp_LayerStackRegistry`, `PcpMapFunction`, `PcpPrimIndex` | composed prim indexes, layer stacks, dependency maps; compute, invalidate, apply | layer stacks created concurrently and found while expiring; invalidation must reach every dependent | caches equal recomputation; one layer stack per identifier |
| `usd/usd`: `UsdStage`, `Usd_InstanceCache`, `UsdStageCache`, load rules, population mask, `Usd_ClipCache` | the prim tree, prototypes shared by instances, caches of stages; compose, recompose, load, mask | instances registered in parallel, prototypes that lose their source, recomposition in rounds | every instance has one prototype whose source is one of its instances |
| `usd/ar`, `usd/kind`, `usd/ndr`, `usd/sdr`, schemas (`usdGeom`, `usdShade`, ...), `usdUtils` | resolver contexts, registries, schema accessors | mostly stateless or generated | not modelled |
| `imaging/hd`: `HdRenderThread`, `HdChangeTracker`, `HdInstanceRegistry`, scene indices | render thread state machine; dirty bits and versions; shared resources | cancelling and pausing a callback that holds the mutex; stale versions | edits never overlap rendering, stop and terminate return, no lost wakeup |
| `imaging/hgi*`, `hdSt`, `hdx`, `hio`, `glf`, `usdImaging`, `usdview`, `bin` | GPU objects and command buffers, tasks, adapters, applications | API of the graphics device | nothing deleted while a command buffer may use it; besides `HgiVulkan`'s garbage collection, out of reach or thin |
| vendored code (`OpenEXR`, `rapidjson`, `lz4`, `pegtl`, `boost` replacements, ...) and `extras`, `build_scripts`, `cmake` | | | not part of the program's own logic |

How they interact: a `UsdStage` asks `PcpCache` for prim indexes, which opens
layers through `SdfLayer::FindOrOpen` from many worker threads; edits to a layer
are recorded by `Sdf_ChangeManager` and sent as a notice, from which the stage
computes `PcpChanges`, invalidates prim indexes and recomposes, re-registering
instances in `Usd_InstanceCache`; the imaging side turns prim changes into dirty
bits, and render delegates stop and restart their `HdRenderThread`. Everything is
held by `TfRefPtr`/`TfWeakPtr`, and four registries share a pattern: a table of weak
handles, a lookup that may meet an object whose count has just reached zero, and
creation under an exclusive lock. They are layers (`SdfLayerRegistry`), layer stacks
(`PcpLayerStackRegistry`), path nodes (`SdfPathNodes`) and token representations
(`TfTokenRegistry`); one abstract specification, `SharedObjects`, says what all four
promise, and each is shown to implement it.

## 2. Modules

| Module | Models | Checked by |
|---|---|---|
| `TfRWLock` | what a readers-writer lock promises | implemented by both locks |
| `TfSpinRWMutex` | the spin lock, one action per atomic access | `Synchronization`, `TfSpinRWMutex_upgrade`; TLAPS |
| `TfBigRWMutex`, `_proofs` | the array of spin locks with staged write acquisition | `TfBigRWMutex`; TLAPS |
| `SharedObjects` | what a registry of shared objects promises: one object in use per key | implemented by four registries |
| `SdfLayerRegistry`, `_proofs` | the life of layers: lookups, opening, creation, destruction, against the registry and its mutex | `SdfLayerRegistry_safety`, `SdfLayerRegistry_unsaved`, `Synchronization`; TLAPS |
| `SdfLayerRename` | `SetIdentifier` against the keys of that registry | `SharedState`; TLAPS |
| `PcpLayerStackRegistry` | layer stacks computed outside the lock, shared, changed and destroyed | `SharedState`; TLAPS |
| `TfTokenRegistry` | tokens, counted and immortal, against their representations | `SharedState`; TLAPS |
| `SdfPathNodes` | the counted nodes of paths, their table and their tokens | `SharedState`; TLAPS |
| `SdfPool` | the allocator of path nodes: free lists, spans, regions | `StageContents`, `SdfPool_regions`; TLAPS |
| `TfNoticeRegistry` | delivery of notices while listeners register, revoke and send | `SharedState`; TLAPS |
| `TfPyOwnership` | a counted object that Python may own | `SharedState`; TLAPS |
| `SdfChangeManager` | change blocks, rounds of notices and the stages that hear them | `SharedState`, `SdfChangeManager_stages`; TLAPS |
| `UsdStageCache` | stages requested by several threads | `SharedState`; TLAPS |
| `HgiVulkanGarbage` | command buffers, their bits and the objects they may use | `SharedState`; TLAPS |
| `HdRenderThread` | the render thread's state machine with cancellation and pausing | `Synchronization`, `HdRenderThread_pause`; TLAPS |
| `UsdInstanceCache` | the instance cache: registration, unregistration, processing of changes | through `UsdStageRecompose`; TLAPS |
| `UsdStageRecompose`, `_proofs` | composes the cache with the stage: parallel indexing and the rebuilding of prims after every change | `UsdStageRecompose_safety`, `StageContents`; TLAPS |
| `PcpCache` | prim indexes, their dependencies on layers, and what edits of layers invalidate | `StageContents` |
| `UsdStageLoadRules` | which payloads a stage loads, after any calls | `StageContents`, `UsdStageLoadRules_ancestors`; TLAPS |
| `UsdStagePopulationMask` | which prims a stage is populated with | `StageContents`; TLAPS |
| `SdfListOp` | opinions about a list, and one over another | `StageContents`; TLAPS |
| `SharedTables`, `_proofs` | the layer stacks, tokens, path nodes and notices of `SharedState`, which extends it, with the proofs about them | `SharedState`; TLAPS |
| `StageData`, `_proofs` | the pool, the list ops and the mask of `StageContents`, which extends it, with the proofs about them | `StageContents`; TLAPS |
| `Synchronization`, `_proofs` | `TfSpinRWMutex`, `HdRenderThread` and `SdfLayerRegistry` side by side | itself |
| `SharedState`, `_proofs` | nine protocols over shared tables, counts and queues side by side | itself |
| `StageContents`, `_proofs` | six modules about what a stage is made of side by side | itself |

`MC<Module>.tla` instantiates a module for TLC: model values, operator constants
and symmetry sets. Three modules compose others that share nothing, so that one
instance answers for several small ones: `Synchronization` (what threads wait for),
`SharedState` (tables, counts and queues that threads share) and `StageContents` (what
a stage is made of). In each the variable `part`, chosen initially, says which
component moves; the others keep their initial states. The composition has the sum of
the components' states and not their product, and a property of it is the conjunction,
or the choice by `part`, of the components' own. They are modules of their own, and not
part of the `MC` modules, because theorems are proved about them too: what holds of
every part by itself holds of the composition, for any values of the constants.

Definitions marked "Mutant" are never part of a specification: each is a wrong
version of the definition that follows it, which some property refutes when it takes
that definition's place.

### SharedObjects

An object in use has a key, and no two have the same. A user that has none gets the
object of the key it asks for (`Join`), or a new one if there is none (`New`); it may
hand its object on (`Pass`) and let it go (`Leave`), and with the last user the key
is free again. Nothing is said of tables, locks, threads or objects that are on
their way in or out, which is what the four registries differ in: `SdfLayerRegistry`
waits for whoever reads, `PcpLayerStackRegistry` lets threads compute the same stack
and throws the losers' away, `SdfPathNodes` replaces a node that is dying, and
`TfTokenRegistry` revives one whose count reached zero outside the lock.

### SdfLayerRegistry

A thread is at a program counter between two accesses to shared state. The
`TfRefPtr`s a thread has are `held` (the caller's, between calls) and `tmp` (the
running call's), so the reference count of a layer is zero exactly when no
thread's is the layer (`Owners`). `registry` is the set of layers whose weak handle
is in `_layers`; `ident[l]` is `None` exactly while no object occupies the memory
`l`. `TfCreateRefPtrFromProtectedWeakPtr` is the test `Owners(l) # {}`.

`readers` and `writer` are the `tbb::queuing_rw_mutex`. Its `upgrade_to_writer` is
two actions: `UpgradeAtomic` (returned true, nobody else had the lock) and
`UpgradeReleasing` followed by `UpgradeAcquire` (returned false, anything may have
happened in between). Which one happens is left open, as it is by the library.

Identifiers are members of a small set with a function `RealPath` to resolved
paths, so that two identifiers can name one asset, the case the `by_real_path`
index is for. Resolution, file formats, arguments and the contents of a layer are
left out; reading may succeed or fail, and so may saving (`SaveCanFail`). Python's
lock, muting, anonymous layers and `SdfLayer::Reload` are left out. `SetIdentifier`
has a module of its own, `SdfLayerRename`.

What must hold, and why it might not:

- `UniqueLayer`. Between finding nothing and inserting a layer the lock may have
  been let go (an upgrade that is not atomic), an expiring layer may still occupy
  the path, and its destructor may be waiting for the same lock.
- `OnlyReadLayersReturned`. The layer is published in the registry before it is
  read, and threads wait on one flag for the outcome stored in another.
- `RegistryTracksLayers`. Both `~SdfLayer` and `_TryToFindLayer` erase, and memory
  is reused: an erase must never remove, or miss, the layer it is not about.
- `StableForReaders` (a theorem). What a lookup found is used after the lookup.
- `CallsReturn`. Threads wait for the mutex, and for the thread that reads.
- `ImplementsSharing`. All of it together amounts to joining and leaving one live
  layer per path.

`IInv` is their inductive strengthening. The part that carries the argument is
`LookupStands`: from the moment a thread has found nothing, or an expiring layer,
with the lock, to the moment it constructs the new layer, the registry holds no
other layer of that path. It is what makes `Construct`'s insertion succeed, hence
what keeps the weak table exact.

`SdfLayerRegistry_unsaved` is a violation: `_CreateNew` inserts the layer, tries to
save it, and when that fails returns without `_FinishInitialization`. A thread that
takes the registry lock after it was released and before the reference is dropped
finds the layer, gets a reference and waits for ever; its reference also keeps the
layer in the registry, so every later lookup of the path hangs too. For this reason
the safety run allows deadlock: threads really may all wait. `LayerCallsReturn` of
the run `Synchronization` is `CallsReturn` with `SaveCanFail = FALSE`.

### TfSpinRWMutex, TfBigRWMutex and TfRWLock

Every action of `TfSpinRWMutex` is one atomic access to `_lockState`, kept as the
fields `readers` and `flag`. A `fetch_or` that finds the flag set leaves the state
unchanged and is `FlagTaken`; the wait loops are actions enabled when the awaited
state is seen. `TfBigRWMutex` repeats the accesses for each lock state of the array
and adds `_writerActive`; the write acquisition is a loop over `index`, one action
per call of `_StagedAcquireWriteStep`, and `_ReleaseWrite` is a loop as well, which
overlaps the next writer's because `_writerActive` is cleared first.

Both implement `TfRWLock`: an upgrading reader of the spin lock counts as a reader
until it writes; an upgrade of the big lock is a release and an acquisition.

`TfSpinRWMutex_upgrade` is a violation. `UpgradeToWriter` waits for the other
writer to clear its flag without giving up its own reader count, and that writer
waits for the count to reach zero. Two upgraders, or an upgrader and a writer,
block each other, and every later reader. So the safety properties are checked
with every operation, and `WriterNotStarved` of the same run is conditional
on `TurnsAreTaken`: from some time on nobody upgrades, and nobody polls with
`TryAcquireRead` without pause, which can keep a spinning writer from ever seeing
the count at zero. For the same reason the run allows deadlock.

What must hold, and why it might not: `MutualExclusion` (a theorem) and `StateIsExact` although
a reader counts itself before it looks and takes the count back, and an upgrader
sets the flag and gives up its count in two steps; `FlagsHaveOneOwner` and
`Excluded` (part of the proof) although a release and the next staged acquisition go over the array at
the same time, each lock state at another stage; `WriterNotStarved`,
`ActiveWriterAcquires` and `SomeoneAcquires` although readers keep touching the
word the writer waits for.

### TfTokenRegistry

Token objects appear, threads do not: a token is used by one thread at a time, but
may be copied from while others copy from it. What the lock of a set protects
(`_GetPtrImpl`, `_PossiblyDestroyRep`) is one step; the accesses of a copy or a
destruction outside it (`IncrementIfCounted`, the load and the decrement of
`_RemoveRef`) are one each. A token's bit says that it believes its representation
counted, which may be out of date, as `MakeImmortal` may run in between.

- `RepsAreExact`: every token points to the representation the table has for its
  string (`Interned`), and a counted representation has the count of its tokens. A
  count may reach zero outside the lock and the representation be found again; a
  token may see a count of one that is no longer true when it has the lock.
- `ImmortalStays` (a theorem): nobody erases what has become immortal.
- `ImplementsSharing`.

`IInv` strengthens them: who is being copied holds on (`SourcesHold`), a token that
does not believe is right (`BeliefsAreSafe`), and a representation that is no longer
counted still has as many counts as tokens that might take theirs back
(`CountsCover`), so that no count goes below zero.

### SdfPathNodes

Handles stand for the threads that use them. `_FindOrCreate` is one step under its
shard's lock: it counts what it finds even if that node is dying, and then replaces
it in the table. A thread whose release takes a count to zero destroys the node in
four steps (`Remove` from the table, `RemovePathToken`, `ReleaseParent`, `Free`), and
the release of the parent may put a parent in front of it on the thread's list
`dying`. Addresses are used again. The nodes of property parts, which are not counted
and never die, and the other kinds of prim nodes, which work alike, are left out.

`NodesAreExact` says that table entries are allocated nodes of their key, that a node
is destroyed once, that a count is that of handles and children, and that the table
of path tokens, keyed by addresses, never gives a path the token of the former owner
of its address. `ImplementsSharing`: equal paths are equal pointers, although a node
of the same path may be dying beside the one in use.

### PcpLayerStackRegistry

`FindOrCreate` looks for the identifier under the lock, computes a stack without it
and installs it under the lock, or throws it away if another thread was first.
`_SetLayers`, the removal in the destructor and the changes of a stack
(`PcpLayerStack::Apply`) are further sections of the lock. A section is one step
where it makes no call that could need the lock again.

- `UsesAreExact`, `EntriesAreStacks`. Two maps must be each other's inverse, and a
  stack that is being destroyed must not take the entry of its successor with it.
- `NoSelfDeadlock`. The losing stack is destroyed inside the section that found it
  too late; its destructor would need the same lock if it had been linked.
- `ImplementsSharing`.

`IInv` adds what a thread has at each label, that whoever creates or destroys a stack
is alone with it (`CreatedAlone`), and that a registered stack is counted exactly
(`Counted`). The run checks it whole, and with it the three invariants.

### SdfPool

A handle is a pair of a region and an index. A thread allocates from its own free
list (`PopFree`), its span (`AllocFromSpan`) or a free list that another shared
(`TakeSharedFreeList`), each of which is one action, since the list or span is the
thread's own and the queue is a concurrent queue of the library. Only when all of
these are empty does it reserve a span, and `_ReserveSpan` is split at every access
to `_regionState`; the label `reserve` is the loop around the compare and swap,
whose success (`ReserveSpan`) and failure (`SeeOtherState`) are two actions. A weak
exchange that fails although the state is as it was seen changes nothing. The copy
`seen` of the state is what the exchange compares and updates. The packing of a
state into 32 bits is modelled where it matters: `FirstState(region)` takes the
region modulo `NumRegions`.

Free lists are sets, their order matters to nobody; `used` is what clients have;
what a thread leaves behind when it ends (its free list and its span are lost to
the process) is left out. `PoolAssumption` states what the pool's sizes give: a
region does not end exactly at the end of a span (16384 does not divide 2^24 - 2),
so that no span is empty. `MaxUsed` and `MaxRegions` are bounds of the model.

- `OneOwner`, `NothingLost`. Threads allocate without looking at each other, any
  thread frees what any other allocated, the end of a region goes to the thread
  that locks the state, and lists change hands.
- `HaveStorage`. The state is unlocked only after the region has storage.
- `GrowthBounded`. A thread that only frees feeds one that only allocates: without
  sharing lists, or without looking for them, the pool would grow for ever.
- `AllocationEnds`. All wait while one creates a region, and a thread may lose the
  exchange again and again; each loss takes a span, and the space in use is bounded.

`SdfPool_regions` is a violation. `_ReserveSpan` means to die when it is out of
regions, but the number of a region that the state can hold is at most
`NumRegions - 1`, so `newRegion > NumRegions` is never true. The region after the
last one is number `NumRegions`, which `_RegionState` has no bits for: spans are
then reserved from region 0, which has no storage. It takes 2^32 path nodes to get
there.

### TfNoticeRegistry

A call is a frame on its thread's stack: a delivery calls a listener, which may send,
register and revoke in turn, to a bounded depth. Every notice walks the lists of its
type and its bases. The user count, the deactivation of deliverers that are revoked
while somebody walks, and the freeing of dead entries when nobody does are modelled;
probes, blocks, and the cache of notice types are left out. The caller of
`Register` keeps the listener and the sender until it returns. From then on either may
be destroyed at any time, also while it is called or its key is being revoked.

`TfNotice::Revoke` tests the key without the lock, first that its weak pointer has not
expired and then, through that pointer, that the deliverer is active. Only then does
`_Revoke` take the lock. Meanwhile another thread's walk may bury and free a deliverer
whose listener or sender is gone, and if a further send is under way by then,
`noticeRegistry.cpp:206` uses a weak pointer that has expired: a fatal error, modelled
as the end of the process (`FatalError`), after which the specification takes no step.
The same may happen to a key that is revoked a second time, for which `notice.h:384-386`
promises `false`, between the two reads of `Key::IsValid`. `UsdStage` is exposed to the
former: it revokes the keys of layers that it no longer uses (`stage.cpp:4917-4922`),
whose senders other threads may destroy. A deliverer freed between fetching
the pointer and reading `_active` has no step of its own: whichever value is read, the
call goes on as if it had been freed before the first read or after the second.

- `NothingFreedInUse`. A walk goes on without a lock through elements that others
  revoke, and must find none freed. For calls that revoke it says when they can find
  their deliverer freed, and so when the fatal error can happen: only if the listener
  or the sender was gone, or the deliverer was deactivated already. A listener that
  lives and is revoked once is safe.
- `DeliveredOnce`. Listeners are prepended during a walk, and their memory reused.

### SdfChangeManager

Each thread has a list of changes; closing its outermost block sends a round of
notices, to the listeners of each layer, to everybody, and to the stages of each
layer. A listener runs on the sender's stack with no block open, so its own edits are
a round nested in the one it hears. A stage remembers the serial number of the round
it processed. The threading rule of `usd`, that the layers of one stage are edited by
one thread, is an assumption (`ThreadingAssumption`). What is changed is left out: a
change is its place in the history of its layer. Changes that a stage merges into the
`_pendingChanges` of a function further up its own stack count as processed, since
that function processes them before it returns.

`StagesKeepUp`: whenever a thread is outside every block and round, each stage has
processed every change the thread made to its layers.

`SdfChangeManager_stages` is a violation of `NoFalseAlarm`. A listener that edits in
response to a notice of one stage starts a nested round with a larger serial number;
a second stage hears the inner round first, takes the outer one for a violation of
the threading rule and ignores it, although one thread made every edit. In the run
`SharedState` listeners edit only in response to the notices of layers
(`EditPhases`), where rounds nest without overtaking.

### TfPyOwnership

One C++ object that Python may own: the counts of `refPtr.cpp` with the listener that
is called when a count goes from one to two and back, and the two transfers of
ownership in `pyIdentity.h`. A compare-and-swap loop is one step, and so is a section
of Python's lock that calls nothing which may free the Python object.

`KeptWhileShared` of the run has two parts:

- `NeverResurrected`. The count is that of the references, and of a destroyed object
  there are none. A weak pointer takes a reference while the last one is dropped;
  `_AddRefIfNonzero` stores two under the lock while a release outside it may take
  the count from one to zero.
- `KeptWhileShared`. The Python object is kept exactly while C++ shares the object.

With `FlagRaces` the model also has the unsynchronized read of the listener flag in
`_AddRef` against `SetUniqueChangedListener`; `KeptWhileShared` is then violated, since
a reference taken meanwhile goes uncounted for Python. The project's instance sets it
to `FALSE`: the listener is set while no other thread is counting.

### HgiVulkanGarbage

Ids of command buffers are given out in turn and stand for bits; a thread that gets an
id whose bit is set spins. A destroyed object is stamped with the bits set then and
deleted when the queue has none of them. `EndFrameSync` is one step, for the code
demands that nobody records or destroys meanwhile; threads may be waiting for ids.

- `NotDeletedInUse`. Bits are reused while objects are stamped with them.
- `IInv`, its strengthening: without unique ids, resetting one buffer would clear
  another's bit (`BitsAreExact`).

One divergence is described here without a run: a frame in which 64 command buffers
are recorded before anything is submitted makes the main thread spin for a bit that
only the main thread can clear (`commandQueue.cpp`, `_SetInflightBit`'s loop).

### SdfLayerRename

Layers exist throughout and change their keys. `SetIdentifier` looks for a layer of
the new name as a reader and, having found none, as a writer; it gives the lock up as
soon as it finds a layer, also when that is the very layer being renamed. A layer is
renamed in two steps: its own data, from which the keys are computed, then the
tables.

`LayersStayRegistered`: no layer drops out of the registry because another took its
path. `UpdatesAreExclusive` fails, and is not run: when the new identifier resolves
to the layer's own path the update is made without the write lock that the comment at
`layer.cpp:2542` relies on. With distinct paths, the case of the run, it does not
come to that.

### UsdStageCache

A request finds a stage, waits for the pending request of another thread, or becomes
one itself, whose stage is made without the lock. A pending request lives on its
thread's stack; others subscribe mailboxes to it. A section of a cache's mutex is one
step, but `swap` takes two mutexes.

- `CreatedOnce`. "There is no race and the stage is created only once."
- `WaitersAreServed`. A thread that waits is subscribed to a request that still runs,
  or has its answer.

`Racing` says which operations run concurrently with requests: the run has the
`Erase` family. `stageCache.h:56` promises it for all operations other than
construction and destruction, and the model shows otherwise: `Clear`, assignment and
`swap` replace the list of pending requests, so a request's thread finishes one that
is no longer there (`PendingRequestsRun`). The theorems about the cache therefore
assume `Racing \subseteq {"erase"}`.

### HdRenderThread

Each method is split at the points where another thread can run: the test of
`_rendering`, the atomic flags, and the critical section under
`_requestedStateMutex`, which is one action. The render thread keeps the mutex
during the callback, so `mutex` is either free or the render thread's. The callback
is the example the header gives, together with the pause check hdEmbree makes
(external). Hydra threads keep the header's rules: thread management and
`StartRender` are called by `Main` when no other call is running; `StopRender` is
called by any number of threads at once, each followed by an edit of the scene.

`HdRenderThread_pause` is a violation: `PauseRender` marks the state dirty before it
changes it, so a callback asking in between consumes the mark and never hears of
the change.

What must hold, and why it might not: `EditsExcludeRendering`, though `StopRender`
tests `_rendering` without the mutex and returns at once when a flag that the render
thread clears says so; `StopsAreRequested`, though the request to stop is one flag
that the callback's query, `StopRender` and the render thread all write;
`StopsReturn` (`StopRenderReturns` and `StopThreadReturns`) and `StartedRenderRuns`,
though the render thread may be between the test of its predicate and the wait, or
the callback between two queries, or paused. `IInv` is the inductive invariant of
the first two: the callback runs only in a render that `IsRendering` tells of, and
an edit begins only when it tells of none (`RenderIsKnown`).

### UsdInstanceCache and UsdStageRecompose

A path is a sequence of names. Scene description has two levels: a root prim is
absent, plain with children of its own, or an instance of a key, whose children are
those of the key; inner keys make the children instances too, so that prototypes
contain instances. A key stands for everything that makes two instances share a
prototype; population mask and load rules are part of it. A prim on the stage is
the index it points to, whether that index is still `live`, and the cached
instance flag.

| Action | Code |
|---|---|
| `Edit` | scene description changes, `PcpCache::Apply` drops prim indexes, and `_RecomposePrims` starts: elided paths, `UnregisterInstancePrimIndexesUnder` |
| `ComputeIndex(p)` | one task of `_ComputePrimIndexesInParallel`: compute the index, register an instance, decide whether to descend |
| `InstancesRegistered` | `ProcessChanges` once the tasks are done, and the recursion for sources that changed |
| `RecomposePrims` | the rest of `_RecomposePrims`: affected prototypes, new and removed children, subtrees, destroyed prototypes |

Phases are `composing` (tasks run in any order), `recomposing` and `idle`. Changes
are edits of up to `MaxBatch` roots at once, with at most one path that is reported
although it turns out unchanged, and changes of a single prim (`didChangePrims`).
Where the code takes the smallest of the remaining instances as the new source of a
prototype, or sorts the keys of new prototypes, the model takes any; numbers of
prototypes that are gone are used again. Inactive prims, names of properties,
values and notices are left out.

- `CacheConsistent`. Five maps that must agree; a round may take a prototype's
  source and some of its instances away and bring others.
- `InstancesAreExact`. Instances are unregistered wholesale and register again;
  the tasks do not descend below instances that are not sources, and a source may
  cease to be one.
- `RecomposedFully`. Changes below instances are elided; whether a prototype uses
  an index is decided from the maps before, and after, the change; a prim whose
  index was dropped must be found, also in prototypes.
- `RecomposeEnds`. Composing new sources may change instances, and so sources,
  again.

### PcpCache

A cache of `PcpCache` in USD mode. A layer stack has one layer, whose prims have
specs, defining or not, and references to prims of other stacks. A prim index is the
set of its nodes, a node the sequence of arcs that leads to it, so that the map of a
node to the root is the exchange of one prefix. `ComputePrimIndex` starts from the
parent's index, drops nodes below which nothing has specs, and adds references with
the ancestral opinions of their targets; what is culled there but was brought by an
arc of this prim stays as a culled dependency. Dependencies are stored for nodes and
culled nodes that are not due to an ancestor alone, in path tables that reap their
empty entries. `ChangeLayers` is a change block of one edit, or two of which the second
is of a site of the first, from the entries of the change list through
`FindSiteDependencies` and `PcpChanges` to `PcpCache::Apply`.

`IndexesAreCurrent` compares the cache with composing anew after any edits and
computations: every index has the nodes with specs, and at least the other nodes, that
composing gives; nodes that lost their specs stay until the index is computed again,
which changes no opinion. Every site is depended on as often as direct nodes of
indexes are at it, and no table has entries below which nothing is depended on
(`DependenciesAreExact`, part of the property).

One obligation is the client's: an index in `didChangePrims` is emptied and stays in
the table without dependencies, while the indexes below it stay valid. They are looked
for "below" an index that exists, so a later edit may miss them unless the emptied
index has been computed again. `ChangeLayers` is therefore guarded: no index is empty.
`UsdStage` sees to it, since it recomposes these prims before it returns from the
notice (`stage.cpp:4529`). Without the guard the model shows stale indexes.

The cache's single-threaded interface is modelled; of the parallel indexer what tasks
ask for is in `UsdStageRecompose`. Sublayers, the other arcs, relocates, expression
variables, dynamic file formats, property indexes, and the revision of the layer stacks
in use are left out.

### UsdStageLoadRules, UsdStagePopulationMask, SdfListOp

Pure algorithms, each with a history to be compared with, so that a property is about
any sequence of calls.

- `UsdStageLoadRules`: the rules are a function of the paths that have one (the order
  of the vector matters only in that what is below a path follows it), `asked` is
  what the calls said of each path. `LoadedAsAsked`: after any calls what was asked for
  is loaded, what is loaded was asked for or is above what was, and the two queries
  that let a stage skip a call answer for everything below a path. `StageSpec` is the
  same with the calls of a stage, which do skip.
- `UsdStageLoadRules_ancestors` is a violation of `LoadsAncestors`: for a path above a
  loaded one the code looks only at the topmost rules below it, and a rule that says
  none, in between, hides the rule that loads. As a consequence
  `UsdStage::Unload`'s early return may skip a change that is needed.
- `UsdStagePopulationMask`: masks are sorted sequences, since union and intersection
  go over two of them side by side: `UnionFrom` and `IntersectionFrom` are one turn of
  their loops, which says where others go on. Names are numbers in the order of their
  tokens. `MaskIsExact`: the mask stays sorted and free of redundant paths, and every
  query answers for exactly the subtrees wanted.
- `SdfListOp`: `op` is composed from opinions, `effect` is what the opinions do in
  turn to every list. `ComposedInTurn`: the composed op does the same. Lists have no
  item twice, as parser and editors ensure (with explicit items that occur twice,
  `ApplyOperations` of one op over another gives another result than applying both).
  Added and ordered items, which cannot be composed, are left out.

Another divergence is described without a run: `UsdStageLoadRules::Minimize` is to
drop rules "without changing behavior" (`stageLoadRules.h:149`), but of two nested
rules that both say `OnlyRule` it drops the lower one, which loads its path where the
upper does not. The keys of instances are made from minimized rules, so that
instances with different loads can come to share a prototype. The action `Minimize`
therefore starts the history anew.

## 3. Runs, bounds and fairness

| Run | Instance | Result |
|---|---|---|
| `SdfLayerRegistry_safety` | 3 threads, 3 layers, 3 identifiers of 2 assets, saves may fail | 244,267 states |
| `SdfLayerRegistry_unsaved` | 2 threads, 2 layers, 1 asset, saves may fail | violated |
| `TfSpinRWMutex_upgrade` | 2 threads | violated |
| `TfBigRWMutex` | 3 threads, 3 lock states | 233,568 states |
| `HdRenderThread_pause` | the main thread alone | violated |
| `UsdStageRecompose_safety` | 3 roots with a child, an outer and an inner key | 264,868 states |
| `StageContents` | the pool, the prim indexes of 3 layer stacks, 3 roots without children, load rules, masks, list ops | 71,468 states |
| `UsdStageLoadRules_ancestors` | 5 paths to depth 3 | violated |
| `SdfPool_regions` | 2 threads, 2 regions | violated |
| `Synchronization` | the spin lock with 3 threads, the render thread with 4 others, the layer registry with 2 | 55,277 states |
| `SharedState` | nine parts | 623,296 states |
| `SdfChangeManager_stages` | 2 threads, 3 layers, stages of 2 and of 1 of them, listeners of layers and of stages edit | violated |

Instances of the parts of the compositions:

| Part | Instance | States |
|---|---|---|
| `SharedState`: stacks | 3 threads, 3 stacks, 1 identifier, 1 layer | 27,582 |
| tokens | 3 tokens, 2 strings, 2 representations | 16,254 |
| nodes | 2 handles, 2 names, 3 addresses, paths of up to 2 elements | 24,001 |
| notices | 2 threads, 2 deliverers, 1 list, deliveries nested to depth 2 | 445,987 |
| changes | 2 threads, 3 layers, 2 stages, 3 changes | 48,048 |
| python | 3 threads, 1 hold each, 1 Python reference | 41,721 |
| vulkan | 2 threads, 2 buffers, 2 bits, 1 object | 15,032 |
| rename | 2 threads, 2 layers, 3 identifiers | 864 |
| caches | 2 threads, 2 caches, 2 requests of which one satisfies the other | 3,807 |
| `StageContents`: pool | 3 threads, 3 of 4 regions with 3 elements each, spans of 2 | 42,139 |
| index | 3 layer stacks with 2 prims each, 3 references of which 1 is to a child | 10,556 |
| stage | 3 roots without children, 2 of them edited together | 17,434 |
| rules, mask, lists | 5 paths to depth 3; 7 paths; 3 items, lists of up to 2 | the rest |
| `Synchronization`: layers | 2 threads, 2 layers, 3 identifiers of 2 assets | 19,146 |

Why these are enough. A layer object is accounted for by the thread that holds it,
reads it or destroys it, so as many layers as threads suffice; three threads allow one
to open, one to find and one to destroy at the same time, and three identifiers are
two of one asset and one of another. The same holds of layer stacks: one is in the
registry, one lost the race, one is being destroyed. Three tokens let one be copied
while another is destroyed and a third is looked up; three addresses let a path of two
nodes die while its last node is replaced. Three layer stacks let a reference
bring another one, a reference to a child has ancestral opinions, and a prim
with a child has dependencies that are due to its ancestor. Three lock states let a staged acquisition
be behind, at and ahead of a release. A region of three elements and spans of two have
a full span and the short one at the end, so every region sees the lock; three threads
let one create a region while one waits and one allocates. Two bits make ids wrap
around with every second command buffer.

Two instances with children in a batch are enough for either to be the source and for
both to move at once; a third one lets a source go together with another instance
while one stays. `UsdStageRecompose_safety` keeps its size down by `SmallEdit`: two of
the three roots change, or are said to, at the same time only when the third is
absent. `StageContents` has three roots at once, without children.

The counters that the code's own state does not bound are bounded in guards: `MaxUsed`
and `MaxRegions` (pool), `MaxDepth` (paths; deliveries), `MaxChanges` (changes made),
`MaxHolds` and `MaxPyRefs` (references), `MaxBatch` (roots edited at once), `MaxPrototypes`,
`MaxItems` (lists). Counts of readers and of tokens are bounded by the number of
threads and tokens.

Threads, handles, layers and roots are interchangeable where a run declares
symmetry, and no such run checks liveness. Deadlock is not checked where threads may
really stop, or the bounds are used up: after a failed save, between upgraders of the
spin lock, in the tables and queues of `SharedState`, in load rules that no call
changes any more.

Fairness: a thread inside a call is scheduled (weak fairness on its steps), and a
thread that holds a lock releases it. `queuing_rw_mutex` serves waiters in order,
so acquiring it is strongly fair; the spin locks are not queues, and only weak
fairness is assumed there. Threads that reserve a span are scheduled, as are the
composition tasks (`Compose`), which the dispatcher waits for. Nothing obliges a
caller to make a call, a client of the pool to allocate or free, a hydra thread to
start a render, the user to edit, or a condition variable to wake up spuriously.

Each property has a mutant in `PROJECT.json`: a definition that stands for code and
a wrong version of it that makes the run refute the property.

## 4. Proofs

| Theorem | States |
|---|---|
| `SdfLayerRegistry_proofs!TypeCorrect`, `Uniqueness`, `OnlyReadReturned`, `RegistryExact`, `ReadersStable`, `SharingImplemented` | the safety properties, and the refinement of `SharedObjects`, for any threads, layers, identifiers and resolver |
| `SharedTables_proofs!TablesExact`, `SharingImplemented` | `PcpLayerStackRegistry`: the three invariants and the refinement of `SharedObjects`, for any finite set of threads, any stacks, identifiers and layers |
| `SharedTables_proofs!TokensAreExact`, `ImmortalsStay`, `TokensAreShared` | `TfTokenRegistry`: interning and exact counts, the action property, and the refinement of `SharedObjects`, for any strings, representations and finite set of tokens |
| `SharedTables_proofs!NodesExact`, `PathNodesExact`, `NodesAreShared` | `SdfPathNodes`: exact counts, fresh path tokens, and the refinement of `SharedObjects`, for any names and finite sets of handles and nodes, paths of any depth |
| `TfBigRWMutex_proofs!OneOwner`, `Exclusion`, `Refinement` | for any finite set of threads and any number of lock states, with the refinement of `TfRWLock` |
| `Synchronization_proofs!Exclusion`, `ExactState`, `Refinement`, `LockKept` | `TfSpinRWMutex` for any finite set of threads, alone and in the composition, with the refinement of `TfRWLock` |
| `Synchronization_proofs!EditsExcluded`, `StopsRequested` | `HdRenderThread` for any set of hydra threads |
| `SharedState_proofs!GarbageIsSafe` | `HgiVulkanGarbage`: nothing is deleted in use, for any threads, buffers, objects and number of bits |
| `SharedState_proofs!LayersAreFound` | `SdfLayerRename`: layers stay registered, for any threads, layers, identifiers and resolver |
| `SharedState_proofs!StagesAreCreatedOnce`, `NoWakeupIsLost` | `UsdStageCache`: a stage is created once and who waits is served, for any threads, caches and requests |
| `SharedState_proofs!NoChangeIgnored` | `SdfChangeManager`: every stage has processed the changes of its layers once their editor is outside of blocks and rounds, for any threads, layers and stages |
| `SharedState_proofs!PythonObjectsAreKept` | `TfPyOwnership`: the count is that of the references, and the Python object is kept as long as it must be, for any finite set of threads and any bounds |
| `SharedState_proofs!NothingIsFreedInUse`, `NoticesAreDeliveredOnce` | `TfNoticeRegistry`: both properties, for any lists and finite sets of threads and deliverers, and stacks of calls of any depth |
| `SharedState_proofs!SharedTablesExact`, `ObjectsShared` | the composition: the invariants of all its parts, and both refinements of `SharedObjects` |
| `StageData_proofs!TypeCorrect`, `ElementsHaveOneOwner`, `NoElementIsLost`, `ElementsHaveStorage`, `GrowthIsBounded` | `SdfPool`, for any finite set of threads and any sizes |
| `UsdStageRecompose_proofs!CacheIsConsistent`, `CacheIsExact` | `UsdInstanceCache` under `UsdStageRecompose`: `CacheConsistent` and `InstancesAreExact`, for any root prims, names and keys, and any number of prototypes |
| `UsdStageRecompose_proofs!StageIsRecomposed` | `RecomposedFully`: a stage at rest has the prims that one composed anew would have, each on a valid index, for the same constants |
| `StageContents_proofs!RulesAreAsAsked` | `UsdStageLoadRules`: what is loaded is what was asked for, for any set of paths with their parents |
| `StageContents_proofs!MaskStaysExact` | `UsdStagePopulationMask`: `MaskIsExact`, for any finite set of paths with their parents |
| `StageContents_proofs!ComposesInTurn` | `SdfListOp`: a composed op does what its opinions do in turn, for any finite set of items |

All assumptions are the named ones of the modules (`PoolAssumption` and the like),
which TLC evaluates on every run. In a module that a composition instantiates they are
definitions, and the composition assumes them of its instances (`SyncAssumptions`,
`SharedAssumptions`, `DataAssumptions`, `ContentsAssumptions`). Some theorems state more:

- `MaxRegions < NumRegions` (the pool): a region is left to go to. Without it the run
  `SdfPool_regions` shows what happens.
- `Racing \subseteq {"erase"}` (the stage cache): nobody clears, assigns or swaps a
  cache while requests on it run. The model shows that the operations which this
  excludes break the promise (section 2).
- `EditPhases \subseteq {"layer"}` (the change manager): what a listener edits while
  changes are delivered, it edits when the notice of a single layer arrives. With
  edits in the two notices of a whole round the promise is broken, which
  `SdfChangeManager_stages` shows.
- The composition instantiates `TfPyOwnership` with `FlagRaces <- FALSE`: nobody sets the
  listener while another thread counts (section 2 says what happens otherwise).
- `PathNodeAssumption`, `TokenAssumption`, `RecomposeAssumption`: the modules' own, where
  the theorem is about the module and not about a composition. The last says that
  names, keys and the marks for nothing are different things, and that no root prim
  has the name of a prototype: those are reserved (`__Prototype_1`).

The bounds of the model (`MaxUsed`, `MaxDepth`, `MaxItems`, ...) are constants of the
theorems, so a theorem holds for every bound.

Everything is an inductive invariant, most called `IInv`, with one lemma per action.
TLC checks the invariants of the layer stacks, the tokens, the path nodes, the
notices, the change manager, Python ownership, the garbage collection, the renaming, the stage cache
(`TablesAreExact`) and the render thread
(`EditsExcludeRendering`) as part of a run; of the others it checks the conjuncts that
are properties.

- `SdfLayerRegistry`. `UniqueLayer` alone is not inductive: `Construct` inserts a
  layer on the strength of a lookup that is over. `IInv` adds the shape of a call
  (which of a thread's variables are set at which label), the lock (who reads, who
  writes, and that they exclude each other) and `LookupStands`, which carries
  the lookup's result to the insertion. The refinement maps a step to
  `SharedObjects`' joining, leaving or creating, or to a stutter, and uses the same
  invariant.
- `PcpLayerStackRegistry`. A stack in the registry is counted exactly (`Counted`);
  whoever creates or destroys a stack is alone with it (`CreatedAlone`); what is not
  linked, or about to be freed, no map names. So a stack that a thread finds and
  counts is not one whose destruction began, and the removal of a dying stack meets
  no entry of another.
- `TfTokenRegistry`. A representation is erased by a thread that has the lock and
  finds a count of one. `CountsCover` makes that count its own, and then no token can
  be left: one that believes would be counted, one that does not believe would make
  the representation immortal (`BeliefsAreSafe`), and one that is still copying has a
  source that is counted (`SourcesHold`).
- `SdfPathNodes`. `NothingDangles` and `CountIsExact` need what is known of a node
  that is dying: it has no handle and no child that has not released it
  (`LiveIsUsed`), and it is in the table only until its own thread has looked, and
  then with a count of zero (`DyingIsOut`). So whoever finds a node with a count
  finds one that lives. `PathsAreKept` is for the table of path tokens: the names
  from a node to the root stand until the children have released it, hence the path
  that a dying node removes from the table is the one it was entered with. The
  refinement shows that two live nodes of one key would be two entries of the table.
- `TfSpinRWMutex`. `StateIsExact` is the strengthening: the count is the
  number of threads at the labels `Counted`, the flag has exactly one owner. A
  writer that saw the count at zero is alone since whoever counts later sees the
  flag. The refinement needs it to show that a writer enters when nobody reads.
- `TfBigRWMutex`. `FlagsHaveOneOwner` and `Excluded` are the strengthening: a flag
  is owned according to how far its owner's acquisition or release has got
  (`Flagged(t, i)`), so a release never meets a flag of the next writer, and a
  lock state acquired has no reader. `MutualExclusion` follows, and with it the
  refinement: of all the steps of a staged acquisition and of a release, one each is
  seen by the lock's clients.
- `HdRenderThread`. The mutex alone does not keep edits and the callback apart, since
  `StopRender` does not take it when `IsRendering` says no. `RenderIsKnown` says that
  the answer is right and stays right until the edit ends, `MainExcludesStops` that
  a start excludes every other call, `StopsArePending` that a request to stop has a
  caller who waits.
- `HgiVulkanGarbage`. `NotDeletedInUse` needs that every buffer in flight has its bit,
  and no two the same (`BitsAreExact`), that a resource bound to a buffer keeps it in
  its stamp once it is garbage (`GarbageWaits`), and what a thread has between its
  steps (`BuffersAreOwned`, `ResourceIsRecorded`).
- `SdfLayerRename`. The entry of a layer may be of the old identifier while the layer
  has the new one, but only between the two steps of its own renamer
  (`TablesFollow`); nobody else renames it (`RenamesAreApart`), and while a renamer has
  found nothing under the lock no layer's real path is the one it goes to
  (`RealPathsAreApart`).
- `UsdStageCache`. That a stage is made once is a count, `MadeOnce`: makers of a request
  and stages in the cache together are at most one. It rests on
  `PendingRequestsRun`: the list of pending requests is that of the threads that make
  stages, each once, so whoever finds none becomes the only one.
  `SubscribersWait` and `SubscribedOnce` are about mailboxes: subscribed exactly
  while the request runs that will deliver to them.
- `SdfChangeManager`. That a stage has processed a change is not known before the
  change is somewhere on its way. `NoChangeIsLost` follows each one: it is in a list of
  its editor's block, or in a round of the editor's that will still tell the stage
  (`Holds`, `WillTell`), or the stage has it. A stage ignores a round that is not
  newer than what it has seen, so the order of serials matters: only the innermost
  round of a thread has stages to tell, the others deliver the notice of a single layer
  (`RoundsNest`), so no stage knows a round younger than the one it is told of, and has
  the round's changes if it knows that one (`SerialsInOrder`). Edits in the notices of
  a whole round would break this. The lists that a delivery takes from others are
  filters; `FilterExists` and `FilterKeepsOrder` say by induction that a filter has
  the good elements in their order.
- `TfNoticeRegistry`. A thread's state is a stack of calls in calls. `CallsNest` says
  that only the innermost of them does anything but run a listener, and what a frame
  knows is said of each frame alone (`FrameIsSound`), wherever it is. A walk is at a
  place of its list (`IsAt`): it has called nobody from there on, all that it may call
  there are due, and all that it must call and has not are there. Prepending moves the
  place, revoking and burying only take from those it must call. Freeing is
  safe since the user count is the number of frames that may have an iterator
  (`UsersAreCounted`, a cardinality), so when it says that nobody else walks, the frames
  left hold no iterator: they are about to return a key, whose deliverer is alive and no
  dead entry, or they revoke, and may find theirs freed if it is dying (`Dying`). `FreeKeeps` says of the lists
  after a freeing that they hold the others in their order, by the lemmas on filters
  in `SharedTables_proofs`.
- `TfPyOwnership`. `CountIsExact` is about the number of references, a cardinality that
  every step changes by one at most (`NumRefsStep`). `PythonIsKept` says what keeps the
  Python object in each state of the C++ one: who owns, whether it is listened
  to, and which thread is about to tell it that the count has become one or two. The
  reads without a lock are sound since whoever counts has read the flag as it is
  (`FlagIsCurrent`), and whoever tells has Python's lock (`LockIsHeld`).
- `SdfPool`. `Control` says that the state is locked exactly while one thread
  creates a region, that other states are open ones (aligned, not at the end),
  what a thread that reserves has (no free list, no span), and which regions have
  storage. `ReserveIs` and `FirstStateIs` are the arithmetic of states. With
  `Control`, `OneOwner` and `NothingLost` are inductive together: that everything
  owned is behind the state shows that what a thread reserves is nobody's. Actions
  fall into taking an element of one's own (`TakeLocal`), leaving all where it is
  (`StayWhereTheyAre`) and taking what nobody had (`TakeNew`). `HaveStorage`
  follows from the invariant. `GrowthBounded` does not: others may share a list while
  a thread is on its way to reserve. `Growth` counts the spans of all that are on
  their way (`SpansAreCounted`). When one starts, nobody shares anything, so what is
  reserved is in use or in lists and spans of other threads, which are small
  (`LocalIsSmall`; `UnionIsSmall`, by induction on the size of a set).
- `UsdStageRecompose`. That the cache is consistent is not inductive by itself: what
  is registered and unregistered must be known to fit it. `PendingIsCurrent` says that
  what is pending is about the scene as it is, `ChangedIsUnregistered` that an
  instance which is no longer one is unregistered. `Coming` are the instances there
  will be: those kept and those registered; `Processed` shows that after
  `ProcessChanges` they are the instances, whatever fresh prototypes and new sources it
  picks. For `InstancesAreExact` the order of the tasks matters. `Opens(p)` says
  that `p` is the source, or will be: the first one registered under a new key.
  A task goes on below an instance exactly if it opens (`RegisterFacts`), which needs
  that no root prim is visited twice in a round (`TodoIsNew`); so nothing is
  composed below one that does not open (`NestedIsOpen`), and nothing that can be seen
  is missed (`InstancesAreFound`), also where a change below an instance is ignored
  (`UsesAreKnown`: it is ignored only if the instance above is no source).
  `RecomposedFully` holds only at rest; during a change `RInv` says which prims are
  already as they will be. `StageIsKept`: a path that is in no subtree to be composed, is
  no use of a changed instance by a prototype and is in no new or changed prototype has
  the prim that composition would give it now. `ChangesAreCurrent` says
  what the cache's records mean in the first round and after it: only the first one
  removes instances, so a later round can add paths and never unsettle one.
  `IndexesAreFound` has an index for each prim that composition will ask for, and
  `StageIsATree` a parent for each prim. The last step, `RefreshParents` and
  what follows, is in three parts: which affected paths are left to compose, that of
  these at most one is above any prim (so none is composed twice or
  from a parent that is about to go), and that composing a subtree gives what composing
  the whole stage gives there.
- `UsdStageLoadRules`. `asked` is what the rules say of every path (`Said`), after
  each call. That `Replaced`, applied for whole batches, says what the calls said is
  `AddedSays` and its neighbours: of the rules above a path the longest decides, and
  paths above a path are comparable. `IsLoaded` of the code, which looks for rules
  above and below, is then what `Said` says.
- `UsdStagePopulationMask`. `MaskIsKept`: the mask is a sorted vector of paths apart from
  each other, and `wanted` is its `Cover`, all that is below a path of it. `Before(p, q)`
  says that names decide between `p` and `q` and not that one is above the other; what
  is below such paths is in the same order, which is why one comparison lets the
  merging pass over a path (`MaskPathsAreOrdered`). `UnionStep` and `IntersectionStep`
  say of one turn of a loop what it appends and that this comes before all that is
  still to come; `RecursionExists` makes of turns that go forward the recursive
  function, by induction on what is left; so `UnionIs` and `IntersectionIs`: what
  results is a mask again, with the union and the intersection of the covers. A mask is
  determined by its cover (`MasksAreUnique`), therefore comparing masks is comparing
  what they include, and normalization finds the one there is (`SortedExists`, by
  induction on the number of paths). `LowerBoundIs` and its followers are the queries:
  only the neighbours of a path's place in the vector can be above it or below it.
- `SdfListOp`. Every operation is a fold over a sequence. Folds of the library are
  recursive functions; `Follows` and `FoldIs` turn each into its equations, by
  induction on the length of the list. From these come the closed form of an operation,
  `Placed(D, P, A, l)`: what is prepended and not appended, then what is left of
  the list, then what is appended; and `PlacedTwice`, that two placements in turn
  are one, which is what `ApplyOver` computes.

The library's induction theorems take an operator as a parameter, which the provers
cannot instantiate. Induction over numbers is therefore a lemma about sets, from the
least element of a well-founded order (`Induction` in `StageData_proofs`; likewise
in the other modules): a set of numbers that has 0 and with every number the next one
has all. With it, lemmas about cardinalities, recursive functions and folds are in
reach.

Only model-checked:

- every liveness property, which is out of the prover's reach;
- `IndexesAreCurrent`, about indexes that recursive functions of sites compose and bags
  of dependencies that folds over sets of nodes change;
- the violations.

## 5. Plan

What is left, in the order of importance:

1. `PcpCache` extended by sublayers, payloads and inherits, whose dependencies
   come from implied arcs; `UsdStageRecompose` on top; `PcpMapFunction` against
   pointwise composition.
2. `HdChangeTracker`: dirty bits and versions against what a sync consumed.
3. `SdfLayerRegistry` extended by muting, `Reload` and anonymous layers; the
   composition of `SdfLayerRename` with it.
4. Blocks and probes of `TfNoticeRegistry`; polymorphic identities of
   `TfPyOwnership`.

Theorems to come: `IndexesAreCurrent` of the prim indexes.

## 6. Not modelled

Serialization and parsing (`sdf` text files, `usdc`, `js`, `pegtl`), linear algebra
and floating point (`gf`), operating system wrappers (`arch`), resolver plugins and
plugin discovery (`ar`, `plug`), registries that are filled once (`kind`, `ndr`,
`sdr`, `TfType`), generated schema code, and everything that programs a graphics
device (`hgi*` other than the garbage collection, `hdSt`, `hdx`) or is an
application (`usdview`, `bin`): they have no protocol among several actors, or its
other side is not in the repository. `PcpPrimIndex` composition is a large pure
algorithm: `PcpCache` has references, ancestral opinions and culling of it, and
`UsdStageRecompose` the status of prims only. The change tracker of `hd` has no protocol
among threads and is in the plan. `work`,
`trace` and `vt` rest on TBB, which is not in the repository. Memory orders are taken to be
sequentially consistent, which the atomic operations of the modelled classes are
by default; where the code asks for less (the relaxed loads of `Sdf_Pool`), the
value is confirmed by an exchange before it is used. Vendored code and build
scripts are not part of the program.
