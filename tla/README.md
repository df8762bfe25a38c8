# A verification of cgc1

cgc1 is a conservative mark-and-sweep garbage collector for C++: it stops all
registered threads with a signal, marks what their stacks and the roots reach,
sweeps, resumes the threads, and finalizes beside the running program. This
directory holds TLA+ models of that collector, the TLC configurations that check
them, and proofs for TLAPS. Paths below are relative to `src/cgc1/src/` unless
they start with `src/`.

## The system

| Component | State it keeps | Operations | What it talks to |
| --- | --- | --- | --- |
| **Global kernel** (`global_kernel_state.*`) | registered threads, five groups of mutexes, `m_collect`, `m_collect_finished`, the counters of paused and resumed threads, the enable count | `force_collect`, `collect`, `wait_for_collection`, `wait_for_collection2`, `wait_for_finalization`, registration, the signal handler's body | signals the threads, commands the gc thread, locks the allocators |
| **GC thread** (`gc_thread.*`) | eight phase flags, `m_run`, five condition variables, its lists | the loop `_run`, `start_*`, `wait_until_*`, `reset`, `shutdown` | commanded by the kernel, calls back to hand over finalized objects |
| **Mark phase** (`gc_thread.cpp` 204-359) | mark bits, `m_addresses_to_mark`, the recursion | clear, mark from stacks and roots, work off the deferred addresses | reads the heap while the world stands still |
| **Sparse sweep and finalization** (`gc_thread.cpp` 360-444, `sparse_finalization.hpp`) | the record of each object, `m_to_be_freed`, the list for the user threads, the list of freed objects | `_sweep`, `_finalize`, `local_thread_finalization` | gc thread, user threads and program, side by side |
| **Bitmap finalization** (`bitmap_finalization.cpp`) | mark, free and finalizer bits per block | `finalize` of a block | runs in the collector while the world stands still |
| **Roots and handles** (`root_collection.hpp`, `cgc_root.hpp`) | the addresses of the roots | add, remove, has; handles that do so | public API; read by the mark phase |
| **Thread-local state** (`thread_local_kernel_state*`) | stack bounds, recorded stack pointer, thread allocators | scan a stack, set the in-signal flag | kernel, mark phase |
| **Public API** (`kernel.cpp`) | the pointer to the kernel | `cgc_*` | everything |
| **Signals** (`posix.cpp`) | the table of handlers | deliver SIGUSR1 to a thread | kernel |
| **Object flags and records** (`gc_allocator*`, `gc_user_data*`) | mark, atomic and complex flags; default or own record | set and test | mark phase, sweep, API |
| **Kernel life** (`kernel.cpp` 15-35, 171-192, 259-263; `allocated_thread*`) | `g_gks`, the `unique_ptr` that owns the kernel, the kernel `_real_gks` saw last, the gc thread and the details of its start | construct, initialize, start the gc thread, `cgc_shutdown`, destroy | public API, static destructors |
| **Internal allocators, parameters, property trees, C headers** | | | helpers |

The allocators are those of `mcppalloc`, the locks those of `mcpputil`. Both are
submodules whose sources are not in the repository: they are modelled from how
this code uses them, and every such assumption is named below.

### Hard behaviours and the properties that answer them

* **Stopping the world.** The collector counts handlers with a counter that is
  reset while threads of the last stop may still be leaving; it releases
  `m_mutex` in the middle (`global_kernel_state.cpp` 610-623); allocator locks
  must be given back before a stopped thread enters a condition wait that may
  allocate; and it can be signalled between two locks of its own. Correct when:
  nobody runs while the gc thread works (`WorldStopped`), a stopped thread holds
  no lock the collector needs (it does in two windows, which
  `SuspendedHoldsAtMostMutex` names; `GateProtectsAllocators`), nothing overlaps
  (`BothMutexesExcludeCollection`), a gc thread told to finalize early gives
  nothing back before the world runs again (`DestroyAfterResume`), the whole
  follows one protocol, with the set of threads frozen (`StopsTheWorld`), and
  everybody gets going again. The last is not so: the kernel can come to a halt
  in two ways, and `NeverStuck`, `CallsReturnOrHalt` and `StoppedThreadsResume`
  say that there is no third. Proved beside these: stack pointers are of this
  stop (`StacksRecorded`), the reset finds the threads and the gc thread settled
  (`SettledBeforeReset`, `ResetOnlyWhenIdle`), only members collect
  (`CollectorIsRegistered`), the threads in `m_threads` stay (`ThreadsFrozen`).
* **Commanding the gc thread.** Some commands set their flag and notify without
  the mutex the thread waits under. Correct when no wakeup is lost
  (`NoWakeupLost`), the phases come in order, each commanded, waited for and
  followed by a reset of an idle thread (`PhasesInOrder`), and all waits end
  (`CollectorReturns`, `FinalizationFinishes`).
* **Marking with bounded recursion.** An address that is put off too deep must
  not be forgotten or dropped, with cycles, two allocators and two limits
  (`NothingForgotten`, `MarksExactlyReachable`, `RecursionBounded`,
  `MarkingEnds`).
* **Finalizing bitmap objects.** One loop over bitmaps computed before it, with
  exceptions and aborts in the middle, over slots whose bits outlive their
  occupant and which nothing zeroes on allocation (`HeldIntact`, `SweptIsZero`,
  `AbortsInstead`, `ImplementsObjectLife` of `BitmapReclaim`).
* **Reclaiming beside the program.** Objects are finalized by two kinds of
  threads and destroyed in bulk while the program allocates again, and a
  finalizer may throw. Correct when nothing is destroyed under its user
  (`HeldInUse`) and a finalizer runs once, in time. Neither is so for a slot that
  is allocated again while its finalizer has still to run, nor the second for a
  list that is given up to an exception; `HeldSurvive`, `UncollectableKept` and
  `ImplementsObjectLife` say that these are all.
* **Stacks.** A thread is stopped wherever the signal finds it, inside a call on
  a handle too, and scanned from the pointer it records then. Correct when each
  record covers the whole stack (`StacksCovered`) and nothing a stack points to is
  taken (`StackedIsKept`). That what a root points to is kept would be the other
  half (`RootedSurvive`); it fails.
* **Kernels that come and go.** A first call constructs, a shutdown forgets but
  does not destroy, the next construction destroys the kernel before; the gc
  thread uses its kernel to its end, memory goes back through a remembered
  pointer, two destructors and the shutdown all want to join one thread, and a
  start may fail half-way (`KernelUsable`, `GcThreadInItsKernel`,
  `InternalMemoryHome`, `JoinedOnce`, `DetailsFreedOnce`, `MembersHaveGcThread`).

`PROJECT.json` lists every hazard at its line, including those that no property
covers yet, with the reason.

## Modules

### GlobalKernel, GlobalKernelInv, StopTheWorld

`GlobalKernel` has one action per step between two points where another thread
can interfere: `pc[t]` is where thread `t` is in a call to the kernel, `hpc[t]`
where it is in the signal handler, `pending` the undelivered signals. A thread in
the handler takes no step of its call (`Step` demands `hpc[t] = "none"`), and a
signal is delivered at any point, locks held or not. `owner` maps each lock to its
holder; `"heap"` and `"internal"` each stand for two mutexes that the code always
takes and gives back together. `Calls` says what a thread may call by the state
of its `t_tlks` (null, live, dangling), so one model serves a program that keeps
the rules and one that does not.

| Code | Actions |
| --- | --- |
| `force_collect` 345-463 | `CallForceCollect` (checks, exchange), `FcSpin` (the losers), `Wc2*`/`Wf*` (its wait for the finalization), `FcLock`, `FcRest`, `FcBackOff` (line 372), `FcSettle` .. `FcUnlock` |
| `_u_suspend_threads` 588-626 | `SuspendThreads`, `FcCount`, `FcRelock` |
| `_collect_current_thread` 631-661 | `DeliverSignal`, `HandlerCount`, `HandlerGate`, `HandlerLock`, `HandlerWait`, `HandlerResume`, `HandlerReturn` |
| `wait_for_collection2` 492-503 | `Wc2Lock`, `Wc2Second`, `Wc2BackOff`, `Wc2Check`; `cont` says for whom |
| `initialize_current_thread`, `destroy_current_thread` 504-564 | `CallRegister`, `InitializeCurrentThread`, `CallUnregister`, `DestroyCurrentThread` |
| `wait_for_finalization`, `local_thread_finalization` 300-328 | `WfUnlock`, `WfWait`, `WfWaitOnly`, `WfTake`, `WfAdd`, `WfThrow` |
| the gc thread as the kernel sees it | `StartClear` .. `NotifyAllThreadsResumed`, `GcClear` .. `GcDestroy` |

`m_num_paused_threads` and `m_num_resumed_threads` have no initialiser, so they
start with either value.

The double lock of `mcpputil` (line 495) and the `lock` of 372 lock
`m_mutex` first, and then try the others: when one is taken, `m_mutex` is given
back and the thread begins again (assumed of `double_lock_t` and `lock`, whose
sources are not here; `::std::lock` does so). A registered thread can be signalled in
between (`wc2_second`), and then stands in its handler with `m_mutex`. Between
`FcRest`'s several locks no signal can come: its thread has won the exchange on
`m_collect`, and only a collector signals.

A restricted finalizer that throws (`sparse_finalization.hpp` 17) ends the call
it runs in (`WfThrow`): the guard of `m_thread_mutex` is unwound, `m_collect` is
left as it is. `Abandoned` is the state after that, `HeldBehindHandler` the one
in which a stopped thread has `m_mutex`.

`GlobalKernelInv` has the invariants behind the proofs, and says who can take a
step. `StopTheWorld` is the abstract
protocol: members join and leave between collections, a collector halts the
others one by one, goes through its phases only when all are halted, and lets
them resume. `StopsTheWorld` is the refinement.

### GcThread, PhaseBarrier

`GcThread` opens up what `GlobalKernel` shows as one variable: `do[p]` and
`done[p]` are the two flags of phase `p`, `gpc`/`gphase` the gc thread,
`cpc`/`cphase` the collector, `spc` the thread that shuts down. Test of a flag,
enrolling as a waiter (which gives up the mutex), sleeping and taking the mutex
again are separate steps, as in a condition wait with a predicate; setting a
flag (`CCommand`) and notifying (`CNotify`) are separate too. `PhaseBarrier` is
the chain of phases it implements. `spurious` never changes: it says whether
condition variables may wake without a notification, so one run checks both.

### MarkPhase

The recursion is the sequence `stack`; a frame holds an object and the words not
yet looked at. `MarkAddr` has the four outcomes of the code: skip (no address of
the heap, not in use, marked), mark an atomic object, mark and recurse, defer.
The depth of a word is the length of `stack` (`ChildDepth`). The depth test
differs for the two allocators (`Defers`): the bitmap one comes first and looks
at nothing but the depth, the sparse one comes last, for an object in use that is
neither marked nor atomic. `_is_bitmap_addr_markable` does not ask whether the
slot is in use, so a stale address of a free bitmap slot is marked and what the
slot still holds is scanned; a freed sparse object is skipped (`Markable`).
"Reachable" includes what such a slot holds: the collector keeps that as
well. Words are looked at in any order.

### Reclaim, ObjectLife

An object is the slot it occupies. Marking and sweeping are the step `Collect`,
since `GlobalKernel` shows that the world stands still for both and `MarkPhase`
that marking ends with exactly what is reachable; `held` is that reachable set.
After it the gc thread (`Finalize`, `AddFreed`, `AddNeedSpecial`, `BulkDestroy`),
a user thread in `local_thread_finalization` (`TakeSpecial` .. `LocalAddFreed`)
and the program (`Allocate`, `Drop`, `Free`, `RegisterFinalizer`,
`SetUncollectable`, `AddRoot`, `RemoveRoot`) interleave. `user_data` is the
record of each slot. The gc thread's loops take the objects in any order, where
the code takes the order of addresses. `ObjectLife` is the promise: free, live,
condemned, finalized, free again, and a finalizer runs once, after the object is
lost and before its slot is used again.

The sparse allocator fails that promise in two ways, and `SparseSpec` of
`ObjectLife` has an action for each. `Reuse`: `bulk_destroy_memory`
(`gc_thread.cpp` 443) makes the slots of objects allocatable that a user thread
has still to finalize; nothing keeps `Allocate` from taking one, and what is done
on the list is then done to the new object. `reused` remembers those slots, and
nothing more is claimed of them. (The lists are sets: that the address of a reused
slot can come to be on a list twice is within that exception.) `Abandon`: a
restricted finalizer that throws leaves `local_thread_finalization`
(`LocalThrow`), and the rest of the list it had taken is lost; `abandoned`
remembers those objects until their slots are allocated again. In the gc thread
an exception ends the program (`Terminate`, after which nothing moves).
After `LocalThrow` the model goes on collecting, as the code does when the thrower
was in `cgc_wait_finalization`; that a throwing `force_collect` blocks the later
ones is `WfThrow` of `GlobalKernel`.

Assumptions about code outside the repository: `bulk_destroy_memory` makes the
slots allocatable and empties the vector it is given (nothing here ever clears
`m_to_be_freed`, so otherwise every collection would destroy all earlier ones'
objects again).

### BitmapReclaim

The bitmap allocator serves the small sizes. `Blocks` divides the slots; the
blocks of `Typed` are those of type 2, whose objects carry user data. A
collection is the chain `Collect` (mark), then for each block `TakeBlock` (the
two local bitmaps), `Finalize` once per object of the second one, `ZeroRest`,
`FreeUnmarked`. `Abort` and `Throw` are the two ways `finalize` terminates the
program; an exception derived from `std::exception` is caught and the loop goes
on, which is why the return of a finalizer is one case with it. The program
(`Allocate`, `Drop`, `Free`, `RegisterFinalizer`, `SetAbortOnCollect`) runs only
between collections: finalization here is the collector's, with the world
stopped. The user bits of a slot survive its occupant, only the user data are
reset on allocation; a bit without a finalizer leads to the call of an empty
`std::function`, whose exception is caught. The module refines `ObjectLife` too,
so both allocators are held to one promise.

Assumptions about code outside the repository: `or_with_to_be_freed` yields the
allocated unmarked slots, `free_unmarked` frees the unmarked ones, `deallocate`
may or may not zero the memory and clear the user bits.

### RootScan

`stack[t]` holds the pointers on a thread's stack, `m_stack_ptr[t]` how many of
them the recorded stack pointer covers, and `holds[v]` the word in a variable. A
collection stops the registered threads wherever they are, and the gc thread
scans one stack after the other while threads that are not registered go on.

`root_collection()` returns a copy (`global_kernel_state_impl.hpp` 61-68), so a
call on it (`cgc_add_root`, the handles, the ranges) makes a copy, waits for the
collection lock (`wait_for_collection`), changes the copy and destroys it. The
kernel's own collection stays empty and there is nothing of it for the gc thread
to read: the module has no variable for it. What is left of such a call is what
the handle does before it (`Construct`, `Clear`, `Destroy`, ...), the wait, and what the
handle does after it (`AddRootReturns`, `RemoveRootReturns`, `RangeReturns`); a
thread can be stopped in between. What the program loses by the copy is the run
`reclaim_roots`.

| Code | Actions |
| --- | --- |
| `cgc_root.hpp` 9-39 | `Construct`, `Destroy`, `Move`, `Clear`, `AddRootReturns`, `RemoveRootReturns` |
| `cgc_root_pointer.hpp` | `ConstructPointer`, `DestroyPointer`, `Load`, `Store` |
| `root_collection.hpp` | `AddRange`, `RemoveRange`, the returns above |
| `set_stack_ptr`, `scan_stack` | `Stop`, `AllStopped`, `HandleThread` |
| `_u_setup_gc_threads`, the sweep | `SetupGcThreads`, `Finish` |

Two handles may name one variable, and a handle may be moved onto another that
still has its own. Pointers are handled by registered threads only. A variable
keeps its word when the object is collected, so a pointer fetched
from it may be to an object that is gone: `StackedIsKept` speaks of the allocated
ones. A default-constructed `cgc_root_pointer_t` leaves its word uninitialized:
`Unset`.

### KernelLife

Kernels are model values, in states none, constructed, ready and dead. `pc` says
where a thread is in a call; `mine` is the kernel it is making or destroying.
`gc`, `m_run`, `joins` and `details` belong to the gc thread of each kernel.

| Code | Actions |
| --- | --- |
| `check_initialized` (`kernel.cpp` 20-34) | `CheckInitialized`, `Construct`, `Assign`, `Publish`, `Initialize` |
| `initialize_current_thread`, `_u_initialize` | `Register`, `UInitialize`, `Push` |
| `allocated_thread_timpl.hpp` | `Start`, `StartFails`, `GcRunReturns`, `GcDestroyThread`, `GcExit` |
| `cgc_shutdown`, `shutdown` | `CallShutdown`, `SLock`, `SStop`, `SJoin`, `SForget` |
| `~global_kernel_state_t`, `~gc_thread_t` | `Exit`, `DStop`, `DJoin`, `DClear`, `DRelease` |
| `_real_gks` (`global_kernel_state.cpp` 38-46) | `RealGks`, `Remember` |

`Orderly` is the rule that construction, shutdown and exit overlap no other call;
nothing in the code enforces it, and with `Orderly = FALSE` TLC violates
`KernelUsable`: a second call finds `g_gks` set between `Publish` and `Initialize`,
and registers with a kernel that is not initialized. What a shutdown may overlap in the gc thread itself
is in `GcThread`. `m_initialized` is set last in `_u_initialize`, so after a failed
start the next registration also initializes the heap a second time (line 576);
what that does to the first one is up to the allocators, and not modelled.
Installing the signal handler again (574) changes nothing.

## Runs

| Run | Shows | Bounds |
| --- | --- | --- |
| `kernel_safety` | the safety properties of the kernel, that it comes to a halt in two ways only, and that it implements `StopTheWorld` | 3 threads (symmetric), 2 collections |
| `kernel_liveness` | every call returns and every stopped thread resumes, but for the two halts | 2 threads, 2 collections |
| `gc_thread` | no wakeup is lost, phases come in order, all waits end; with and without spurious wakeups, with a shutdown at any moment | any number of collections |
| `mark_phase` | marking ends with exactly what is reachable, free bitmap slots included | 6 objects, all small heaps, limits 0 and 1 |
| `reclaim` | held objects survive, finalizers run once and in time, but for slots reused too early and lists given up to an exception | 2 slots (symmetric), any number of collections |
| `bitmap_reclaim` | held objects stay intact, freed slots are zero, aborts come first, finalizers run once | 3 slots in 2 blocks, any number of collections |
| `root_scan` | records cover the stacks, and nothing a stack points to is taken, beside handles that come and go | 2 threads, 1 variable, 2 handles, 2 objects (all symmetric), 1 word per stack, any number of collections |
| `kernel_life` | calls find a kernel, gc threads and memory their own, joins and releases happen once | 3 threads, 3 kernels (symmetric) |
| `kernel_waiting` | *violation*: waiting for the collection in a registered thread can stop the collector for good | 2 threads, 1 collection |
| `gc_thread_shutdown` | *violation*: a shutdown at the wrong moment never returns | |
| `reclaim_special` | *violation*: a late restricted finalization destroys a new, reachable object | 2 slots |
| `reclaim_roots` | *violation*: an object only a root refers to is collected | 2 slots |

Why the bounds are enough. Three threads give the collector, a thread that is
stopped and one that registers, leaves, waits or wants to collect too. Two
collections are the least with a counter left over and a straggler of the first
stop in its handler at the second; the bound sits in `WithinBound`, a guard on
starting a collection, and the theorems hold without it being small. The mark
limits of 0 and 1 make both allocators defer with only six objects; heaps have
cycles, self loops, words that are no addresses, an atomic and a freed sparse
object with words that must not count, a free bitmap slot whose old word does
count, and all or none of the objects marked before.
In `reclaim` two slots let one be finalized by the gc thread while the other waits for a user
thread, and let one be reused, or given up to an exception, beside another on the
same list; the proofs cover any number. In `bitmap_reclaim` one block has two
objects with user data, so one can be finalized, or throw or abort, before, after
or without the other, and the other block has one object without. In `root_scan`
two threads give a collector and one that is stopped, or not registered and busy
with a handle; two handles give a move, a move onto a handle in use, and two
handles on one variable. In `kernel_life` three kernels give one that was shut
down, one constructed in its place, whose assignment destroys the first, and a
third after that; three threads give a member, one that has left and one that
shuts down. A call that is not enabled in a run
is disabled by `Calls`: `kernel_safety` makes every call of the API under one
rule: a thread that has unregistered only waits. Breaking it lets a thread that is
no member collect, because `destroy_current_thread` (557) leaves `t_tlks` dangling
and the check at 347 passes; that breaks `StopsTheWorld`, whose collections are
begun by members. In `kernel_liveness` threads register, wait for collections,
ask for them and change the enabled count; `kernel_waiting` has the same without
the last.

`CHECK_DEADLOCK FALSE` is set where the system really stops: after a shutdown,
when marking is over, after `std::terminate` (both reclaim models), in a kernel
that has come to a halt (`kernel_safety`, where `NeverStuck` takes the place of the
deadlock check, and `kernel_liveness`), and in violation runs that look for
something else.

### Fairness

Strong fairness for the steps of a thread in the kernel, of the gc thread and
for a handler's lock: these steps wait for mutexes that others take again and
again, and strong fairness says that a thread that keeps finding a mutex free
gets it in the end. The second lock of a double lock has its own (`Wc2Second` or
`FcRest`), or the thread could back off for ever. Weak fairness for the other handler steps (the signal is
delivered, the handler's code runs). No fairness for calls: a program need not
call anything. In `GcThread` nothing obliges a condition variable to wake anyone
unasked.

`NoWakeupLost` and the liveness properties of `GcThread` are stated for executions
without spurious wakeups, the liveness ones also without a shutdown that hangs.
With such wakeups they fail: `start_mark`, `start_sweep` and `notify_all_threads_resumed` set
their flag and notify without `m_mutex` (`gc_thread.cpp` 153-176), so a gc thread
that woke for no reason and has just tested the flag misses the notification.
`TypeOK` and `PhasesInOrder` hold with spurious wakeups too.

### Disagreements with the documentation

Four findings are listed in `PROJECT.json`, each with the run that shows it.

1. `wait_for_collection` holds `m_mutex` alone; a registered thread stopped there
   keeps it from the collector. The same happens in `wait_for_collection2`
   between the two locks of line 495: `HeldBehindHandler` in `CallsReturnOrHalt` is both.
2. `gc_thread_t::shutdown` sets `m_run` and notifies once, without the mutex;
   the thread tests `m_run` only at the top of its loop.
3. `_finalize` destroys in bulk the objects whose finalizer it has left to the
   user threads.
4. `root_collection()` returns a copy, so no root ever reaches the collector.
   The repository's root tests keep the rooted variable on a scanned stack, and
   therefore pass.

More facts about the code appear in the models without a run of their own: a
restricted finalizer that throws out of `force_collect` leaves `m_collect` set, and
every later `force_collect` spins at line 359 for ever (`WfThrow`; `Abandoned` in
`CallsReturnOrHalt` and `NeverStuck`); `force_collect` can return without a collection since the call, because a caller
that loses the exchange on `m_collect` spins on a flag that stays set from the end
of the collection proper (448-455) to line 457 (`FcSpin`); `abort_on_collect` has
no effect on an object without a finalizer (`bitmap_finalization.cpp` 22-31, in
`Abort`), though `src/cgc1/include/cgc1/cgc1.hpp` 174 promises it for any object;
registering a
finalizer on an object that has its own record ignores
`allow_arbitrary_finalizer_thread` (`kernel.cpp` 323-329, in `RegisterFinalizer`),
and the record of an object finalized by the gc thread is deleted at
`gc_thread.cpp` 423 and again at 431 (memory of records is below the level of
`Reclaim`). `notify_all_threads_resumed` is called while every thread is still
stopped (`global_kernel_state.cpp` 443, before 455), so the gc thread finalizes
beside stopped threads. A shutdown holds both kernel mutexes when it joins
(`gc_thread.cpp` 48): if a collection has run between its wait for the
finalization and its lock, the finalization may want `m_mutex` and both wait.
After `cgc_shutdown`, which `src/cgc1/include/cgc1/cgc1.hpp` 149 says can not be
undone, `cgc_add_root` and `cgc_register_thread` construct another kernel
(`KernelLife`, `Construct`), and a thread whose `t_tlks` is of an earlier
registration ends the program when it registers again (`Register`).

## Proofs

| Module | Theorems | Hypothesis |
| --- | --- | --- |
| `GlobalKernelProofs` | `Inductive`, `TypeCorrect`, `WorldIsStopped`, `StacksAreRecorded`, `MutexesExcludeCollection`, `ResetIsSafe`, `ResetIsSettled`, `OnlyMembersCollect` | `CallersKnown`: a thread whose `t_tlks` dangles does not ask for a collection |
| `StopTheWorldProofs` | `KernelStopsTheWorld`, `MembersStay`, `KernelKeepsPhaseOrder`, `FreedAfterResume`, `LocksInductive`, `StoppedHoldAtMostMutex`, `GateHolds`, `ProgressInductive`, `KernelHaltsInTwoWays` | `CallersKnown` |
| `GcThreadProofs` | `Inductive`, `TypeCorrect`, `NoWakeupIsLost`, `CollectorIsWoken`, `WorkIsAwaited`, `TheGoneAreNotAwaited`, `HandshakeNeverStuck`, `PhasesAreInOrder` | none |
| `MarkPhaseProofs` | `MarkingInvariant`, `NothingIsForgotten`, `MarkingIsExact`, `RecursionIsBounded`, `TypeCorrect`, `MarkingProgresses` | the assumptions on the constants |
| `BitmapReclaimProofs` | `Inductive`, `TypeCorrect`, `HeldObjectsIntact`, `FreedIsZero`, `AbortIsHonoured`, `BitmapImplementsObjectLife`, `PromiseIsKept` | the assumption on the blocks |
| `ReclaimProofs` | `Inductive`, `TypeCorrect`, `HeldObjectsSurvive`, `UncollectableIsKept`, `ReclaimImplementsObjectLife`, `PromiseIsKept` | the set of slots is finite |
| `RootScanProofs` | `ScanInvariant`, `TypeCorrect`, `StacksAreCovered`, `StackedObjectsAreKept` | the assumptions on the constants |
| `KernelLifeProofs` | `InductiveInvariant`, `TypeCorrect`, `CallsFindAKernel`, `KernelsAreOwned`, `GcThreadsAtHome`, `MemoryGoesHome`, `EachJoinedOnce`, `EachFreedOnce`, `MembersAreServed` | `Orderly` |

**GlobalKernel.** For any finite set of threads and any number of collections.
`WorldStopped` is not inductive: that the counter has reached the number of
threads says something only if it counts exactly the handlers of this stop.
`IInv` adds what that takes: each lock is held at exactly the program points that
hold it (`LocksHeld`); at most one thread has won the exchange and not given it
back (`OneCollector`); the members have a live `t_tlks` (`Registration`);
`m_collect_finished` is false just between reset and resume (`Window`); who can be
in the handler at each point (`Handlers`); the paused counter is the resumed one
plus the number of threads in the handler (`Counted`); when the gc thread can be
at work (`GcPhase`) and which stack pointers are current (`Stacks`). The step at
`FcCount` is where it comes together: the counter equals the number of members
but one, the paused threads are members other than the collector, so by
cardinality they are all of them. Each lemma takes a group of actions, the theorem
combines them.

`StopTheWorldProofs` maps ten actions to actions of the protocol and the others to
stutters; that the collector is the one thread at a point of the window
(`CollectorIsUnique`) makes the map well defined, and that all are halted in each
phase is `WorldStopped`. `ThreadsFrozen` is a consequence.

The second part of the module adds `LockInv`: the allocators' locks are held at
exactly the points of `HeapPcs`, `InternalPcs` and `UnavailablePcs`; a thread in the
handler stands at a point of its call that holds no lock, or at one of the two in
`MutexOnlyPcs`; and from the moment the collector takes
`m_allocators_unavailable_mutex` nobody in the handler is past it. The signal
arrives at any point, so all this rests on the collector having all those
locks but `m_mutex` when it signals: a thread that holds one can not be signalled.
`m_mutex` it has released at 610, and whoever gets it then gets it alone, since
`m_thread_mutex` stays the collector's.

The third part is freedom from deadlock but for the two halts, `NeverStuck`. Since
ENABLED is out of the prover's reach, `MayStep`, `MayHandle` and `GcMayStep` in
`GlobalKernelInv` spell out when a thread, a handler and the gc thread have a next
step: the locks a program point takes (`Needs`) and what else it waits for.
(With two threads TLC finds them equal to ENABLED of `KernelNext`, `HandlerNext`
and `GcNext` in every reachable state, except that a finalizer may throw whatever
locks are taken.) `ProgressInv` adds what `IInv` and `LockInv` do not say: whoever the collector
counts on has been signalled, the collector and the gc thread are in the same
phase, nobody waits for a finalization with `m_thread_mutex` while the world is
stopped, and nobody waits for the end of a collection that is over. During a
collection the argument follows the collector: what it waits for is held by nobody
(`Alone`), or by a thread that can move or is in its handler with `m_mutex`, or is
the count, and then a signalled thread can move towards it. Between collections it
follows the order of the locks: `start_world`, `unavailable`, `internal`, `heap`,
`mutex`, the gc thread, `thread_mutex`; when all that is done and somebody is left,
they spin on `m_collect`, and either its owner can move or it has none. This is the
safety half of `CallsReturnOrHalt`; the other half, that those who can move do so
fairly and get somewhere (a double lock backs off and tries again), is the run
`kernel_liveness`.

`FreedAfterResume`: the release at `global_kernel_state.cpp` 443 comes before the
resume at 455. What keeps the gc thread from recording what it freed, and from
giving it back, is that it needs `m_mutex` for the first, which the collector does
not release before it has resumed the world.

**GcThread and its place in the kernel.** `GcInv` has five parts: types; who holds
which mutex (`Holders`); the eight flags say how far the loop has come, and only
the phase it waits for can be ordered (`Flags`); whatever the collector commands
or waits for is the phase the gc thread is in, is waiting for, or has just done
(`Agreed`); and, without spurious wakeups, where the gc thread is when a flag is
set outside the mutex (`Wakeups`). The last part is why no notification is lost:
after the first phase the collector commands only after it has had the mutex, and
the gc thread gives that mutex up nowhere but in its wait.

`PhaseBarrier` is the interface of the two modules. `PhasesAreInOrder` shows that
the flags of `GcThread` implement it, with a shutdown at any moment;
`KernelKeepsPhaseOrder` that the variable `gc` of `GlobalKernel`, with the gc thread
reduced to one step per phase, follows the same chain. `WorkIsAwaited` is what
`GlobalKernel` assumes when it has the collector wait at `fc_clearing`,
`fc_marking` and `fc_sweeping`. `HandshakeMoves` is the freedom from deadlock of
the handshake, except when a shutdown has the kernel's mutexes
(`gc_thread_shutdown`).

**MarkPhase.** For every heap, every root set and every pair of limits, with free
slots of both allocators. The invariant: whatever a marked object points to is marked, deferred, or among the
words still to be looked at; whatever is marked or waiting is reachable. At the
end nothing waits, so the marked set is closed under pointing and inside the
reachable set. Reachability is the least closed set, as an intersection, which
keeps induction over paths out of the proof. `MarkingProgresses` is the safety half
of `MarkingEnds`: every step goes to the next phase, or clears more, or else marks
more, or else leaves fewer words to look at, or else fewer deferred addresses, or
else fewer frames (`Nearer`), an order without infinite descent on a finite heap.
An address that is put off twice would break it.

**Reclaim.** For any finite set of slots, without a hypothesis on the allocator or
the finalizers. `IInv`: what any thread is about to destroy was lost by the
program, and what waits for its finalizer is in use only while it is still on
`m_to_be_freed` or when its slot has been reused. `LifeInv`: but for those slots, a
finalizer still on record has not run, and whoever is done with an object has left
none on its record. With both, each action maps to one of `SparseNext` or to a
stutter; `Reuse` and `Abandon` are reached from `Allocate` and `LocalThrow` only.
`PromiseIsKept` draws what `ObjectLife` comes to in each state. That the exception
for reused slots can not be dropped is `reclaim_special`: `HeldInUse` is
`HeldSurvive` without it.

**BitmapReclaim.** For any division of any set of slots into blocks. `IInv`: held
objects are marked while a collection is under way; a finalizer of an object in
use has its bit set; a bit of a doomed object is set only until the loop has taken
it; past the loop's turn memory is zero. So when a block is freed none of its dead
objects holds contents or a finalizer, and none was finalized with its abort flag
set. The same invariant maps each step to one of `ObjectLife`.

**RootScan.** For any threads, variables, handles, objects and stack sizes.
`ScanInv`: a collector is registered and holds `m_mutex` from the stop to the end
(`Phased`); a stopped thread's record covers its stack, which does not change while
it is stopped (`Stopped`); and the stack of a registered thread is marked or still
to be scanned (`Scanned`). Threads join and leave only with the collection lock, so
the set of registered threads is the same from the stop to the sweep.

**KernelLife.** For any sets of threads and kernels, when `Orderly`. `Serial`: who
changes the kernel is alone. `Stage` and `Pointers` say which kernel `g_gks`, `gks`
and `mine` name at each point of a call; `GcLife`, `Owned` and `Joining` follow one
gc thread and the owner of its details from the start to the join; `Members` ties
members and internal memory to the kernel `_real_gks` will find. One lemma for
each action, then the theorem.

Every invariant and every action property of a passing run is stated by a theorem.
Only model-checked are the liveness properties, whose fairness and ENABLED are out
of the prover's reach: `CallsReturnOrHalt`, `StoppedThreadsResume`, `CollectorReturns`,
`FinalizationFinishes`, `MarkingEnds`, `ShutdownReturns`; `NeverStuck`,
`NoneForgotten`, `HandshakeMoves` and `Progress` are what can be proved of them.
What a recursive definition computes for all inputs would need induction over data,
which the installed provers cannot do; the models use none.

## Not modelled

* The Windows variant, timing and debugging accessors, the statistics of the sweep.
* Sizes, address queries (`cgc_start`, `cgc_size`), `cgc_realloc` and the C
  interface: functions of an address, or wrappers, that leave the collector's
  state alone but for the allocation they make.
* The configuration (`global_kernel_state_param.*`), the property trees and
  streams: they have no state the collector reads after its construction.
* `mcppalloc` and `mcpputil`: allocation, free lists, the lookup of an object by
  an interior pointer.
* Finalizers that allocate, call the collector or keep the object they are given.
* Pointers between objects in `Reclaim` and `RootScan` (they are in `MarkPhase`),
  and ranges of more than one word.
* Stack frames and registers: a stack is the set of words it holds.
* Memory order: every step is sequentially consistent. The code uses
  acquire/release operations with fences on the flags modelled here.

## Plan

Done, in this order: the kernel, the gc thread, marking, reclaiming in both
allocators, roots and handles, the life of kernels; the proofs of their safety
properties, of the refinements of `StopTheWorld`, `PhaseBarrier` and `ObjectLife`,
and of the freedom from deadlock of the kernel, but for its two halts, and of its
handshake with the gc thread. Next:

1. A composition of `GcThread` with `GlobalKernel`, where `GcThread` implements
   the variable `gc`, so that the deadlock of a shutdown with the finalization can
   be checked against both mutexes.
2. Finalizers that call the kernel, allocate or keep their object, in `Reclaim`
   and `BitmapReclaim`.
3. Pointers between objects in `Reclaim`: what an unreachable uncollectable object
   points to.
4. A shutdown that overlaps calls in `KernelLife`, and liveness of its joins.
