# A verification project for the il2cpp runtime and the iOS shell of a Unity app

The repository is the Xcode project that Unity exports for an iOS game. Three
kinds of code live in it:

* the **il2cpp runtime** (`src/Il2CppOutputProject/IL2CPP/libil2cpp`, below
  `libil2cpp/`): the virtual machine that runs C# code compiled to C++, with
  threads, locks, wait handles, a thread pool, a type system and a garbage
  collector;
* the **iOS shell** (`src/Classes`): the app delegate, views, keyboard, video,
  camera;
* **plug-ins** (`src/Libraries`), of which the in-app purchase plug-in has
  state and a protocol of its own.

The runtime has most of the logic that is hard to get right: its monitors are
lock-free, its wait objects mix signals, timeouts and user APCs, and managed
code may call everything from any thread. The models start there.

Paths are relative to `src/`; `libil2cpp/` stands for
`Il2CppOutputProject/IL2CPP/libil2cpp/`.

## 1. Inventory

| Component | State it keeps | Operations | Hard because of | Status |
|---|---|---|---|---|
| Object monitors, `libil2cpp/vm/Monitor.cpp` | the object's `monitor` pointer; in `MonitorData` the owner, recursion count, ready list counter, semaphore, list of wait nodes; the free list | TryEnter, Exit, TryWait, Pulse, PulseAll | no lock at all: a monitor may be freed and reused for another object while others hold a pointer to it; timeouts; interrupts | `Monitor`, `ManagedMonitor`, `MonitorProofs`, `MonitorRecyclingProofs`, `MonitorWaitProofs` |
| Wait objects, `libil2cpp/os/Generic/WaitObject.cpp`, `MutexImpl.h`, `SemaphoreImpl.h`, `EventImpl.h` | `m_Count`, `m_WaitingThreads`, the mutex's owner and recursion; per thread a binary semaphore, `m_CurrentWaitObject`, `m_PendingAPCs` | Wait, Post, Set, Reset, Lock, Unlock, QueueUserAPC | one semaphore per thread serves signals, timeouts and APCs; Wait can be left by an exception at several points | `WaitObject`, `WaitObjectProofs` |
| Class initialisation, `Runtime::ClassInit` in `libil2cpp/vm/Runtime.cpp` | per class `cctor_started`, `cctor_finished_or_no_cctor`, `cctor_thread`, the handle of its exception; one global lock | ClassInit | double-checked locking, recursion, waits for other threads | `ClassInit`, `ClassInitProofs` |
| In-app purchases, `Libraries/com.unity.purchasing/.../UnityPurchasing.m`, `UnityEarlyTransactionObserver.mm` | pending and finished transactions, products, the request in flight; queued promotional payments | transaction updates, FinishTransaction, AddTransactionObserver, RequestProducts, promotional payments | crashes between any two steps; StoreKit repeats and refuses; callbacks before the engine is up | `Purchasing`, `PurchasingProofs` |
| Managed threads, `libil2cpp/vm/Thread.cpp` | the list of attached threads; per thread its state bits and `interruption_requested` | Start, attach, detach, new thread static fields, interrupt, abort, Stop, AbortAllThreads | threads start, detach and end while the list is taken apart; APCs that arrive before or after the wait they are meant for | `ManagedThreads`, `ManagedThreadsProofs` |
| Thread pool, `libil2cpp/mono/ThreadPool` | a 64-bit word of counters, outstanding requests, parked workers, `s_MonitorStatus` | request, park, unpark, create, monitor thread | parking and requesting under different locks; the monitor's lock-free start and end | `ThreadPool`, `ThreadPoolProofs` |
| Waits on several handles, `libil2cpp/os/Generic/Handle.cpp` | none beyond its handles | WaitAny, WaitAll | acquires the handles one at a time, and keeps them after a timeout | planned |
| App life cycle, `Classes/UnityAppController.mm` | engine load state, paused, resigned, snapshot | UIKit callbacks | order of callbacks around start and termination | planned |
| Garbage collection, metadata, internal calls, OS services, views, keyboard, media | see `PROJECT.json` | | I/O, tables, or vendored code | not modelled |

How they interact. Managed code calls `vm::Monitor` and the wait handles
directly. A monitor blocks on an `os::Semaphore`, a Wait on an `os::Event`; both
are wait objects, and so are the mutexes and events of managed code. Interrupts
and aborts are user APCs: `vm::Thread` queues them with
`os::Thread::QueueUserAPC`, which wakes the target through the same semaphore
that the wait object signals, and an APC that throws leaves `WaitObject::Wait`
with an exception, which the monitor's catch clauses must cope with. ClassInit
runs managed code (the static constructor) and sleeps without being
interruptible. Workers of the thread pool are threads of `vm::Thread`, which the
pool stops at shutdown before AbortAllThreads ends everybody else. The purchase plug-in is driven by StoreKit's callbacks and by
managed code, all on the main thread.

What makes each component correct:

* **Monitors**: an object has one owner; the owner's view (which monitor, which
  count) stays true however often monitors are recycled; no thread sleeps on a
  lock that is free; a waiter can be pulsed; Wait gives back the lock; Exit ends.
* **Wait objects**: a signal is not lost; an APC is not missed; a mutex has one
  owner.
* **Class initialisation**: a static constructor runs once; nobody uses a class
  before it is ready, but the thread inside its constructor; waits end.
* **Purchases**: nothing that was paid for disappears without having been
  logged; Unity hears of every purchase in the queue; products arrive.
* **Thread pool**: a request is served by some worker although notifications
  may be lost to timeouts; the counters agree with the workers; there is one
  monitor thread, and it watches every request; the shutdown ends.
* **Managed threads**: an interrupt stays queued until a wait throws it; the list of
  attached threads is exact while the shutdown takes it apart; a thread that
  runs has storage for every thread static field; shutdown ends every thread.
* **Life cycle** (planned): the engine gets pauses and resumes in pairs, and none
  before it is ready.

`PROJECT.json` lists the hazards of this code at the lines where they bite, with
the properties that would notice them.

## 2. The modules

| Module | What it is |
|---|---|
| `Monitor.tla` | detailed specification of `vm/Monitor.cpp`: one action per atomic access to shared memory |
| `ManagedMonitor.tla` | abstract specification: the recursive lock with a wait list that C# callers are promised |
| `MonitorProofs.tla` | theorems about `Monitor`: types, and the lock excludes |
| `MonitorRecyclingProofs.tla` | theorems about `Monitor` for every timeout and exception: recycling, wakeups |
| `MonitorWaitProofs.tla` | theorems about `Monitor`: acquiring, Wait and Pulse, and that it implements `ManagedMonitor` |
| `WaitObject.tla`, `WaitObjectProofs.tla` | one wait object of any type, with the threads in `Wait`, their semaphores and their APC queues; theorems about it |
| `ClassInit.tla`, `ClassInitProofs.tla` | `Runtime::ClassInit`, and theorems about it |
| `Purchasing.tla`, `PurchasingProofs.tla` | the purchase plug-in with StoreKit and managed code around it, and theorems about it |
| `ThreadPool.tla`, `ThreadPoolProofs.tla` | the workers, the requesters and the monitor thread of the thread pool, and theorems about them |
| `ManagedThreads.tla`, `ManagedThreadsProofs.tla` | the life of managed threads, their interrupts and aborts, and the shutdown; theorems about them |
| `MCMonitor`, `MCWaitObject`, `MCClassInit`, `MCPurchasing`, `MCThreadPool`, `MCManagedThreads` | instances for TLC: symmetry sets and the constants that are functions |

Definitions marked "Mutant" stand next to the definition they break. They are
in no specification: each shows that a property of a run notices a plausible
bug.

### Monitor

State. `monitor[o]` is the pointer in the object; `owningThreadId`,
`threadAborted`, `recursiveLockingCount`, `semaphore`,
`numThreadsWaitingForSemaphore`, `flushAcknowledged` and
`threadsWaitingForPulse` are fields of `MonitorData`; `freeList` is
`s_FreeList`. `pc`, `obj`, `mon`, `timeout` and `savedCount` are the locals of
TryEnter, Exit and TryWait. `held[t][o]` is what the caller believes: the number
of Enters it still has to Exit. It appears in no guard of the code, only in
what managed code may call and in the properties.

Actions. A call starts with `CallTryEnter`, `CallExit` or `CallTryWait`. Each
further action is one read, write or compare-and-swap of shared memory together
with the accesses to private data around it. In TryEnter: `AllocateMonitor`,
`InstallMonitor`/`LoseInstall` (the CAS on `obj->monitor`), `ReadMonitor`,
`AcquireFree`, `ConfirmAcquire`/`UndoAcquire` (the check that the monitor is
still the object's), `JoinReadyList`, `CheckStillInstalled`,
`AcquireAsWaiter`/`FailAsWaiter`, `Awake`, and the paths of a timeout
(`LastWaiterChecks`, `LastWaiterAcquires`, `AcknowledgeTimeout`). In Exit:
`ChooseRelease`, `Release`, `RecheckReadyList`, `SignalNext`, and for a dying
monitor `Deflate`, `KickWaiters`, `AwaitAcknowledge`, `ReturnToFreeList`.
TryWait runs Exit, waits for its event, runs Enter and restores its count.

Abstractions. A wait node is named by its thread (a thread is in one Wait at a
time). The free list is a set: its order matters to no property. The outcome of
the timed wait for `flushAcknowledged` is ignored, as in the code, which loops.
Allocation from the free list and the first ownership of the monitor are one
step, since nobody else can see the monitor in between.

### WaitObject

State. `count`, `waiting`, `lockedBy` (`m_Mutex`), `owner`, `recursion`; per
thread `pc`, `timeout`, `interruptible`, `token` (the binary condition
semaphore), `waitObject` (is `m_CurrentWaitObject` this object?), `pendingAPCs`
and `queuing` (how far a `QueueUserAPC` for the thread has come).

Actions. A critical section of `m_Mutex` is split only where the code gives the
lock up (to sleep) or runs an APC. `StartWait`, `CheckForUserAPC`,
`LoopWhileUnsignalled`, `AcquireSemaphore`, `TimeOut`, `Relock`, `Untie`,
`Throw`, `Take` are `WaitObject::Wait`; `Own`, `LockAgain`, `Unlock` are the
mutex, `Post` the semaphore in both orders, `Set` and `Reset` the events;
`QueueUserAPC`, `ReadWaitObject`, `ReleaseTarget` are the three steps of
queueing an APC.

Abstractions. `m_WaitingThreadCount` is left out: it is the length of `waiting`
whenever `m_Mutex` is free. Threads that queue APCs for the same target exclude
each other, since `RequestInterrupt` and `RequestAbort` hold the target's
`synch_cs` (AbortAllThreads, at shutdown, does not). A timeout may expire
at any time while a thread sleeps. An APC returns or throws; what it does
otherwise happens in `vm::Thread`.

### ClassInit

State. The four fields of `Il2CppClass`, the lock, and per thread the stack of
static constructors it is in (`running`), the innermost call of ClassInit
(`pc`, `call`) and how it ended (`outcome`).

Actions follow the function from top to bottom: `CallClassInit` (first look at
the flag), `AcquireLock` (second look), `CheckStarted`, `Claim`, or
`CheckOwner` and `StopWaiting`; then `EndCctor` and `Publish`. Setting
`cctor_thread` and `cctor_started` is one step with the release of the lock,
under which alone others read them first. `Needs` says which other classes a
constructor uses. A constructor returns or throws a managed exception; section 5
has the native abort.

### Purchasing

State. The dictionaries and flags of both observers; StoreKit's queue (`store`,
`unreported`); what managed code has logged, which survives a crash; and what
Unity was told since the launch (`delivered`, `ignored`, `retrieved`,
`attempted`).

Actions are whole callbacks, since everything runs on the main thread:
`UpdatedTransactions` for a set of transactions, `FinishTransaction`,
`AddTransactionObserver`, `RequestProducts`, `ProductPoll`,
`DidReceiveResponse`, `DidFailWithError`, `ShouldAddStorePayment`,
`PurchaseProduct`, and so on. `Relaunch` is a crash followed by a launch: it
clears what is only in memory.

Abstractions. StoreKit and managed code are external, and taken at their most
general: StoreKit may fail to finish a transaction, report it again, leave out
its identifier; managed code logs a purchase before it finishes it and is
otherwise free. A payment is identified with the transaction that it will
create. The two callbacks that end a product request are one step. The delay of
the retries is left out, receipts and the promotion order as well: they only
pass data on.

### ThreadPool

State. `max_working`, `active`, `working` and `parked` are the word of counters;
`outstanding_request` and `threadpool_jobs` belong to the only domain;
`working_threads` and `parked_threads_count` are under `active_threads_lock`;
`waiters` and `wakeups` are the inside of the condition variable on which
workers park; `status` is `s_MonitorStatus`. `pc[w]` is where a worker stands,
`at[c]` where a caller of `worker_request`, or the monitor thread, stands.

Actions. One action is one critical section, one atomic update of the counters
or of the status, or one step of the condition variable. A worker
(`WorkerStarts`, `WorkerLooks`, `JobEnds`, `JobThrows`) parks in
`StopWorking`, `Park`, `WakeUp` or `TimeOut`, `LeavePark`, `WorkAgain`, and ends
in `WorkerEnds` and `CountOut`. A request is counted (`Request`), makes sure of
the monitor thread (`EnsureRunning`, `MayStart`, `StartMonitor`) and finds a
worker (`TryUnpark`, `TryCreate`, `CreateWorker` or `CreateFails`); the monitor
thread finds one in the same way after `MonitorLooks` and `Grow`, and ends by
`Decide`, `Check`, `Retire`. `Shutdown`, `StopWorkers` and `NotifyAll` are the
clean-up.

Abstractions. Workers are suspended only by a debugger, so suspension is left
out. Hill climbing (`Adjust`) may find any value within the limits. The compare
and exchange and the release of a notification are one step. Managed
code sets a limit in one step. Time is nondeterministic: a new second
may begin at any creation, a request may be old enough for the monitor thread at
any look. When the bound on `Workers` is used up, the creation of a thread
fails. `gave_up` is a history variable: a request has found that no monitor
thread can be created.

### ManagedThreads

State. `attached`, `blocked` and `sizes` are `s_AttachedThreads`,
`s_BlockNewThreads` and the length of `s_ThreadStaticSizes`. Per thread there
are its table of static fields, `interruption_requested`, the bits of its state
that matter here, the queue of APCs, and `exited`, its exit event. `phase`,
`copy` and `active` are the locals of `Stop` and `AbortAllThreads`. `swallowed`
is a history variable: a wait without the mark WaitSleepJoin has used up the
thread's interrupt.

Actions. `Start`, `Register` or `TurnAway`, `AllocateStaticDataForCurrentThread`,
`Resync` bring a thread up; `End`, `FreeCurrentThreadStaticData`, `Unregister`,
`SetExited` take it down. Managed code asks (`RequestInterrupt`,
`RequestAbort`), waits (`Wait`, `BareWait`, `WaitOneThrows`) and is thrown out
of a wait (`HandleInterrupt`, `HandleAbort`, `HandleTerminate`). `Stop` and
`BlockNewThreads` begin the two ways to end threads, `QueueTerminate`, `Joined`,
`AskAgain`, `PutBack` and `Uninitialize` go on.

Abstractions. What the code does under `s_ThreadMutex` or under a thread's
`synch_cs` is one step. A wait handles what is queued when it begins and while
it lasts: `WaitObject` shows that of the waits below (`NoMissedAPC`,
`APCIsHandled`). An APC is taken off the queue and run in one step. Only the
first of several identical requests to terminate is queued. A thread of the
embedder detaches by a call, without setting its exit event, or when it is
cancelled (`SignalExited`). A native abort that nobody catches ends the process
(`Crashed`). Main is not interrupted. The deletion of `os::Thread`
objects is left out. The thread pool appears only as the caller of `Stop`.

## 3. The runs

| Run | Instance | Question |
|---|---|---|
| `monitor_recycling` | 2 threads, 2 objects, 3 monitors, timed and zero Wait, TryEnter without time | Does the lock exclude, and does what a holder sees stay true, while monitors move between objects? |
| `monitor_contention` | 3 threads, 1 object, timed TryEnter, infinite Wait | Is a wakeup lost, is a waiter out of a Pulse's reach, and does `Monitor` implement `ManagedMonitor`? |
| `monitor_progress` | 2 threads, recursion depth 2, fairness | Does Exit end although it waits for others to leave a dying monitor? Is an object ever free and waited for for ever? |
| `monitor_exceptions` | 3 threads, interrupts and native aborts in TryEnter | Does a thread that is thrown out of its wait take a wakeup along, or put a used monitor on the free list? |
| `waitobject_signals` | 3 threads, all types, posts of up to 3 | Is a signal lost; does a mutex have one owner? |
| `waitobject_apcs` | 2 threads, semaphore and mutex, 1 pending APC, fairness | Does an APC reach its thread and a signal a sleeper, although both use one semaphore? |
| `class_init` | 3 threads, 2 classes of which one needs the other, fairness | Does a constructor run once, is a class ready when ClassInit returns, and do waits end? |
| `thread_pool` | 2 workers, 2 requesters, limit 2, 1 creation per second | Are the counters exact, is there one monitor thread that watches every request, and does nobody sleep through the clean-up? |
| `thread_pool_progress` | 1 worker, 1 requester, limit 2, 1 failing creation, fairness | Is a request served in the end, by a round of the monitor thread if need be, and does the shutdown end? |
| `managed_threads` | Main, the finalizer thread, 1 thread of the runtime or of managed code, 1 of the embedder, 1 static field, 1 APC from requests, fairness | Is the list exact, is every field allocated, is an interrupt lost, and does the shutdown end? |
| `purchasing_recovery` | 2 transactions (one anonymous), 1 product, 2 made-up identifiers, 2 scheduled polls, fairness | Is a purchase or payment lost across crashes and failures? Do the products come? |

One run is expected to fail. `monitor_wait_interrupted` checks what the comment
at `vm/Monitor.cpp:695-698` says of Wait: TLC finds that an interrupt in the
Enter at the end of Wait leaves Wait without the lock.

The other runs keep to what the code can promise, and what a caller has to avoid
to have it. Outside of these instances the same properties fail:

* assertion at `vm/Monitor.cpp:484`: with two objects and a timed TryEnter,
  `AcquiredIsInstalled` fails. The last waiter times out, is off the ready list,
  and acquires a monitor that was recycled to another object between its check
  and its compare-and-swap. `monitor_recycling` therefore has no timed TryEnter.
* comment at `vm/Monitor.cpp:533-543`: with two objects `NoLostWakeup` fails too.
  The Unacquire of a monitor acquired by mistake does not look at the ready
  list, and a thread that joined it sleeps on. `monitor_contention` has one
  object, where no acquire is stale; section 4 says that nothing else loses a
  wakeup.
* comment at `os/Generic/MutexImpl.h:76-77`: with three threads and
  `Abandonable = {"mutex"}`, `NoLostWakeup` of `WaitObject` fails. Unlock wakes a
  thread whose time has run out, and it leaves without waking the next.
  `waitobject_signals` lets only waits for events time out; `waitobject_apcs`
  lets those for mutexes be abandoned, with one thread left to sleep.
* `RequestsAreServed` exempts `AtLimit`: once `max_working` is at its limit, the
  monitor thread calls nobody, and a request whose notification was lost
  waits for the next request. The round that raises `max_working` to the limit
  still calls, so for a request that finds room below the limit the second half
  of the property exempts only `LastRoundFails`: in that round the only parked
  worker has just given up waiting and is notified in vain, or the last try
  may be refused. Without either of the two TLC finds a violation.
* `AbortAllEnds` exempts `Held` and `Crashed`. Without any one of the three cases
  TLC finds a violation: AbortAllThreads joins an idle or detached thread of the
  embedder for ever; Stop asks a worker in its first job only once, which
  catches that abort and waits again; a thread started by managed code
  that is turned away at Register takes the process down.

Three more divergences came up while modelling. The last waiter tries to acquire
the monitor so that it does not stay on an object that nobody locks (comment at
468-477); when the owner still holds it, the attempt fails, and the owner, who
has seen the waiter, releases without deflating. The comment at 404-407 sees no
such leak in a temporary increment of a ready list; a thread that increments the
list of a monitor which is already on another object keeps its owner from
deflating. And an aborted thread stays counted on the ready list, so that an
Exit that deflates waits for it for ever (444-450, 563); `monitor_progress` has
no aborts.

Bounds, and why they are enough.

* Two objects and three monitors let a monitor go from one object over the free
  list to the other while a thread still holds the old pointer and a third
  monitor is in use; two threads suffice, one that is paused and one that
  recycles. Three threads on one object let one own, one sleep and one come in,
  which every lost wakeup needs.
* `MaxDepth` bounds recursive locking: 2 is the first depth at which a count can
  be lost. Tokens pile up on a monitor's semaphore, since every release
  with a counted waiter posts one (the code's limit is 2^31-1); `SemaphoreMax =
  2`, one for each thread that can sleep at a time, drops the rest, which would
  only let later waiters look at the monitor once more. One abort per
  monitor is allowed.
* `MaximumValue = 3` lets one post release all three sleepers; `MaxRecursion =
  2` is the first recursion; `MaxAPCs` bounds the queue, and one APC is the case
  of a wakeup that is both signal and APC.
* Three threads and two classes let one thread run the outer constructor and
  wait for the second in the inner one while the third waits for either.
* Two workers let one park while the other works or ends, two requesters let one
  start the monitor thread while the other finds it starting; the limit of 2 is
  the first at which the monitor thread grows. `MaxOutstanding` is the number of
  requesters. In `thread_pool_progress` one worker and a second place below the
  limit are enough for a notification to go to a worker that is giving up, for
  a creation that fails, and for a monitor thread that comes and goes. The one
  rise of `max_working` that is possible is the monitor's last round, and the
  only one in which a failure has no later round to make up for it; `MaxTries =
  2` lets its first try fail and the second succeed.
* One thread of the runtime and one of the embedder, besides Main and the
  finalizer thread, are the kinds the code tells apart; a thread in both
  `Internal` and `Started` may be turned away in either way. One static field
  added at any time and one APC from requests, next to those of the
  shutdown, give every order of an interrupt, an abort and a request to terminate.
* Two transactions, one of each kind, are independent but for the queue and the
  sets they share; crashes are not bounded, `MaxMadeUp` bounds the identifiers
  made up for one transaction.

The `monitor_*` runs do not check for deadlock: three threads that all wait for
a pulse have really stopped. Nor does `managed_threads`: its process ends. All
other runs do.

Fairness. `Monitor`: a thread that can take a step in TryEnter or Exit takes one
(the scheduler); nothing is assumed of managed code or of time. `WaitObject`:
threads in Wait and in QueueUserAPC are scheduled; a thread that wants `m_Mutex`
gets it if it becomes free again and again; the APC queue of a thread is not
refilled for ever faster than it is emptied. `ClassInit`: threads are scheduled,
get the lock in the same sense, and a static constructor that can return again
and again does. `Purchasing`: the main queue runs a block whose time has come;
StoreKit answers each request, and not with an error for ever. `ThreadPool`:
threads are scheduled and a callback returns; strong fairness is assumed of
two things: a requester does not find every time that the monitor thread has
just reset the status; requests that nobody takes are old enough for the
monitor thread in the end. A try to create a worker may be refused every time.
Nothing makes a parked worker's time run out: no
request may depend on that. `ManagedThreads`: every thread
is scheduled, and the managed code of a thread ends or comes to a wait again and
again, except that of the embedder's threads, of which nothing is assumed.

## 4. The theorems

Checked by TLAPS, for all values of the constants.

**Monitor, types and locks** (`MonitorProofs`). `TypeCorrect` needs no assumption
but those of the module. Its invariant says of the ready list counter that it is
at least the number of threads that count themselves on it, and greater once an
abort has happened (`Counted`), which keeps it from becoming negative.
`HeldIsOwnedCorrect` and `MutualExclusionCorrect` assume `NoAbort` (no native
abort) and `NoStaleTimeout`: either there is one object only, or managed code
passes no finite timeout to TryEnter. Without the second, what they rest on
fails, as section 3 says of line 484; the first excludes threads
that may exit a monitor they do not own. They follow from one
inductive invariant, `LockInv`. Neither is inductive alone: that a
holder's monitor is not taken away needs that only its owner deflates it; that
needs that a thread inside Exit owns the monitor it releases; that needs that a
monitor acquired by mistake is told apart (`ConfirmAcquire`), which needs that
a monitor is on one object at most and that one on the free list is on none.

**Monitor, recycling and wakeups** (`MonitorRecyclingProofs`). `RecyclingIsSafeCorrect`
has no assumption: monitors are recycled safely even where timed TryEnters
and aborts have broken mutual exclusion. Its invariant `RecycleInv` therefore
speaks of no thread's lock. It says that one thread at a time disposes of a
monitor or prepares a new one (`Disposes`); that, as long as no abort has
happened on it, a monitor belongs to the thread that works on it (`Owns`); that
one which is available is on an object (`AvailableIsCarried`); and that one with
a sleeper is on the sleeper's object or being flushed (`Pinned`). A monitor on
which an abort happened does not come back to the free list: no Exit decides to
deflate it any more, and one that had decided before never leaves the flush,
since its ready list is never empty again (`EmptyIsUnaborted`). `NoLostWakeupCorrect` takes the same invariant and
says who loses wakeups: only a step that gives back, without a Post, a monitor
acquired by mistake (`NothingGivenBack` excludes it). On one object there is no
such step (`NoLostWakeupOnOneObject`), whatever times out or is thrown.

**Monitor, Wait and Pulse** (`MonitorWaitProofs`). `AcquiredIsInstalledCorrect` and
`WaitersCanBePulsedCorrect` assume `NoStaleTimeout` and `NoAbort`. The second
needs that a thread in Wait is on the list of its object's monitor from the
moment Wait is called until a pulse takes it off (`WaiterListed`), and that an
owner does not deflate when the list is not empty. `WaitReturnsLockedCorrect`
assumes that nothing is thrown (`Exceptions = {}`), since
`monitor_wait_interrupted` shows what an interrupt does; it needs that the Enter
inside Wait cannot time out (`WaitLocals`). `ImplementsPromiseCorrect` is the
refinement, under `NoStaleTimeout` and `Exceptions = {}`: each step maps to a
step of `ManagedMonitor` or to a stutter (`StepMapped`). `PromiseInv` adds to the
above that no thread is twice on a list, that whoever is on one is in Wait and
not pulsed (`ListedWaits`), that a thread which enters has not reached its depth
(`EnterDepth`), and that, where only a pulse ends a wait, a thread that locks
again is on no list (`PulsedOff`).

**Wait objects** (`WaitObjectProofs`). All four theorems rest on `WaitInv`: the
lock of `Wait` excludes (`Lock`), the list of waiting threads holds only threads
inside the two halves of ConditionWait (`Line`), and whoever goes to take the
object holds the lock and has seen the count above zero (`Signalled`).
`MutexHasOneOwner` needs the last part, and that a mutex counts no further than
one. `APCsAreSeen` needs that a thread in an interruptible wait has set
`m_CurrentWaitObject` before it looks at its queue (`Reachable`).
`SignalsAreNotLost` assumes that waits on semaphores and mutexes are never given
up (`Abandonable \subseteq Events`); section 3 says what happens otherwise. It
needs that every sleeper is in line, so that a wakeup finds one, and that nobody
in line is on its way out without taking the object (`InLine`). Events need less:
`Set` wakes everyone (`EventWokeAll`).

**ClassInit** (`ClassInitProofs`). `OneCctorCorrect` and `ReadyOnReturnCorrect`
hold for any dependencies, cyclic ones included. `ClassInv` adds the life of a
class (free, started, run, ended, published: `Progress`), that the thread named
by `cctor_thread` is inside the constructor (`Owners`), that the lock is held by
one thread, and that a class is in one place of one stack. Lemmas `Push` and
`Pop` say what entering and leaving a constructor does to the stacks.

**Purchasing** (`PurchasingProofs`). `NoLostPurchaseCorrect`,
`NoOverlookedPurchaseCorrect` and `NoForgottenPaymentCorrect` follow from
`SalesInv`. What ties the two sides together is `Bookkeeping`: a pending or
finished purchase was delivered, and a finished one was logged; therefore
clearing a duplicate, which the code recognises by `finishedTransactions`, loses
nothing.

**Thread pool** (`ThreadPoolProofs`). `CountersAreExact`, `MonitorIsOne`,
`RequestsAreWatched` and `SleepersAreWoken` hold for any finite sets of workers
and requesters and follow from `PoolSafe`, the invariance of `PoolInv`. The
counters need `CallersOK`: `worker_creation_lock` lets one caller at a time have
a worker counted that is not there yet. `MonitorWatches` needs `OneMonitor` and
`Watched`: a request that comes when the monitor thread has decided to end is
still being announced, and the announcement will make its compare and exchange
fail. Lemmas `CountMove` and `MoveKeepsCounters` say what the move of a worker
does to all the counters at once.

**Managed threads** (`ManagedThreadsProofs`). `ListIsExact` follows from
`LifeInv`. The property is not inductive at `PutBack`, which sets the list to
Main and the finalizer thread: that this forgets nobody needs that new threads
are blocked from the copy on, that everybody who is attached is in the copy or
being joined, and that a thread whose exit event is set has left the list.
`StaticsAlwaysAllocated` needs the exact list, because a new field is added only
to the tables of attached threads. `InterruptsComeThrough` follows from lemmas about
queues: queueing keeps what is there (`QueueKeeps`), and handling an APC keeps
the others (`HandleKeeps`).

Only model-checked: liveness (`ExitTerminates`, `SomeoneEnters`,
`SignalReachesSleepers`, `APCIsHandled`, `WaitEnds`, `ProductsAreRetrieved`,
`RequestsAreServed`, `ShutdownEnds`, `AbortAllEnds`),
which is out of the prover's reach, as are ENABLED and induction over data.
Every other property of a run has a theorem. Where a theorem has an assumption,
section 3 or the paragraph above says what happens without it.

## 5. What is not modelled

* The memory model: `os::Atomic` operations and locks are taken to be
  sequentially consistent. They are full barriers in the code, but plain reads
  next to them (`obj->monitor`, `cctor_finished_or_no_cctor`) are not.
* baselib's locks and semaphores, StoreKit, UIKit and managed code are external,
  modelled by what the code relies on.
* `Monitor` takes its semaphore as one that wakes a sleeper when it is posted;
  `WaitObject` shows that os::Semaphore keeps this only while no wait is
  abandoned by a timeout or an APC. `ManagedThreads` takes from `WaitObject` that
  waits handle APCs. These models are not composed.
* Of the thread pool: hill climbing's arithmetic, the rate measurements, the I/O
  selector, BeginInvoke and EndInvoke's results. Of `vm::Thread`: names, priorities,
  apartments and the layout of the tables of thread static fields.
* A native abort in a static constructor. It is no `Il2CppExceptionWrapper`, so
  Invoke does not catch it: it leaves ClassInit at `vm/Runtime.cpp:1127`, with the
  class started for ever and whoever waits for it polling for ever. Native aborts
  are raised only at shutdown.
* A transaction without product identifier, which `handleTransaction` turns away
  (`UnityPurchasing.m:456-458`), is no case of its own: a paid one is ignored like
  one of an unknown product.
* Class::Init's metadata errors; receipts and promotion order of the purchase
  plug-in, and what would happen if StoreKit called it on another thread than
  the main one.
* `os::Handle`'s WaitAny and WaitAll and `UnityAppController`'s life cycle have
  state and order worth a model, and have none yet. The remaining components are
  I/O, tables filled under one lock, wrappers of UIKit, or vendored and
  generated code.

## 6. The plan

1. Done: `Monitor`, `ManagedMonitor`, `WaitObject`, `ClassInit`, `Purchasing`,
   `ThreadPool`, `ManagedThreads`, their runs, and the theorems above.
2. Done: a theorem for every property of the runs but liveness, the refinement
   of `ManagedMonitor` included.
3. An abstract specification of the wait object (a counter and a set of
   sleepers) that `WaitObject` implements and `Monitor`'s semaphore uses.
4. `WaitHandles`: WaitAny and WaitAll over several wait objects. Abstract
   specification: all handles are acquired or none, which a timeout breaks.
5. `AppController`: the engine load states and the life cycle callbacks.
