------------------------------ MODULE Monitor ------------------------------
(***************************************************************************)
(* The object monitors of the il2cpp runtime (libil2cpp/vm/Monitor.cpp):   *)
(* System.Threading.Monitor's Enter, TryEnter, Exit, Wait and Pulse on top *)
(* of relaxed locks.  An object that nobody has locked carries no monitor; *)
(* the first Enter inflates it with a MonitorData taken from a lock-free   *)
(* free list, and the Exit that leaves nobody interested deflates it.  No  *)
(* lock protects any of this: a thread may still hold a pointer to a       *)
(* monitor that is already back on the free list or installed on another   *)
(* object.                                                                 *)
(*                                                                         *)
(* One action is one atomic access to shared memory, together with the     *)
(* accesses to private data around it.  pc[t] is where thread t stands in  *)
(* TryEnter, Exit or TryWait; "idle" is managed code outside them.         *)
(***************************************************************************)
EXTENDS Integers, SequencesExt

CONSTANTS
    Threads,        \* os::Thread::ThreadId of the attached threads
    Objects,        \* Il2CppObject instances used as locks
    Monitors,       \* MonitorData instances, allocated once and recycled
    NoMonitor,      \* obj->monitor == NULL
    NoObject,       \* a thread that is in no monitor call
    Available,      \* kCanBeAcquiredByOtherThread
    OnFreeList,     \* kHasBeenReturnedToFreeList
    EnterTimeouts,  \* timeouts managed code passes to TryEnter
    WaitTimeouts,   \* timeouts managed code passes to TryWait
    Exceptions,     \* what an APC may throw out of an interruptible wait
    MaxDepth,       \* bound on recursive locking
    SemaphoreMax    \* maximum count of MonitorData::semaphore

Timeouts == {"zero", "timed", "infinite"}

ASSUME ThreadsAssumption == IsFiniteSet(Threads)
ASSUME OwnerAssumption == Available \notin Threads /\ OnFreeList \notin Threads
                          /\ Available # OnFreeList
ASSUME NullAssumption == NoMonitor \notin Monitors /\ NoObject \notin Objects
ASSUME TimeoutsAssumption == /\ EnterTimeouts \subseteq Timeouts
                             /\ WaitTimeouts \subseteq Timeouts
                             /\ Exceptions \subseteq {"interrupt", "abort"}
ASSUME BoundsAssumption == MaxDepth \in Nat \ {0} /\ SemaphoreMax \in Nat \ {0}

VARIABLES
    monitor,                        \* Il2CppObject::monitor
    owningThreadId,                 \* the fields of MonitorData
    threadAborted,
    recursiveLockingCount,
    semaphore,
    numThreadsWaitingForSemaphore,
    flushAcknowledged,
    threadsWaitingForPulse,         \* a wait node is named by its thread
    signalWaitingThread,            \* the event in the thread's wait node
    freeList,                       \* MonitorData::s_FreeList
    pc, obj, mon, timeout,          \* a thread's locals in TryEnter and Exit
    savedCount,                     \* TryWait's oldLockingCount; 0 outside it
    held                            \* the Enters a thread still has to Exit

lock  == <<monitor, owningThreadId, recursiveLockingCount, freeList>>
ready == <<numThreadsWaitingForSemaphore, semaphore, threadAborted, flushAcknowledged>>
pulse == <<threadsWaitingForPulse, signalWaitingThread>>
frame == <<obj, mon, timeout, savedCount, held>>
vars  == <<lock, ready, pulse, pc, frame>>

EnterPCs == {"read", "install", "check", "recheck", "ready", "verify", "loop",
             "grab", "sleep", "lastWaiter", "timeoutGrab",
             "timeoutAck", "vacate"}
ExitPCs  == {"exitCheck", "exitPulse", "unacquirePost", "post",
             "unacquireRecheck", "repost", "deflate", "flush", "flushWait"}
PCs == {"idle", "pulseWait", "restore"} \cup EnterPCs \cup ExitPCs

\* GetMonitorAndThrowIfNotLockedByCurrentThread returns instead of throwing.
\* When it throws, the call changes nothing.
LockedByCurrentThread(t, o) ==
    /\ monitor[o] # NoMonitor
    /\ owningThreadId[monitor[o]] = t \/ threadAborted[monitor[o]]

\* The compare-and-swap of MonitorData::TryAcquire succeeds, or fails.
TryAcquire(t, m) ==
    /\ owningThreadId[m] = Available
    /\ owningThreadId' = [owningThreadId EXCEPT ![m] = t]
CannotAcquire(m) ==
    /\ owningThreadId[m] # Available
    /\ UNCHANGED owningThreadId

\* MonitorData::Unacquire.
Unacquire(m) == owningThreadId' = [owningThreadId EXCEPT ![m] = Available]

AddToReadyList(m) ==
    numThreadsWaitingForSemaphore' =
        [numThreadsWaitingForSemaphore EXCEPT ![m] = @ + 1]
RemoveFromReadyListTwice(m) ==      \* mutant: a leaver is counted out twice
    numThreadsWaitingForSemaphore' =
        [numThreadsWaitingForSemaphore EXCEPT ![m] = @ - 2]
RemoveFromReadyList(m) ==
    numThreadsWaitingForSemaphore' =
        [numThreadsWaitingForSemaphore EXCEPT ![m] = @ - 1]

\* Mutant: the wakeup is forgotten.
PostNothing(m, n) == UNCHANGED semaphore
\* os::Semaphore::Post refuses a release that would exceed the maximum.
Post(m, n) ==
    semaphore' = [semaphore EXCEPT ![m] = IF @ + n > SemaphoreMax THEN @ ELSE @ + n]

Goto(t, label) == pc' = [pc EXCEPT ![t] = label]

\* The call that thread t is in returns to managed code, or throws.
Leave(t) ==
    /\ Goto(t, "idle")
    /\ obj' = [obj EXCEPT ![t] = NoObject]
    /\ mon' = [mon EXCEPT ![t] = NoMonitor]
    /\ timeout' = [timeout EXCEPT ![t] = "zero"]
    /\ savedCount' = [savedCount EXCEPT ![t] = 0]

\* TryEnter returns true: to managed code, or to the TryWait that called Enter.
EnterSucceeds(t) ==
    \/ /\ savedCount[t] = 0
       /\ Leave(t)
       /\ held' = [held EXCEPT ![t][obj[t]] = @ + 1]
    \/ /\ savedCount[t] # 0
       /\ Goto(t, "restore")
       /\ UNCHANGED frame

EnterFails(t) == Leave(t) /\ UNCHANGED held

\* Exit returns: to managed code, or to the TryWait that called it, which then
\* waits for its pulse or, with a zero timeout, enters again at once.
ExitReturns(t) ==
    \/ /\ savedCount[t] = 0
       /\ Leave(t)
       /\ UNCHANGED held
    \/ /\ savedCount[t] # 0 /\ timeout[t] # "zero"
       /\ Goto(t, "pulseWait")
       /\ mon' = [mon EXCEPT ![t] = NoMonitor]
       /\ UNCHANGED <<obj, timeout, savedCount, held>>
    \/ /\ savedCount[t] # 0 /\ timeout[t] = "zero"
       /\ Goto(t, "read")
       /\ timeout' = [timeout EXCEPT ![t] = "infinite"]
       /\ mon' = [mon EXCEPT ![t] = NoMonitor]
       /\ UNCHANGED <<obj, savedCount, held>>

----------------------------------------------------------------------------
(* TryEnter *)

\* Managed code calls Enter or TryEnter.
CallTryEnter(t, o, ms) ==
    /\ pc[t] = "idle" /\ held[t][o] < MaxDepth
    /\ Goto(t, "read")
    /\ obj' = [obj EXCEPT ![t] = o]
    /\ timeout' = [timeout EXCEPT ![t] = ms]
    /\ UNCHANGED <<lock, ready, pulse, mon, savedCount, held>>

\* The object has no monitor: allocate one and own it before anyone sees it.
AllocateMonitor(t) ==
    /\ pc[t] = "read" /\ monitor[obj[t]] = NoMonitor
    /\ \E m \in freeList :
          /\ freeList' = freeList \ {m}
          /\ owningThreadId' = [owningThreadId EXCEPT ![m] = t]
          /\ mon' = [mon EXCEPT ![t] = m]
    /\ Goto(t, "install")
    /\ UNCHANGED <<monitor, recursiveLockingCount, ready, pulse, obj, timeout,
                  savedCount, held>>

\* Mutant: a plain store instead of the compare-and-swap.
InstallMonitorBlindly(t) ==
    /\ pc[t] = "install"
    /\ monitor' = [monitor EXCEPT ![obj[t]] = mon[t]]
    /\ EnterSucceeds(t)
    /\ UNCHANGED <<owningThreadId, recursiveLockingCount, freeList, ready, pulse>>
\* Inflate the object, unless another thread did it first.
InstallMonitor(t) ==
    /\ pc[t] = "install" /\ monitor[obj[t]] = NoMonitor
    /\ monitor' = [monitor EXCEPT ![obj[t]] = mon[t]]
    /\ EnterSucceeds(t)
    /\ UNCHANGED <<owningThreadId, recursiveLockingCount, freeList, ready,
                  pulse>>
LoseInstall(t) ==
    /\ pc[t] = "install" /\ monitor[obj[t]] # NoMonitor
    /\ owningThreadId' = [owningThreadId EXCEPT ![mon[t]] = OnFreeList]
    /\ freeList' = freeList \cup {mon[t]}
    /\ mon' = [mon EXCEPT ![t] = NoMonitor]
    /\ Goto(t, "read")
    /\ UNCHANGED <<monitor, recursiveLockingCount, ready, pulse, obj, timeout,
                  savedCount, held>>

ReadMonitor(t) ==
    /\ pc[t] = "read" /\ monitor[obj[t]] # NoMonitor
    /\ mon' = [mon EXCEPT ![t] = monitor[obj[t]]]
    /\ Goto(t, "check")
    /\ UNCHANGED <<lock, ready, pulse, obj, timeout, savedCount, held>>

EnterRecursively(t) ==
    /\ pc[t] = "check" /\ owningThreadId[mon[t]] = t
    /\ recursiveLockingCount' = [recursiveLockingCount EXCEPT ![mon[t]] = @ + 1]
    /\ EnterSucceeds(t)
    /\ UNCHANGED <<monitor, owningThreadId, freeList, ready, pulse>>

AcquireFree(t) ==
    /\ pc[t] = "check"
    /\ TryAcquire(t, mon[t])
    /\ Goto(t, "recheck")
    /\ UNCHANGED <<monitor, recursiveLockingCount, freeList, ready, pulse,
                  frame>>

\* Mutant: the object's monitor is not read again.
ConfirmAcquireBlindly(t) ==
    /\ pc[t] = "recheck"
    /\ EnterSucceeds(t)
    /\ UNCHANGED <<lock, ready, pulse>>
\* Both outcomes of the re-read after TryAcquire.  A monitor that has moved to
\* another object in the meantime is given back, without a Post.
ConfirmAcquire(t) ==
    /\ pc[t] = "recheck" /\ monitor[obj[t]] = mon[t]
    /\ EnterSucceeds(t)
    /\ UNCHANGED <<lock, ready, pulse>>
UndoAcquire(t) ==
    /\ pc[t] = "recheck" /\ monitor[obj[t]] # mon[t]
    /\ Unacquire(mon[t])
    /\ mon' = [mon EXCEPT ![t] = NoMonitor]
    /\ Goto(t, "read")
    /\ UNCHANGED <<monitor, recursiveLockingCount, freeList, ready, pulse, obj,
                  timeout, savedCount, held>>

FindLocked(t) ==
    /\ pc[t] = "check" /\ owningThreadId[mon[t]] # t
    /\ CannotAcquire(mon[t])
    /\ \/ timeout[t] = "zero" /\ EnterFails(t)
       \/ timeout[t] # "zero" /\ Goto(t, "ready") /\ UNCHANGED frame
    /\ UNCHANGED <<monitor, recursiveLockingCount, freeList, ready, pulse>>

\* Join the ready list of a monitor that may be dying, free or somebody else's.
JoinReadyList(t) ==
    /\ pc[t] = "ready"
    /\ AddToReadyList(mon[t])
    /\ Goto(t, "verify")
    /\ UNCHANGED <<lock, semaphore, threadAborted, flushAcknowledged, pulse,
                  frame>>

\* Read obj->monitor again, after joining and before every round of the loop.
CheckStillInstalled(t) ==
    /\ pc[t] \in {"verify", "loop"}
    /\ IF monitor[obj[t]] # mon[t] THEN Goto(t, "vacate")
       ELSE Goto(t, IF pc[t] = "verify" THEN "loop" ELSE "grab")
    /\ UNCHANGED <<lock, ready, pulse, frame>>

\* Mutant: the thread leaves without taking itself off the ready list.
VacateUncounted(t) ==
    /\ pc[t] = "vacate"
    /\ mon' = [mon EXCEPT ![t] = NoMonitor]
    /\ Goto(t, "read")
    /\ UNCHANGED <<lock, ready, pulse, obj, timeout, savedCount, held>>
\* MonitorData::VacateDyingMonitor, and round to the start of TryEnter.
VacateDyingMonitor(t) ==
    /\ pc[t] = "vacate"
    /\ RemoveFromReadyList(mon[t])
    /\ flushAcknowledged' = [flushAcknowledged EXCEPT ![mon[t]] = TRUE]
    /\ mon' = [mon EXCEPT ![t] = NoMonitor]
    /\ Goto(t, "read")
    /\ UNCHANGED <<lock, semaphore, threadAborted, pulse, obj, timeout,
                  savedCount, held>>

AcquireAsWaiter(t) ==
    /\ pc[t] = "grab"
    /\ TryAcquire(t, mon[t])
    /\ RemoveFromReadyList(mon[t])
    /\ EnterSucceeds(t)
    /\ UNCHANGED <<monitor, recursiveLockingCount, freeList, semaphore,
                  threadAborted, flushAcknowledged, pulse>>
FailAsWaiter(t) ==
    /\ pc[t] = "grab"
    /\ CannotAcquire(mon[t])
    /\ Goto(t, "sleep")
    /\ UNCHANGED <<monitor, recursiveLockingCount, freeList, ready, pulse,
                  frame>>

Awake(t) ==
    /\ pc[t] = "sleep" /\ semaphore[mon[t]] > 0
    /\ semaphore' = [semaphore EXCEPT ![mon[t]] = @ - 1]
    /\ Goto(t, "loop")
    /\ UNCHANGED <<lock, numThreadsWaitingForSemaphore, threadAborted,
                  flushAcknowledged, pulse, frame>>

\* The semaphore wait throws: a native abort leaves the ready list as it is.
\* One abort per monitor bounds the count that nobody will ever take back.
AbortedInSleep(t) ==
    /\ pc[t] = "sleep" /\ "abort" \in Exceptions /\ ~threadAborted[mon[t]]
    /\ threadAborted' = [threadAborted EXCEPT ![mon[t]] = TRUE]
    /\ Leave(t)
    /\ UNCHANGED <<lock, numThreadsWaitingForSemaphore, semaphore,
                  flushAcknowledged, pulse, held>>
InterruptedWithToken(t) ==          \* mutant: the wakeup leaves with the thread
    /\ pc[t] = "sleep" /\ "interrupt" \in Exceptions
    /\ RemoveFromReadyList(mon[t])
    /\ semaphore' = [semaphore EXCEPT ![mon[t]] = IF @ > 0 THEN @ - 1 ELSE 0]
    /\ Leave(t)
    /\ UNCHANGED <<lock, threadAborted, flushAcknowledged, pulse, held>>
InterruptedInSleep(t) ==
    /\ pc[t] = "sleep" /\ "interrupt" \in Exceptions
    /\ RemoveFromReadyList(mon[t])
    /\ Leave(t)
    /\ UNCHANGED <<lock, semaphore, threadAborted, flushAcknowledged, pulse,
                  held>>

\* A timed semaphore wait gives up; the last waiter tries to take the monitor.
TimeOut(t) ==
    /\ pc[t] = "sleep" /\ timeout[t] = "timed"
    /\ RemoveFromReadyList(mon[t])
    /\ Goto(t, IF numThreadsWaitingForSemaphore[mon[t]] = 1
               THEN "lastWaiter" ELSE "timeoutAck")
    /\ UNCHANGED <<lock, semaphore, threadAborted, flushAcknowledged, pulse,
                  frame>>
LastWaiterChecks(t) ==
    /\ pc[t] = "lastWaiter"
    /\ Goto(t, IF monitor[obj[t]] = mon[t] THEN "timeoutGrab" ELSE "timeoutAck")
    /\ UNCHANGED <<lock, ready, pulse, frame>>
LastWaiterAcquires(t) ==
    /\ pc[t] = "timeoutGrab"
    /\ \/ TryAcquire(t, mon[t]) /\ EnterSucceeds(t)
       \/ CannotAcquire(mon[t]) /\ Goto(t, "timeoutAck") /\ UNCHANGED frame
    /\ UNCHANGED <<monitor, recursiveLockingCount, freeList, ready, pulse>>
AcknowledgeTimeout(t) ==
    /\ pc[t] = "timeoutAck"
    /\ flushAcknowledged' = [flushAcknowledged EXCEPT
                               ![mon[t]] = @ \/ monitor[obj[t]] # mon[t]]
    /\ EnterFails(t)
    /\ UNCHANGED <<lock, numThreadsWaitingForSemaphore, semaphore,
                  threadAborted, pulse>>

----------------------------------------------------------------------------
(* Exit *)

CallExit(t, o) ==
    /\ pc[t] = "idle" /\ LockedByCurrentThread(t, o)
    /\ held' = [held EXCEPT ![t][o] = IF @ = 0 THEN 0 ELSE @ - 1]
    /\ \/ /\ recursiveLockingCount[monitor[o]] > 1
          /\ recursiveLockingCount' = [recursiveLockingCount EXCEPT ![monitor[o]] = @ - 1]
          /\ UNCHANGED <<pc, obj, mon>>
       \/ /\ recursiveLockingCount[monitor[o]] = 1
          /\ Goto(t, "exitCheck")
          /\ obj' = [obj EXCEPT ![t] = o]
          /\ mon' = [mon EXCEPT ![t] = monitor[o]]
          /\ UNCHANGED recursiveLockingCount
    /\ UNCHANGED <<monitor, owningThreadId, freeList, ready, pulse, timeout,
                  savedCount>>

\* Mutant: threads waiting for a pulse are forgotten.
ChooseReleaseByReadyList(t) ==
    /\ pc[t] = "exitCheck"
    /\ Goto(t, IF numThreadsWaitingForSemaphore[mon[t]] # 0
               THEN "unacquirePost" ELSE "deflate")
    /\ UNCHANGED <<lock, ready, pulse, frame>>
\* Who is interested: threads on the ready list, threads waiting for a pulse?
ChooseRelease(t) ==
    /\ \/ /\ pc[t] = "exitCheck"
          /\ Goto(t, IF numThreadsWaitingForSemaphore[mon[t]] # 0
                     THEN "unacquirePost" ELSE "exitPulse")
       \/ /\ pc[t] = "exitPulse"
          /\ Goto(t, IF threadsWaitingForPulse[mon[t]] # <<>>
                     THEN "unacquireRecheck" ELSE "deflate")
    /\ UNCHANGED <<lock, ready, pulse, frame>>

Release(t) ==
    /\ pc[t] \in {"unacquirePost", "unacquireRecheck"}
    /\ Unacquire(mon[t])
    /\ Goto(t, IF pc[t] = "unacquirePost" THEN "post" ELSE "repost")
    /\ UNCHANGED <<monitor, recursiveLockingCount, freeList, ready, pulse,
                  frame>>

\* Mutant: no second look at the ready list.
RecheckNothing(t) ==
    /\ pc[t] = "repost"
    /\ ExitReturns(t)
    /\ UNCHANGED <<lock, ready, pulse>>
\* The double check after Unacquire: somebody may have joined in between.
RecheckReadyList(t) ==
    /\ pc[t] = "repost"
    /\ \/ numThreadsWaitingForSemaphore[mon[t]] # 0 /\ Goto(t, "post") /\ UNCHANGED frame
       \/ numThreadsWaitingForSemaphore[mon[t]] = 0 /\ ExitReturns(t)
    /\ UNCHANGED <<lock, ready, pulse>>

SignalNext(t) ==
    /\ pc[t] = "post"
    /\ Post(mon[t], 1)
    /\ ExitReturns(t)
    /\ UNCHANGED <<lock, numThreadsWaitingForSemaphore, threadAborted,
                  flushAcknowledged, pulse>>

\* Nobody seems interested: detach the monitor from the object.
Deflate(t) ==
    /\ pc[t] = "deflate"
    /\ monitor' = [monitor EXCEPT ![obj[t]] = NoMonitor]
    /\ flushAcknowledged' = [flushAcknowledged EXCEPT ![mon[t]] = FALSE]
    /\ Goto(t, "flush")
    /\ UNCHANGED <<owningThreadId, recursiveLockingCount, freeList,
                  numThreadsWaitingForSemaphore, semaphore, threadAborted,
                  pulse, frame>>

\* Kick the threads that joined too late off the dying monitor, and wait up to
\* a millisecond for one of them to acknowledge; the outcome of that wait is
\* not looked at, and either way the event ends up reset.
KickWaiters(t) ==
    /\ pc[t] = "flush" /\ numThreadsWaitingForSemaphore[mon[t]] # 0
    /\ Post(mon[t], numThreadsWaitingForSemaphore[mon[t]])
    /\ Goto(t, "flushWait")
    /\ UNCHANGED <<lock, numThreadsWaitingForSemaphore, threadAborted,
                  flushAcknowledged, pulse, frame>>
AwaitAcknowledge(t) ==
    /\ pc[t] = "flushWait"
    /\ flushAcknowledged' = [flushAcknowledged EXCEPT ![mon[t]] = FALSE]
    /\ Goto(t, "flush")
    /\ UNCHANGED <<lock, numThreadsWaitingForSemaphore, semaphore,
                  threadAborted, pulse, frame>>

\* Mutant: the monitor is recycled before the last thread is off.
ReturnToFreeListEarly(t) ==
    /\ pc[t] = "flush"
    /\ owningThreadId' = [owningThreadId EXCEPT ![mon[t]] = OnFreeList]
    /\ freeList' = freeList \cup {mon[t]}
    /\ ExitReturns(t)
    /\ UNCHANGED <<monitor, recursiveLockingCount, ready, pulse>>
\* All threads are off: the monitor goes back to the free list.
ReturnToFreeList(t) ==
    /\ pc[t] = "flush" /\ numThreadsWaitingForSemaphore[mon[t]] = 0
    /\ owningThreadId' = [owningThreadId EXCEPT ![mon[t]] = OnFreeList]
    /\ freeList' = freeList \cup {mon[t]}
    /\ ExitReturns(t)
    /\ UNCHANGED <<monitor, recursiveLockingCount, ready, pulse>>

----------------------------------------------------------------------------
(* Wait and Pulse *)

\* TryWait up to and including the recursion test of the Exit it calls.  A wait
\* node comes with its event reset.  A thread whose wait node was left behind on
\* a list does not wait again: that bounds the nodes to one per thread.
CallTryWait(t, o, ms) ==
    /\ pc[t] = "idle" /\ LockedByCurrentThread(t, o)
    /\ \A m \in Monitors : t \notin ToSet(threadsWaitingForPulse[m])
    /\ savedCount' = [savedCount EXCEPT ![t] = recursiveLockingCount[monitor[o]]]
    /\ recursiveLockingCount' = [recursiveLockingCount EXCEPT ![monitor[o]] = 1]
    /\ threadsWaitingForPulse' =
          IF ms = "zero" THEN threadsWaitingForPulse
          ELSE [threadsWaitingForPulse EXCEPT ![monitor[o]] = <<t>> \o @]
    /\ obj' = [obj EXCEPT ![t] = o]
    /\ mon' = [mon EXCEPT ![t] = monitor[o]]
    /\ timeout' = [timeout EXCEPT ![t] = ms]
    /\ signalWaitingThread' = [signalWaitingThread EXCEPT ![t] = FALSE]
    /\ held' = [held EXCEPT ![t][o] = 0]
    /\ Goto(t, "exitCheck")
    /\ UNCHANGED <<monitor, owningThreadId, freeList, ready>>

\* The wait for the pulse ends, for whatever reason, and Enter is called.
StopWaiting(t) ==
    /\ pc[t] = "pulseWait"
    /\ \/ /\ signalWaitingThread[t]
          /\ signalWaitingThread' = [signalWaitingThread EXCEPT ![t] = FALSE]
       \/ /\ timeout[t] = "timed" \/ Exceptions # {}
          /\ UNCHANGED signalWaitingThread
    /\ Goto(t, "read")
    /\ timeout' = [timeout EXCEPT ![t] = "infinite"]
    /\ UNCHANGED <<lock, ready, threadsWaitingForPulse, obj, mon, savedCount,
                  held>>

\* MonitorData::RemoveFromPulseWaitingList.
Unlink(list, t) ==
    IF t \in ToSet(list)
    THEN RemoveAt(list, CHOOSE i \in DOMAIN list : list[i] = t)
    ELSE list

\* Mutant: the recursion count stays as Enter left it.
RestoreNothing(t) ==
    /\ pc[t] = "restore"
    /\ threadsWaitingForPulse' =
          [threadsWaitingForPulse EXCEPT ![monitor[obj[t]]] = Unlink(@, t)]
    /\ signalWaitingThread' = [signalWaitingThread EXCEPT ![t] = FALSE]
    /\ held' = [held EXCEPT ![t][obj[t]] = savedCount[t]]
    /\ Leave(t)
    /\ UNCHANGED <<lock, ready>>
\* Back in TryWait with the lock: restore the count, clean up the wait node.
RestoreCount(t) ==
    /\ pc[t] = "restore"
    /\ recursiveLockingCount' =
          [recursiveLockingCount EXCEPT ![monitor[obj[t]]] = savedCount[t]]
    /\ threadsWaitingForPulse' =
          [threadsWaitingForPulse EXCEPT ![monitor[obj[t]]] = Unlink(@, t)]
    /\ signalWaitingThread' = [signalWaitingThread EXCEPT ![t] = FALSE]
    /\ held' = [held EXCEPT ![t][obj[t]] = savedCount[t]]
    /\ Leave(t)
    /\ UNCHANGED <<monitor, owningThreadId, freeList, ready>>

\* Mutant: the pulsed node stays on the list.
PulseInPlace(t, o) ==
    /\ pc[t] = "idle" /\ LockedByCurrentThread(t, o)
    /\ threadsWaitingForPulse[monitor[o]] # <<>>
    /\ signalWaitingThread' =
          [signalWaitingThread EXCEPT ![Head(threadsWaitingForPulse[monitor[o]])] = TRUE]
    /\ UNCHANGED <<lock, ready, threadsWaitingForPulse, pc, frame>>
\* Pulse takes the head of the list, PulseAll takes the nodes one by one.
Pulse(t, o) ==
    /\ pc[t] = "idle" /\ LockedByCurrentThread(t, o)
    /\ threadsWaitingForPulse[monitor[o]] # <<>>
    /\ signalWaitingThread' =
          [signalWaitingThread EXCEPT ![Head(threadsWaitingForPulse[monitor[o]])] = TRUE]
    /\ threadsWaitingForPulse' = [threadsWaitingForPulse EXCEPT ![monitor[o]] = Tail(@)]
    /\ UNCHANGED <<lock, ready, pc, frame>>
PulseAll(t, o) ==
    /\ pc[t] = "idle" /\ LockedByCurrentThread(t, o)
    /\ threadsWaitingForPulse[monitor[o]] # <<>>
    /\ signalWaitingThread' =
          [u \in Threads |-> signalWaitingThread[u]
                             \/ u \in ToSet(threadsWaitingForPulse[monitor[o]])]
    /\ threadsWaitingForPulse' = [threadsWaitingForPulse EXCEPT ![monitor[o]] = <<>>]
    /\ UNCHANGED <<lock, ready, pc, frame>>

----------------------------------------------------------------------------
Init ==
    /\ monitor = [o \in Objects |-> NoMonitor]
    /\ owningThreadId = [m \in Monitors |-> OnFreeList]
    /\ threadAborted = [m \in Monitors |-> FALSE]
    /\ recursiveLockingCount = [m \in Monitors |-> 1]
    /\ semaphore = [m \in Monitors |-> 0]
    /\ numThreadsWaitingForSemaphore = [m \in Monitors |-> 0]
    /\ flushAcknowledged = [m \in Monitors |-> FALSE]
    /\ threadsWaitingForPulse = [m \in Monitors |-> <<>>]
    /\ signalWaitingThread = [t \in Threads |-> FALSE]
    /\ freeList = Monitors
    /\ pc = [t \in Threads |-> "idle"]
    /\ obj = [t \in Threads |-> NoObject]
    /\ mon = [t \in Threads |-> NoMonitor]
    /\ timeout = [t \in Threads |-> "zero"]
    /\ savedCount = [t \in Threads |-> 0]
    /\ held = [t \in Threads |-> [o \in Objects |-> 0]]

EnterStep(t) ==
    \/ AllocateMonitor(t) \/ InstallMonitor(t) \/ LoseInstall(t) \/ ReadMonitor(t)
    \/ EnterRecursively(t) \/ AcquireFree(t) \/ ConfirmAcquire(t) \/ UndoAcquire(t)
    \/ FindLocked(t) \/ JoinReadyList(t) \/ CheckStillInstalled(t)
    \/ VacateDyingMonitor(t) \/ AcquireAsWaiter(t) \/ FailAsWaiter(t) \/ Awake(t)
    \/ LastWaiterChecks(t) \/ LastWaiterAcquires(t) \/ AcknowledgeTimeout(t)

ExitStep(t) ==
    \/ ChooseRelease(t) \/ Release(t) \/ RecheckReadyList(t) \/ SignalNext(t)
    \/ Deflate(t) \/ KickWaiters(t) \/ AwaitAcknowledge(t) \/ ReturnToFreeList(t)

\* What only time or another thread's APC makes happen.
OutsideEvent(t) == AbortedInSleep(t) \/ InterruptedInSleep(t) \/ TimeOut(t)

\* What managed code is free to call.
ManagedCall(t) ==
    \E o \in Objects :
       \/ \E ms \in EnterTimeouts : CallTryEnter(t, o, ms)
       \/ \E ms \in WaitTimeouts : CallTryWait(t, o, ms)
       \/ CallExit(t, o) \/ Pulse(t, o) \/ PulseAll(t, o)

Next == \E t \in Threads :
           \/ EnterStep(t) \/ ExitStep(t) \/ OutsideEvent(t)
           \/ StopWaiting(t) \/ RestoreCount(t) \/ ManagedCall(t)

Spec == Init /\ [][Next]_vars

----------------------------------------------------------------------------
(* Properties *)

\* Types; in particular no thread is counted out of a ready list that it was
\* never counted into, so numThreadsWaitingForSemaphore does not underflow.
TypeOK ==
    /\ monitor \in [Objects -> Monitors \cup {NoMonitor}]
    /\ owningThreadId \in [Monitors -> Threads \cup {Available, OnFreeList}]
    /\ threadAborted \in [Monitors -> BOOLEAN]
    /\ recursiveLockingCount \in [Monitors -> Nat \ {0}]
    /\ semaphore \in [Monitors -> 0 .. SemaphoreMax]
    /\ numThreadsWaitingForSemaphore \in [Monitors -> Nat]
    /\ flushAcknowledged \in [Monitors -> BOOLEAN]
    /\ threadsWaitingForPulse \in [Monitors -> Seq(Threads)]
    /\ signalWaitingThread \in [Threads -> BOOLEAN]
    /\ freeList \subseteq Monitors
    /\ pc \in [Threads -> PCs]
    /\ obj \in [Threads -> Objects \cup {NoObject}]
    /\ mon \in [Threads -> Monitors \cup {NoMonitor}]
    /\ timeout \in [Threads -> Timeouts]
    /\ savedCount \in [Threads -> Nat]
    /\ held \in [Threads -> [Objects -> Nat]]

\* Two threads never both believe that they have an object locked.
MutualExclusion ==
    \A t, u \in Threads, o \in Objects :
       held[t][o] > 0 /\ held[u][o] > 0 => t = u

\* What a caller of Enter counts on: the object carries a monitor, the caller
\* owns it, and its recursion count is the number of Exits still to come.
HeldIsOwned ==
    \A t \in Threads, o \in Objects :
       held[t][o] > 0 =>
          /\ monitor[o] # NoMonitor
          /\ owningThreadId[monitor[o]] = t
          /\ recursiveLockingCount[monitor[o]] = held[t][o]

\* Recycling is safe: a monitor serves one object at a time, and one that is on
\* the free list has no owner, no object and nobody waiting for a pulse on it.
RecyclingIsSafe ==
    /\ \A o, p \in Objects : monitor[o] = monitor[p] /\ monitor[o] # NoMonitor => o = p
    /\ \A m \in freeList : /\ owningThreadId[m] = OnFreeList
                           /\ threadsWaitingForPulse[m] = <<>>
                           /\ \A o \in Objects : monitor[o] # m

\* A thread blocked on the semaphore of a monitor that is free for the taking
\* is about to be woken: a token is there or is on its way, or another thread
\* of the ready list is awake and will take the monitor.  A native abort, part
\* of a shutdown, voids the promise for the monitor it happened on.
NoLostWakeup ==
    \A t \in Threads :
       pc[t] = "sleep" /\ owningThreadId[mon[t]] = Available /\ ~threadAborted[mon[t]] =>
          \/ semaphore[mon[t]] > 0
          \/ \E u \in Threads : mon[u] = mon[t]
                                /\ pc[u] \in {"post", "repost", "loop", "grab"}

\* A thread waiting for a pulse that has not come is on the list of the monitor
\* that its object carries now, where the next Pulse will find it: an object
\* with waiters is never deflated.
WaitersCanBePulsed ==
    \A t \in Threads :
       pc[t] = "pulseWait" /\ ~signalWaitingThread[t] =>
          /\ monitor[obj[t]] # NoMonitor
          /\ t \in ToSet(threadsWaitingForPulse[monitor[obj[t]]])

\* Monitor.Wait gives control back only with the lock held as often as before.
WaitReturnsLocked ==
    [][\A t \in Threads : savedCount[t] # 0 /\ savedCount'[t] = 0
                             => held'[t][obj[t]] = savedCount[t]]_vars

\* The assertions that follow every successful TryAcquire in TryEnter: a thread
\* that keeps what it acquired acquired the monitor of the object it asked for.
AcquiredIsInstalled ==
    [][\A t \in Threads, m \in Monitors :
          /\ mon[t] = m /\ owningThreadId[m] = Available
          /\ owningThreadId'[m] = t /\ pc'[t] # "recheck"
          => monitor[obj[t]] = m]_vars

\* The callers' view: Monitor implements the locks of ManagedMonitor.  A wait
\* list belongs to the object and survives as long as the object's monitor.
Promise == INSTANCE ManagedMonitor WITH
    waitsOn <- [t \in Threads |-> IF savedCount[t] = 0 THEN NoObject ELSE obj[t]],
    waitList <- [o \in Objects |-> IF monitor[o] = NoMonitor THEN <<>>
                                   ELSE threadsWaitingForPulse[monitor[o]]],
    MayGiveUp <- WaitTimeouts # {"infinite"} \/ Exceptions # {}
ImplementsPromise == Promise!Spec

\* Fairness: the scheduler runs every thread that has something to do.  Managed
\* code need not call anything, and no timeout need expire.
Scheduled(t) == EnterStep(t) \/ ExitStep(t) \/ RestoreCount(t)
FairSpec == Spec /\ \A t \in Threads : WF_vars(Scheduled(t))

\* Exit returns, even when it has to chase threads off a dying monitor first.
ExitTerminates ==
    \A t \in Threads : pc[t] \in ExitPCs ~> pc[t] \notin ExitPCs

\* While threads wait to enter an object, some thread gets to lock it, unless
\* all of them give up: no object is free and waited for ever after.
Entering(o) == \E t \in Threads : pc[t] \in EnterPCs /\ obj[t] = o
SomeoneEnters ==
    \A o \in Objects :
       Entering(o) ~> (\E u \in Threads : held[u][o] > 0) \/ ~Entering(o)

============================================================================
