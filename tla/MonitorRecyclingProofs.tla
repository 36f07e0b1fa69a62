----------------------- MODULE MonitorRecyclingProofs -----------------------
(***************************************************************************)
(* Theorems about Monitor that hold for every timeout and every exception: *)
(* recycling never goes wrong, and only one step loses wakeups.  The       *)
(* invariant behind them says nothing of the locks that threads believe    *)
(* they hold, which timed TryEnters and native aborts do break.            *)
(***************************************************************************)
EXTENDS MonitorProofs

StepOf(t) ==
    \/ EnterStep(t) \/ ExitStep(t) \/ OutsideEvent(t)
    \/ StopWaiting(t) \/ RestoreCount(t) \/ ManagedCall(t)

----------------------------------------------------------------------------
(* What a step changes *)

\* A step of one thread leaves the locals of all others alone.
LEMMA OthersKeepLocals ==
  ASSUME FrameOK, NEW t \in Threads, StepOf(t), NEW u \in Threads \ {t}
  PROVE  /\ pc'[u] = pc[u] /\ obj'[u] = obj[u] /\ mon'[u] = mon[u]
         /\ timeout'[u] = timeout[u] /\ savedCount'[u] = savedCount[u] /\ held'[u] = held[u]
<1> USE DEF FrameOK, Goto, Leave, frame
<1>1. CASE EnterStep(t)
  <2>1. CASE InstallMonitor(t) \/ EnterRecursively(t) \/ ConfirmAcquire(t) \/ AcquireAsWaiter(t)
    BY <2>1 DEF InstallMonitor, EnterRecursively, ConfirmAcquire, AcquireAsWaiter, EnterSucceeds
  <2>2. CASE LastWaiterAcquires(t)
    BY <2>2 DEF LastWaiterAcquires, EnterSucceeds
  <2>3. CASE FindLocked(t) \/ AcknowledgeTimeout(t)
    BY <2>3 DEF FindLocked, AcknowledgeTimeout, EnterFails
  <2>4. CASE AllocateMonitor(t) \/ LoseInstall(t) \/ ReadMonitor(t) \/ UndoAcquire(t)
             \/ VacateDyingMonitor(t)
    BY <2>4 DEF AllocateMonitor, LoseInstall, ReadMonitor, UndoAcquire, VacateDyingMonitor
  <2>5. CASE AcquireFree(t) \/ JoinReadyList(t) \/ CheckStillInstalled(t) \/ FailAsWaiter(t)
             \/ Awake(t) \/ LastWaiterChecks(t)
    BY <2>5 DEF AcquireFree, JoinReadyList, CheckStillInstalled, FailAsWaiter, Awake, LastWaiterChecks
  <2> QED BY <1>1, <2>1, <2>2, <2>3, <2>4, <2>5 DEF EnterStep
<1>2. CASE ExitStep(t)
  <2>1. CASE ExitReturns(t)
    BY <2>1 DEF ExitReturns
  <2>2. CASE ChooseRelease(t) \/ Release(t) \/ Deflate(t) \/ KickWaiters(t) \/ AwaitAcknowledge(t)
    BY <2>2 DEF ChooseRelease, Release, Deflate, KickWaiters, AwaitAcknowledge
  <2>3. CASE RecheckReadyList(t) \/ SignalNext(t) \/ ReturnToFreeList(t)
    BY <2>1, <2>3 DEF RecheckReadyList, SignalNext, ReturnToFreeList
  <2> QED BY <1>2, <2>2, <2>3 DEF ExitStep
<1>3. CASE OutsideEvent(t)
  BY <1>3 DEF OutsideEvent, AbortedInSleep, InterruptedInSleep, TimeOut
<1>4. CASE StopWaiting(t) \/ RestoreCount(t)
  BY <1>4 DEF StopWaiting, RestoreCount
<1>5. CASE ManagedCall(t)
  <2>1. PICK o \in Objects :
           \/ \E ms \in EnterTimeouts : CallTryEnter(t, o, ms)
           \/ \E ms \in WaitTimeouts : CallTryWait(t, o, ms)
           \/ CallExit(t, o) \/ Pulse(t, o) \/ PulseAll(t, o)
    BY <1>5 DEF ManagedCall
  <2>2. CASE \E ms \in EnterTimeouts : CallTryEnter(t, o, ms)
    BY <2>2 DEF CallTryEnter
  <2>3. CASE \E ms \in WaitTimeouts : CallTryWait(t, o, ms)
    BY <2>3 DEF CallTryWait
  <2>4. CASE CallExit(t, o)
    BY <2>4 DEF CallExit
  <2>5. CASE Pulse(t, o) \/ PulseAll(t, o)
    BY <2>5 DEF Pulse, PulseAll
  <2> QED BY <2>1, <2>2, <2>3, <2>4, <2>5
<1> QED BY <1>1, <1>2, <1>3, <1>4, <1>5 DEF StepOf

----------------------------------------------------------------------------
(* What changes pulse waiting lists, objects, owners and the free list *)

LEMMA ToSetOfSeq ==
  ASSUME NEW S, NEW s \in Seq(S), NEW x
  PROVE  x \in ToSet(s) <=> \E i \in 1 .. Len(s) : s[i] = x
<1>1. DOMAIN s = 1 .. Len(s)
  BY LenProperties
<1> QED BY <1>1 DEF ToSet

LEMMA EmptyList ==
  ASSUME NEW x
  PROVE  x \notin ToSet(<<>>)
<1>1. <<>> \in Seq(Threads) /\ Len(<<>>) = 0
  BY EmptySeq
<1>2. x \in ToSet(<<>>) <=> \E i \in 1 .. Len(<<>>) : <<>>[i] = x
  BY <1>1, ToSetOfSeq
<1> QED BY <1>1, <1>2

Waits(t) == \E o \in Objects, ms \in WaitTimeouts : CallTryWait(t, o, ms)
Pulses(t) == \E o \in Objects : Pulse(t, o) \/ PulseAll(t, o)

\* Only a few actions touch pulse waiting lists and the events in wait nodes.
LEMMA PulseSteps ==
  ASSUME NEW t \in Threads, StepOf(t)
  PROVE  /\ UNCHANGED threadsWaitingForPulse \/ RestoreCount(t) \/ Waits(t) \/ Pulses(t)
         /\ UNCHANGED signalWaitingThread \/ StopWaiting(t) \/ RestoreCount(t) \/ Waits(t) \/ Pulses(t)
<1> USE DEF pulse
<1>1. CASE EnterStep(t)
  BY <1>1 DEF EnterStep, AllocateMonitor, InstallMonitor, LoseInstall, ReadMonitor, EnterRecursively,
     AcquireFree, ConfirmAcquire, UndoAcquire, FindLocked, JoinReadyList, CheckStillInstalled,
     VacateDyingMonitor, AcquireAsWaiter, FailAsWaiter, Awake, LastWaiterChecks, LastWaiterAcquires,
     AcknowledgeTimeout
<1>2. CASE ExitStep(t)
  BY <1>2 DEF ExitStep, ChooseRelease, Release, RecheckReadyList, SignalNext, Deflate, KickWaiters,
     AwaitAcknowledge, ReturnToFreeList
<1>3. CASE OutsideEvent(t)
  BY <1>3 DEF OutsideEvent, AbortedInSleep, InterruptedInSleep, TimeOut
<1>4. CASE StopWaiting(t)
  BY <1>4 DEF StopWaiting
<1>5. CASE ManagedCall(t)
  <2>1. PICK o \in Objects :
           \/ \E ms \in EnterTimeouts : CallTryEnter(t, o, ms)
           \/ \E ms \in WaitTimeouts : CallTryWait(t, o, ms)
           \/ CallExit(t, o) \/ Pulse(t, o) \/ PulseAll(t, o)
    BY <1>5 DEF ManagedCall
  <2>2. CASE CallExit(t, o) \/ \E ms \in EnterTimeouts : CallTryEnter(t, o, ms)
    BY <2>2 DEF CallExit, CallTryEnter
  <2> QED BY <2>1, <2>2 DEF Waits, Pulses
<1> QED BY <1>1, <1>2, <1>3, <1>4, <1>5 DEF StepOf

\* Only two actions inflate and deflate objects.
LEMMA InflationSteps ==
  ASSUME NEW t \in Threads, StepOf(t)
  PROVE  UNCHANGED monitor \/ InstallMonitor(t) \/ Deflate(t)
<1> USE DEF lock
<1>1. CASE EnterStep(t)
  BY <1>1 DEF EnterStep, AllocateMonitor, LoseInstall, ReadMonitor, EnterRecursively,
     AcquireFree, ConfirmAcquire, UndoAcquire, FindLocked, JoinReadyList, CheckStillInstalled,
     VacateDyingMonitor, AcquireAsWaiter, FailAsWaiter, Awake, LastWaiterChecks, LastWaiterAcquires,
     AcknowledgeTimeout
<1>2. CASE ExitStep(t)
  BY <1>2 DEF ExitStep, ChooseRelease, Release, RecheckReadyList, SignalNext, KickWaiters,
     AwaitAcknowledge, ReturnToFreeList
<1>3. CASE OutsideEvent(t) \/ StopWaiting(t) \/ RestoreCount(t)
  BY <1>3 DEF OutsideEvent, AbortedInSleep, InterruptedInSleep, TimeOut, StopWaiting, RestoreCount
<1>4. CASE ManagedCall(t)
  BY <1>4 DEF ManagedCall, CallTryEnter, CallTryWait, CallExit, Pulse, PulseAll
<1> QED BY <1>1, <1>2, <1>3, <1>4 DEF StepOf

LEMMA FreeListSteps ==
  ASSUME NEW t \in Threads, StepOf(t)
  PROVE  UNCHANGED freeList \/ AllocateMonitor(t) \/ LoseInstall(t) \/ ReturnToFreeList(t)
<1> USE DEF lock
<1>1. CASE EnterStep(t)
  BY <1>1 DEF EnterStep, InstallMonitor, ReadMonitor, EnterRecursively, AcquireFree,
     ConfirmAcquire, UndoAcquire, FindLocked, JoinReadyList, CheckStillInstalled,
     VacateDyingMonitor, AcquireAsWaiter, FailAsWaiter, Awake, LastWaiterChecks, LastWaiterAcquires,
     AcknowledgeTimeout
<1>2. CASE ExitStep(t)
  BY <1>2 DEF ExitStep, ChooseRelease, Release, RecheckReadyList, SignalNext, Deflate, KickWaiters,
     AwaitAcknowledge
<1>3. CASE OutsideEvent(t) \/ StopWaiting(t) \/ RestoreCount(t)
  BY <1>3 DEF OutsideEvent, AbortedInSleep, InterruptedInSleep, TimeOut, StopWaiting, RestoreCount
<1>4. CASE ManagedCall(t)
  BY <1>4 DEF ManagedCall, CallTryEnter, CallTryWait, CallExit, Pulse, PulseAll
<1> QED BY <1>1, <1>2, <1>3, <1>4 DEF StepOf

LEMMA AbortSteps ==
  ASSUME NEW t \in Threads, StepOf(t)
  PROVE  UNCHANGED threadAborted \/ AbortedInSleep(t)
<1> USE DEF ready
<1>1. CASE EnterStep(t)
  BY <1>1 DEF EnterStep, AllocateMonitor, InstallMonitor, LoseInstall, ReadMonitor, EnterRecursively,
     AcquireFree, ConfirmAcquire, UndoAcquire, FindLocked, JoinReadyList, CheckStillInstalled,
     VacateDyingMonitor, AcquireAsWaiter, FailAsWaiter, Awake, LastWaiterChecks, LastWaiterAcquires,
     AcknowledgeTimeout
<1>2. CASE ExitStep(t)
  BY <1>2 DEF ExitStep, ChooseRelease, Release, RecheckReadyList, SignalNext, Deflate, KickWaiters,
     AwaitAcknowledge, ReturnToFreeList
<1>3. CASE OutsideEvent(t) \/ StopWaiting(t) \/ RestoreCount(t)
  BY <1>3 DEF OutsideEvent, InterruptedInSleep, TimeOut, StopWaiting, RestoreCount
<1>4. CASE ManagedCall(t)
  BY <1>4 DEF ManagedCall, CallTryEnter, CallTryWait, CallExit, Pulse, PulseAll
<1> QED BY <1>1, <1>2, <1>3, <1>4 DEF StepOf

Takes(t) == AcquireFree(t) \/ AcquireAsWaiter(t) \/ LastWaiterAcquires(t)

\* The ways in which a step of thread t may change the owner of a monitor.
LEMMA OwnerSteps ==
  ASSUME HeapOK, FrameOK, NEW t \in Threads, StepOf(t), NEW m \in Monitors,
         owningThreadId'[m] # owningThreadId[m]
  PROVE  \/ AllocateMonitor(t) /\ m \in freeList /\ mon'[t] = m /\ owningThreadId'[m] = t
         \/ /\ mon[t] = m /\ owningThreadId'[m] = OnFreeList
            /\ LoseInstall(t) \/ ReturnToFreeList(t)
         \/ /\ mon[t] = m /\ owningThreadId'[m] = Available
            /\ Release(t) \/ UndoAcquire(t)
         \/ /\ mon[t] = m /\ owningThreadId[m] = Available /\ owningThreadId'[m] = t
            /\ Takes(t)
<1> USE DEF HeapOK, FrameOK, lock
<1>1. CASE EnterStep(t)
  <2>1. CASE AllocateMonitor(t)
    BY <2>1 DEF AllocateMonitor
  <2>2. CASE LoseInstall(t) \/ UndoAcquire(t)
    BY <2>2 DEF LoseInstall, UndoAcquire, Unacquire
  <2>3. CASE Takes(t)
    BY <2>3 DEF Takes, AcquireFree, AcquireAsWaiter, LastWaiterAcquires, TryAcquire, CannotAcquire
  <2>4. CASE InstallMonitor(t) \/ EnterRecursively(t) \/ ConfirmAcquire(t) \/ FindLocked(t)
    BY <2>4 DEF InstallMonitor, EnterRecursively, ConfirmAcquire, FindLocked, CannotAcquire
  <2>5. CASE \/ ReadMonitor(t) \/ VacateDyingMonitor(t) \/ JoinReadyList(t) \/ CheckStillInstalled(t)
             \/ FailAsWaiter(t) \/ Awake(t) \/ LastWaiterChecks(t) \/ AcknowledgeTimeout(t)
    BY <2>5 DEF ReadMonitor, VacateDyingMonitor, JoinReadyList, CheckStillInstalled, FailAsWaiter,
           CannotAcquire, Awake, LastWaiterChecks, AcknowledgeTimeout
  <2> QED BY <1>1, <2>1, <2>2, <2>3, <2>4, <2>5 DEF EnterStep, Takes
<1>2. CASE ExitStep(t)
  <2>1. CASE Release(t) \/ ReturnToFreeList(t)
    BY <2>1 DEF Release, ReturnToFreeList, Unacquire
  <2>2. CASE \/ ChooseRelease(t) \/ RecheckReadyList(t) \/ SignalNext(t) \/ Deflate(t) \/ KickWaiters(t)
             \/ AwaitAcknowledge(t)
    BY <2>2 DEF ChooseRelease, RecheckReadyList, SignalNext, Deflate, KickWaiters, AwaitAcknowledge
  <2> QED BY <1>2, <2>1, <2>2 DEF ExitStep
<1>3. ~(OutsideEvent(t) \/ StopWaiting(t) \/ RestoreCount(t))
  BY DEF OutsideEvent, AbortedInSleep, InterruptedInSleep, TimeOut, StopWaiting, RestoreCount
<1>4. ~ManagedCall(t)
  BY DEF ManagedCall, CallTryEnter, CallTryWait, CallExit, Pulse, PulseAll
<1> QED BY <1>1, <1>2, <1>3, <1>4 DEF StepOf

----------------------------------------------------------------------------
(* Recycling is safe, whatever timeouts, interrupts and aborts there are *)

\* A monitor on which an abort happened keeps a phantom on its ready list for
\* ever, so it is never deflated again; what its fields say no longer matters.
FreeIsClean ==
    \A m \in freeList : /\ owningThreadId[m] = OnFreeList /\ ~threadAborted[m]
                        /\ threadsWaitingForPulse[m] = <<>>
                        /\ \A o \in Objects : monitor[o] # m
AvailableIsCarried ==
    \A m \in Monitors : owningThreadId[m] = Available /\ ~threadAborted[m] =>
       \E o \in Objects : monitor[o] = m

\* A thread that has decided to dispose of a monitor, or has not shown it to
\* anybody yet, is the only one to do so.
DisposingPCs == PrivatePCs \cup {"exitPulse", "deflate"}
Disposes(t) ==
    /\ pc[t] \in PrivatePCs => mon[t] \notin freeList /\ \A o \in Objects : monitor[o] # mon[t]
    /\ pc[t] = "install" => ~threadAborted[mon[t]]
    /\ pc[t] \in {"exitPulse", "deflate"} => monitor[obj[t]] = mon[t]
    /\ pc[t] \in DisposingPCs =>
          \A u \in Threads \ {t} : mon[u] = mon[t] => pc[u] \notin DisposingPCs

\* Without an abort, the monitor that a thread works on is its own.
Owns(t) ==
    pc[t] \in {"recheck"} \cup OwningPCs \cup PrivatePCs /\ ~threadAborted[mon[t]] =>
       /\ owningThreadId[mon[t]] = t
       /\ pc[t] \in OwningPCs => monitor[obj[t]] = mon[t]
       /\ pc[t] = "recheck" => \E o \in Objects : monitor[o] = mon[t]
       /\ pc[t] \in {"deflate"} \cup PrivatePCs => threadsWaitingForPulse[mon[t]] = <<>>

RecycleInv ==
    /\ TypeInv /\ OneObject /\ FreeIsClean /\ AvailableIsCarried
    /\ \A t \in Threads : Disposes(t) /\ Owns(t) /\ Pinned(t)

\* Managed code that passes the ownership test owns the object's monitor, or an
\* abort has happened on it.
LEMMA LockedIsOwned ==
  ASSUME HeapOK, NEW t \in Threads, NEW o \in Objects, LockedByCurrentThread(t, o)
  PROVE  monitor[o] \in Monitors /\ (~threadAborted[monitor[o]] => owningThreadId[monitor[o]] = t)
BY DEF LockedByCurrentThread, HeapOK

\* A step of thread t puts waiters on a list only if it owns the monitor, or an
\* abort has happened on it.
LEMMA ListStaysEmpty ==
  ASSUME HeapOK, NEW t \in Threads, StepOf(t), NEW m \in Monitors, ~threadAborted[m],
         threadsWaitingForPulse[m] = <<>>,
         owningThreadId[m] # t \/ \A o \in Objects : monitor[o] # m
  PROVE  threadsWaitingForPulse'[m] = <<>>
<1>1. CASE RestoreCount(t)
  <2>1. Unlink(<<>>, t) = <<>>
    BY EmptyList DEF Unlink
  <2> QED BY <1>1, <2>1 DEF RestoreCount, HeapOK
<1>2. CASE Waits(t)
  <2>1. PICK o \in Objects, ms \in WaitTimeouts : CallTryWait(t, o, ms)
    BY <1>2 DEF Waits
  <2>2. monitor[o] # m
    BY <2>1, LockedIsOwned DEF CallTryWait
  <2> QED BY <2>1, <2>2 DEF CallTryWait, HeapOK
<1>3. CASE Pulses(t)
  <2>1. PICK o \in Objects : Pulse(t, o) \/ PulseAll(t, o)
    BY <1>3 DEF Pulses
  <2>2. monitor[o] # m
    BY <2>1, LockedIsOwned DEF Pulse, PulseAll
  <2> QED BY <2>1, <2>2 DEF Pulse, PulseAll, HeapOK
<1>4. CASE UNCHANGED threadsWaitingForPulse
  BY <1>4
<1> QED BY <1>1, <1>2, <1>3, <1>4, PulseSteps

\* What another thread owns stays its own.
LEMMA OwnedStays ==
  ASSUME RecycleInv, NEW t \in Threads, StepOf(t), NEW u \in Threads \ {t}, NEW m \in Monitors,
         ~threadAborted[m], owningThreadId[m] = u
  PROVE  /\ owningThreadId'[m] = u
         /\ threadsWaitingForPulse[m] = <<>> => threadsWaitingForPulse'[m] = <<>>
         /\ \A o \in Objects : monitor[o] = m => monitor'[o] = m
<1>0. HeapOK /\ FrameOK /\ FreeIsClean /\ LocalsOK(t) /\ Disposes(t) /\ Owns(t)
  BY DEF RecycleInv, TypeInv, FrameOK
<1>1. owningThreadId'[m] = u
  <2> SUFFICES ASSUME owningThreadId'[m] # owningThreadId[m] PROVE FALSE
    OBVIOUS
  <2>1. ~(AllocateMonitor(t) /\ m \in freeList)
    BY <1>0, OwnerAssumption DEF FreeIsClean
  <2>2. mon[t] = m => ~(LoseInstall(t) \/ ReturnToFreeList(t) \/ Release(t) \/ UndoAcquire(t))
    BY <1>0 DEF LoseInstall, ReturnToFreeList, Release, UndoAcquire, Owns, PrivatePCs, OwningPCs
  <2> QED BY <1>0, <2>1, <2>2, OwnerSteps, OwnerAssumption
<1>2. threadsWaitingForPulse[m] = <<>> => threadsWaitingForPulse'[m] = <<>>
  BY <1>0, ListStaysEmpty
<1>3. ASSUME NEW o \in Objects, monitor[o] = m PROVE monitor'[o] = m
  <2>1. CASE InstallMonitor(t)
    BY <1>0, <1>3, <2>1, NullAssumption DEF InstallMonitor, HeapOK
  <2>2. CASE Deflate(t)
    <3>1. pc[t] = "deflate" /\ monitor[obj[t]] = mon[t]
      BY <1>0, <2>2 DEF Deflate, Disposes
    <3>2. o # obj[t]
      BY <1>0, <1>3, <3>1 DEF Owns, OwningPCs
    <3> QED BY <1>0, <1>3, <2>2, <3>2 DEF Deflate, HeapOK
  <2> QED BY <1>3, <2>1, <2>2, InflationSteps
<1> QED BY <1>1, <1>2, <1>3

CustodyPCs == {"recheck"} \cup OwningPCs \cup PrivatePCs

\* The steps that bring a thread to work on a monitor, or keep it there.
LEMMA CustodySteps ==
  ASSUME FrameOK, NEW t \in Threads, StepOf(t), pc'[t] \in CustodyPCs
  PROVE  \/ AllocateMonitor(t) \/ AcquireFree(t) \/ Waits(t) \/ \E o \in Objects : CallExit(t, o)
         \/ ChooseRelease(t) \/ Deflate(t) \/ KickWaiters(t) \/ AwaitAcknowledge(t)
<1> USE DEF CustodyPCs, OwningPCs, PrivatePCs, FrameOK, Goto, Leave, frame
<1>1. CASE EnterStep(t)
  <2>1. ~(InstallMonitor(t) \/ EnterRecursively(t) \/ ConfirmAcquire(t) \/ AcquireAsWaiter(t))
    BY DEF InstallMonitor, EnterRecursively, ConfirmAcquire, AcquireAsWaiter, EnterSucceeds
  <2>2. ~(LastWaiterAcquires(t) \/ FindLocked(t) \/ AcknowledgeTimeout(t))
    BY DEF LastWaiterAcquires, FindLocked, AcknowledgeTimeout, EnterSucceeds, EnterFails
  <2>3. ~(LoseInstall(t) \/ ReadMonitor(t) \/ UndoAcquire(t) \/ VacateDyingMonitor(t))
    BY DEF LoseInstall, ReadMonitor, UndoAcquire, VacateDyingMonitor
  <2>4. ~(JoinReadyList(t) \/ CheckStillInstalled(t) \/ FailAsWaiter(t) \/ Awake(t) \/ LastWaiterChecks(t))
    BY DEF JoinReadyList, CheckStillInstalled, FailAsWaiter, Awake, LastWaiterChecks
  <2> QED BY <1>1, <2>1, <2>2, <2>3, <2>4 DEF EnterStep
<1>2. CASE ExitStep(t)
  <2>1. ~(Release(t) \/ RecheckReadyList(t) \/ SignalNext(t) \/ ReturnToFreeList(t))
    BY DEF Release, RecheckReadyList, SignalNext, ReturnToFreeList, ExitReturns
  <2> QED BY <1>2, <2>1 DEF ExitStep
<1>3. ~(OutsideEvent(t) \/ StopWaiting(t) \/ RestoreCount(t))
  BY DEF OutsideEvent, AbortedInSleep, InterruptedInSleep, TimeOut, StopWaiting, RestoreCount
<1>4. CASE ManagedCall(t)
  <2>1. \A o \in Objects : ~(Pulse(t, o) \/ PulseAll(t, o))
    BY DEF Pulse, PulseAll
  <2>2. \A o \in Objects, ms \in EnterTimeouts : ~CallTryEnter(t, o, ms)
    BY DEF CallTryEnter
  <2> QED BY <1>4, <2>1, <2>2 DEF ManagedCall, Waits
<1> QED BY <1>1, <1>2, <1>3, <1>4 DEF StepOf

\* A ready list that is empty has never seen an abort.
LEMMA EmptyIsUnaborted ==
  ASSUME TypeInv, NEW m \in Monitors, numThreadsWaitingForSemaphore[m] = 0
  PROVE  ~threadAborted[m]
<1>1. IsFiniteSet(Readers(m))
  BY FS_Subset, ThreadsAssumption DEF Readers
<1>2. Cardinality(Readers(m)) \in Nat
  BY <1>1, FS_CardinalityType
<1> QED BY <1>2 DEF TypeInv, Counted

\* An abort happens only on a monitor that an object carries or that is being
\* flushed.
LEMMA AbortIsPinned ==
  ASSUME RecycleInv, NEW t \in Threads, AbortedInSleep(t)
  PROVE  /\ mon[t] \notin freeList
         /\ \A u \in Threads : pc[u] = "install" => mon[u] # mon[t]
<1>0. FreeIsClean /\ Pinned(t) /\ LocalsOK(t) /\ \A u \in Threads : Disposes(u)
  BY DEF RecycleInv, TypeInv, FrameOK
<1>1. pc[t] = "sleep" /\ obj[t] \in Objects
  BY <1>0 DEF AbortedInSleep, LocalsOK
<1>2. CASE monitor[obj[t]] = mon[t]
  BY <1>0, <1>1, <1>2 DEF FreeIsClean, Disposes, PrivatePCs
<1>3. CASE \E w \in Threads : mon[w] = mon[t] /\ pc[w] \in {"flush", "flushWait"}
  <2>1. PICK w \in Threads : mon[w] = mon[t] /\ pc[w] \in {"flush", "flushWait"}
    BY <1>3
  <2>2. mon[t] \notin freeList
    BY <1>0, <2>1 DEF Disposes, PrivatePCs
  <2>3. \A u \in Threads : pc[u] = "install" => mon[u] # mon[t]
    BY <1>0, <2>1 DEF Disposes, PrivatePCs, DisposingPCs
  <2> QED BY <2>2, <2>3
<1> QED BY <1>0, <1>1, <1>2, <1>3 DEF Pinned

\* A thread that starts to dispose of a monitor is the first to do so.
LEMMA NewDisposal ==
  ASSUME RecycleInv, NEW t \in Threads, StepOf(t), pc'[t] \in DisposingPCs,
         NEW u \in Threads \ {t}, mon[u] = mon'[t]
  PROVE  pc[u] \notin DisposingPCs
<1> SUFFICES ASSUME pc[u] \in DisposingPCs PROVE FALSE
  OBVIOUS
<1>0. /\ TypeInv /\ HeapOK /\ FrameOK /\ FreeIsClean /\ Disposes(t) /\ Owns(t) /\ Disposes(u) /\ Owns(u)
      /\ LocalsOK(t) /\ LocalsOK(u)
  BY DEF RecycleInv, TypeInv, FrameOK
<1>1. ~AllocateMonitor(t)
  <2> SUFFICES ASSUME AllocateMonitor(t) PROVE FALSE
    OBVIOUS
  <2>1. mon[u] \in freeList
    BY <1>0 DEF AllocateMonitor, FrameOK
  <2>2. obj[u] \in Objects
    BY <1>0 DEF LocalsOK, DisposingPCs, PrivatePCs
  <2> QED BY <1>0, <2>1, <2>2 DEF FreeIsClean, Disposes, DisposingPCs
<1>2. ~(AcquireFree(t) \/ Waits(t) \/ \E o \in Objects : CallExit(t, o))
  BY <1>0 DEF AcquireFree, Waits, CallTryWait, CallExit, Goto, FrameOK, DisposingPCs, PrivatePCs
<1>3. ~(Deflate(t) \/ KickWaiters(t) \/ AwaitAcknowledge(t))
  BY <1>0 DEF Deflate, KickWaiters, AwaitAcknowledge, frame, Disposes, DisposingPCs, PrivatePCs
<1>4. ChooseRelease(t)
  BY <1>0, <1>1, <1>2, <1>3, CustodySteps DEF DisposingPCs, CustodyPCs, OwningPCs
<1>5. pc[t] = "exitCheck" /\ mon[u] = mon[t] /\ numThreadsWaitingForSemaphore[mon[t]] = 0
  BY <1>0, <1>4 DEF ChooseRelease, Goto, frame, FrameOK, Disposes, DisposingPCs, PrivatePCs
<1>6. mon[t] \in Monitors
  BY <1>0, <1>5 DEF LocalsOK, ExitPCs
<1>7. ~threadAborted[mon[t]]
  BY <1>0, <1>5, <1>6, EmptyIsUnaborted
<1>8. owningThreadId[mon[t]] = t
  BY <1>0, <1>5, <1>7 DEF Owns, OwningPCs
<1>9. owningThreadId[mon[u]] = u
  BY <1>0, <1>5, <1>7 DEF Owns, OwningPCs, DisposingPCs
<1> QED BY <1>5, <1>8, <1>9

\* No step takes another thread's monitor out of its hands.
LEMMA OthersDispose ==
  ASSUME RecycleInv, TypeInv', NEW t \in Threads, StepOf(t), NEW u \in Threads \ {t}
  PROVE  Disposes(u)'
<1>0. /\ TypeInv /\ HeapOK /\ FrameOK /\ FreeIsClean /\ Disposes(t) /\ Disposes(u)
      /\ LocalsOK(t) /\ LocalsOK(u)
  BY DEF RecycleInv, TypeInv, FrameOK
<1>1. \A v \in Threads \ {t} : pc'[v] = pc[v] /\ mon'[v] = mon[v] /\ obj'[v] = obj[v]
  BY <1>0, OthersKeepLocals
<1>2. ASSUME pc[u] \in PrivatePCs
      PROVE  mon[u] \notin freeList' /\ \A o \in Objects : monitor'[o] # mon[u]
  <2>1. mon[u] \in Monitors
    BY <1>0, <1>2 DEF LocalsOK, PrivatePCs, EnterPCs, ExitPCs
  <2>2. InstallMonitor(t) \/ LoseInstall(t) \/ ReturnToFreeList(t) => mon[t] # mon[u]
    BY <1>0, <1>2 DEF InstallMonitor, LoseInstall, ReturnToFreeList, Disposes, DisposingPCs, PrivatePCs
  <2>3. mon[u] \notin freeList'
    BY <1>0, <1>2, <2>2, FreeListSteps DEF AllocateMonitor, LoseInstall, ReturnToFreeList, Disposes
  <2>4. ASSUME NEW o \in Objects PROVE monitor'[o] # mon[u]
    <3>1. CASE InstallMonitor(t)
      BY <1>0, <1>2, <2>2, <3>1 DEF InstallMonitor, HeapOK, Disposes
    <3>2. CASE Deflate(t)
      BY <1>0, <1>2, <2>1, <3>2, NullAssumption DEF Deflate, HeapOK, Disposes
    <3> QED BY <1>0, <1>2, <3>1, <3>2, InflationSteps DEF Disposes
  <2> QED BY <2>3, <2>4
<1>3. pc[u] = "install" => ~threadAborted'[mon[u]]
  <2>1. CASE AbortedInSleep(t)
    BY <1>0, <2>1, AbortIsPinned DEF AbortedInSleep, HeapOK, Disposes, LocalsOK, EnterPCs
  <2> QED BY <1>0, <2>1, AbortSteps DEF Disposes
<1>4. ASSUME pc[u] \in {"exitPulse", "deflate"} PROVE monitor'[obj[u]] = mon[u]
  <2>1. monitor[obj[u]] = mon[u] /\ mon[u] \in Monitors /\ obj[u] \in Objects
    BY <1>0, <1>4 DEF Disposes, LocalsOK, ExitPCs
  <2>2. CASE InstallMonitor(t)
    BY <1>0, <2>1, <2>2, NullAssumption DEF InstallMonitor, HeapOK
  <2>3. CASE Deflate(t)
    <3>1. pc[t] = "deflate" /\ monitor[obj[t]] = mon[t]
      BY <1>0, <2>3 DEF Deflate, Disposes
    <3>2. obj[t] # obj[u]
      BY <1>0, <1>4, <2>1, <3>1 DEF Disposes, DisposingPCs
    <3> QED BY <1>0, <2>1, <2>3, <3>2 DEF Deflate, HeapOK
  <2> QED BY <2>1, <2>2, <2>3, InflationSteps
<1>5. ASSUME pc[u] \in DisposingPCs, NEW v \in Threads \ {u}, mon'[v] = mon[u]
      PROVE  pc'[v] \notin DisposingPCs
  <2>1. CASE v = t
    BY <1>5, <2>1, NewDisposal
  <2>2. CASE v # t
    BY <1>0, <1>1, <1>5, <2>2 DEF Disposes
  <2> QED BY <2>1, <2>2
<1> QED BY <1>1, <1>2, <1>3, <1>4, <1>5 DEF Disposes

LEMMA OthersOwn ==
  ASSUME RecycleInv, TypeInv', NEW t \in Threads, StepOf(t), NEW u \in Threads \ {t}
  PROVE  Owns(u)'
<1>0. HeapOK /\ FrameOK /\ Owns(u) /\ LocalsOK(u)
  BY DEF RecycleInv, TypeInv, FrameOK
<1>1. pc'[u] = pc[u] /\ mon'[u] = mon[u] /\ obj'[u] = obj[u]
  BY <1>0, OthersKeepLocals
<1> SUFFICES ASSUME pc[u] \in CustodyPCs, ~threadAborted'[mon[u]]
             PROVE  /\ owningThreadId'[mon[u]] = u
                    /\ pc[u] \in OwningPCs => monitor'[obj[u]] = mon[u]
                    /\ pc[u] = "recheck" => \E o \in Objects : monitor'[o] = mon[u]
                    /\ pc[u] \in {"deflate"} \cup PrivatePCs => threadsWaitingForPulse'[mon[u]] = <<>>
  BY <1>1 DEF Owns, CustodyPCs
<1>2. mon[u] \in Monitors /\ obj[u] \in Objects
  BY <1>0 DEF LocalsOK, CustodyPCs, OwningPCs, PrivatePCs, EnterPCs, ExitPCs
<1>3. ~threadAborted[mon[u]]
  BY <1>0, <1>2, AbortSteps DEF AbortedInSleep, HeapOK
<1>4. owningThreadId[mon[u]] = u
  BY <1>0, <1>3 DEF Owns, CustodyPCs
<1>5. /\ owningThreadId'[mon[u]] = u
      /\ threadsWaitingForPulse[mon[u]] = <<>> => threadsWaitingForPulse'[mon[u]] = <<>>
      /\ \A o \in Objects : monitor[o] = mon[u] => monitor'[o] = mon[u]
  BY <1>2, <1>3, <1>4, OwnedStays
<1> QED BY <1>0, <1>2, <1>3, <1>5 DEF Owns, CustodyPCs

\* Nor does a thread lose what it works on itself.
LEMMA SelfCustody ==
  ASSUME RecycleInv, TypeInv', NEW t \in Threads, StepOf(t)
  PROVE  Disposes(t)' /\ Owns(t)'
<1>0. /\ TypeInv /\ HeapOK /\ FrameOK /\ HeapOK' /\ OneObject /\ FreeIsClean /\ AvailableIsCarried
      /\ Disposes(t) /\ Owns(t) /\ LocalsOK(t)
  BY DEF RecycleInv, TypeInv, FrameOK
<1>1. \A u \in Threads \ {t} : pc'[u] = pc[u] /\ mon'[u] = mon[u]
  BY <1>0, OthersKeepLocals
<1>2. pc'[t] \in DisposingPCs =>
         \A u \in Threads \ {t} : mon'[u] = mon'[t] => pc'[u] \notin DisposingPCs
  BY <1>1, NewDisposal
<1> USE DEF Disposes, Owns, CustodyPCs, OwningPCs, PrivatePCs
<1>3. CASE pc'[t] \notin CustodyPCs
  BY <1>3 DEF DisposingPCs
<1>4. CASE AllocateMonitor(t)
  <2>1. PICK m \in freeList : /\ freeList' = freeList \ {m}
                              /\ owningThreadId' = [owningThreadId EXCEPT ![m] = t]
                              /\ mon' = [mon EXCEPT ![t] = m]
    BY <1>4 DEF AllocateMonitor
  <2>2. /\ m \in Monitors /\ pc'[t] = "install" /\ mon'[t] = m
        /\ UNCHANGED <<monitor, threadAborted, threadsWaitingForPulse>>
    BY <1>0, <1>4, <2>1 DEF AllocateMonitor, Goto, FrameOK, HeapOK, ready, pulse
  <2> QED BY <1>0, <1>2, <2>1, <2>2 DEF FreeIsClean, HeapOK
<1>5. CASE AcquireFree(t)
  <2>1. /\ pc'[t] = "recheck" /\ mon'[t] = mon[t] /\ mon[t] \in Monitors
        /\ owningThreadId[mon[t]] = Available /\ owningThreadId'[mon[t]] = t
        /\ UNCHANGED <<monitor, threadAborted>>
    BY <1>0, <1>5 DEF AcquireFree, TryAcquire, Goto, frame, ready, LocalsOK, EnterPCs, FrameOK, HeapOK
  <2> QED BY <1>0, <2>1 DEF AvailableIsCarried, DisposingPCs
<1>6. CASE (Waits(t) \/ \E o \in Objects : CallExit(t, o)) /\ pc'[t] \in CustodyPCs
  <2>1. PICK o \in Objects : CallExit(t, o) \/ \E ms \in WaitTimeouts : CallTryWait(t, o, ms)
    BY <1>6 DEF Waits
  <2>2. /\ LockedByCurrentThread(t, o) /\ pc'[t] = "exitCheck" /\ obj'[t] = o /\ mon'[t] = monitor[o]
        /\ UNCHANGED <<monitor, owningThreadId, threadAborted>>
    <3>1. CASE CallExit(t, o)
      BY <1>0, <1>6, <3>1 DEF CallExit, Goto, ready, FrameOK
    <3>2. CASE \E ms \in WaitTimeouts : CallTryWait(t, o, ms)
      BY <1>0, <3>2 DEF CallTryWait, Goto, ready, FrameOK
    <3> QED BY <2>1, <3>1, <3>2
  <2> QED BY <1>0, <2>2, LockedIsOwned DEF DisposingPCs
<1>7. CASE ChooseRelease(t)
  <2>1. /\ UNCHANGED <<monitor, owningThreadId, threadAborted, threadsWaitingForPulse, freeList>>
        /\ mon'[t] = mon[t] /\ obj'[t] = obj[t] /\ mon[t] \in Monitors
    BY <1>0, <1>7 DEF ChooseRelease, lock, ready, pulse, frame, LocalsOK, ExitPCs
  <2>2. CASE pc[t] = "exitCheck" /\ numThreadsWaitingForSemaphore[mon[t]] # 0
    <3>1. pc'[t] = "unacquirePost"
      BY <1>0, <1>7, <2>2 DEF ChooseRelease, Goto, FrameOK
    <3> QED BY <1>0, <2>1, <2>2, <3>1 DEF DisposingPCs
  <2>3. CASE pc[t] = "exitCheck" /\ numThreadsWaitingForSemaphore[mon[t]] = 0
    <3>1. pc'[t] = "exitPulse" /\ ~threadAborted[mon[t]]
      BY <1>0, <1>7, <2>1, <2>3, EmptyIsUnaborted DEF ChooseRelease, Goto, FrameOK
    <3> QED BY <1>0, <1>2, <2>1, <2>3, <3>1
  <2>4. CASE pc[t] = "exitPulse"
    <3>1. \/ pc'[t] = "unacquireRecheck"
          \/ pc'[t] = "deflate" /\ threadsWaitingForPulse[mon[t]] = <<>>
      BY <1>0, <1>7, <2>4 DEF ChooseRelease, Goto, FrameOK
    <3> QED BY <1>0, <1>2, <2>1, <2>4, <3>1 DEF DisposingPCs
  <2> QED BY <1>7, <2>2, <2>3, <2>4 DEF ChooseRelease
<1>8. CASE Deflate(t)
  <2>1. /\ pc[t] = "deflate" /\ pc'[t] = "flush" /\ mon'[t] = mon[t] /\ mon[t] \in Monitors
        /\ obj[t] \in Objects /\ monitor[obj[t]] = mon[t]
        /\ monitor' = [monitor EXCEPT ![obj[t]] = NoMonitor]
        /\ UNCHANGED <<owningThreadId, freeList, threadAborted, threadsWaitingForPulse>>
    BY <1>0, <1>8 DEF Deflate, Goto, pulse, frame, LocalsOK, ExitPCs, FrameOK
  <2>2. mon[t] \notin freeList
    BY <1>0, <2>1 DEF FreeIsClean
  <2>3. \A o \in Objects : monitor'[o] # mon[t]
    BY <1>0, <2>1, NullAssumption DEF OneObject, HeapOK
  <2> QED BY <1>0, <1>2, <2>1, <2>2, <2>3
<1>9. CASE KickWaiters(t) \/ AwaitAcknowledge(t)
  <2>1. /\ pc[t] \in {"flush", "flushWait"} /\ pc'[t] \in {"flush", "flushWait"}
        /\ mon'[t] = mon[t]
        /\ UNCHANGED <<monitor, owningThreadId, freeList, threadAborted, threadsWaitingForPulse>>
    BY <1>0, <1>9 DEF KickWaiters, AwaitAcknowledge, Goto, lock, pulse, frame, FrameOK
  <2> QED BY <1>0, <1>2, <2>1
<1> QED BY <1>0, <1>3, <1>4, <1>5, <1>6, <1>7, <1>8, <1>9, CustodySteps

\* The steps after which a thread counts on its monitor being pinned.
LEMMA PinningSteps ==
  ASSUME FrameOK, NEW t \in Threads, StepOf(t), pc'[t] \in {"loop", "grab", "sleep"}
  PROVE  CheckStillInstalled(t) \/ FailAsWaiter(t) \/ Awake(t)
<1> USE DEF FrameOK, Goto, Leave, frame
<1>1. CASE EnterStep(t)
  <2>1. ~(InstallMonitor(t) \/ EnterRecursively(t) \/ ConfirmAcquire(t) \/ AcquireAsWaiter(t))
    BY DEF InstallMonitor, EnterRecursively, ConfirmAcquire, AcquireAsWaiter, EnterSucceeds
  <2>2. ~(LastWaiterAcquires(t) \/ FindLocked(t) \/ AcknowledgeTimeout(t))
    BY DEF LastWaiterAcquires, FindLocked, AcknowledgeTimeout, EnterSucceeds, EnterFails
  <2>3. ~(AllocateMonitor(t) \/ LoseInstall(t) \/ ReadMonitor(t) \/ UndoAcquire(t)
          \/ VacateDyingMonitor(t))
    BY DEF AllocateMonitor, LoseInstall, ReadMonitor, UndoAcquire, VacateDyingMonitor
  <2>4. ~(AcquireFree(t) \/ JoinReadyList(t) \/ LastWaiterChecks(t))
    BY DEF AcquireFree, JoinReadyList, LastWaiterChecks
  <2> QED BY <1>1, <2>1, <2>2, <2>3, <2>4 DEF EnterStep
<1>2. ~ExitStep(t)
  BY DEF ExitStep, ChooseRelease, Release, RecheckReadyList, SignalNext, Deflate, KickWaiters,
     AwaitAcknowledge, ReturnToFreeList, ExitReturns
<1>3. ~(OutsideEvent(t) \/ StopWaiting(t) \/ RestoreCount(t))
  BY DEF OutsideEvent, AbortedInSleep, InterruptedInSleep, TimeOut, StopWaiting, RestoreCount
<1>4. ~ManagedCall(t)
  BY DEF ManagedCall, CallTryEnter, CallTryWait, CallExit, Pulse, PulseAll
<1> QED BY <1>1, <1>2, <1>3, <1>4 DEF StepOf

\* A thread that flushes goes on until the ready list is empty.
LEMMA FlushGoesOn ==
  ASSUME FrameOK, NEW t \in Threads, StepOf(t), pc[t] \in {"flush", "flushWait"}
  PROVE  \/ pc'[t] \in {"flush", "flushWait"} /\ mon'[t] = mon[t]
         \/ ReturnToFreeList(t)
<1>1. ExitStep(t)
  <2>1. ~EnterStep(t)
    BY DEF EnterStep, AllocateMonitor, InstallMonitor, LoseInstall, ReadMonitor, EnterRecursively,
       AcquireFree, ConfirmAcquire, UndoAcquire, FindLocked, JoinReadyList, CheckStillInstalled,
       VacateDyingMonitor, AcquireAsWaiter, FailAsWaiter, Awake, LastWaiterChecks, LastWaiterAcquires,
       AcknowledgeTimeout
  <2>2. ~(OutsideEvent(t) \/ StopWaiting(t) \/ RestoreCount(t) \/ ManagedCall(t))
    BY DEF OutsideEvent, AbortedInSleep, InterruptedInSleep, TimeOut, StopWaiting, RestoreCount,
       ManagedCall, CallTryEnter, CallTryWait, CallExit, Pulse, PulseAll
  <2> QED BY <2>1, <2>2 DEF StepOf
<1> QED
  BY <1>1 DEF ExitStep, ChooseRelease, Release, RecheckReadyList, SignalNext, Deflate, KickWaiters,
     AwaitAcknowledge, Goto, frame, FrameOK

LEMMA PinnedStays ==
  ASSUME RecycleInv, TypeInv', NEW t \in Threads, StepOf(t), NEW u \in Threads
  PROVE  Pinned(u)'
<1>0. /\ TypeInv /\ HeapOK /\ FrameOK /\ Disposes(t) /\ Pinned(u) /\ LocalsOK(u)
  BY DEF RecycleInv, TypeInv, FrameOK
<1>1. \A v \in Threads \ {t} : pc'[v] = pc[v] /\ mon'[v] = mon[v] /\ obj'[v] = obj[v]
  BY <1>0, OthersKeepLocals
<1> SUFFICES ASSUME pc'[u] \in {"loop", "grab", "sleep"}
             PROVE  \/ monitor'[obj'[u]] = mon'[u]
                    \/ \E v \in Threads : mon'[v] = mon'[u] /\ pc'[v] \in {"flush", "flushWait"}
  BY DEF Pinned
<1>2. CASE u = t
  <2>1. CheckStillInstalled(t) \/ FailAsWaiter(t) \/ Awake(t)
    BY <1>0, <1>2, PinningSteps
  <2>2. mon'[t] = mon[t] /\ obj'[t] = obj[t] /\ UNCHANGED monitor
        /\ pc[t] \in {"verify", "loop", "grab", "sleep"}
    BY <2>1 DEF CheckStillInstalled, FailAsWaiter, Awake, lock, frame
  <2>3. CASE pc[t] = "verify"
    BY <1>0, <1>2, <2>1, <2>2, <2>3 DEF CheckStillInstalled, FailAsWaiter, Awake, Goto, FrameOK
  <2>4. CASE pc[t] # "verify"
    BY <1>0, <1>1, <1>2, <2>2, <2>4 DEF Pinned
  <2> QED BY <2>3, <2>4
<1>3. CASE u # t
  <2>1. pc[u] \in {"loop", "grab", "sleep"} /\ mon'[u] = mon[u] /\ obj'[u] = obj[u]
        /\ mon[u] \in Monitors /\ obj[u] \in Objects
    BY <1>0, <1>1, <1>3 DEF LocalsOK, EnterPCs
  <2>2. CASE monitor[obj[u]] = mon[u]
    <3>1. CASE InstallMonitor(t)
      BY <1>0, <2>1, <2>2, <3>1, NullAssumption DEF InstallMonitor, HeapOK
    <3>2. CASE Deflate(t)
      <4>1. pc[t] = "deflate" /\ monitor[obj[t]] = mon[t] /\ pc'[t] = "flush" /\ mon'[t] = mon[t]
        BY <1>0, <3>2 DEF Deflate, Disposes, Goto, frame, FrameOK
      <4>2. CASE obj[t] = obj[u]
        BY <2>1, <2>2, <4>1, <4>2
      <4>3. CASE obj[t] # obj[u]
        BY <1>0, <2>1, <2>2, <3>2, <4>3 DEF Deflate, HeapOK
      <4> QED BY <4>2, <4>3
    <3> QED BY <2>1, <2>2, <3>1, <3>2, InflationSteps
  <2>3. CASE \E v \in Threads : mon[v] = mon[u] /\ pc[v] \in {"flush", "flushWait"}
    <3>1. PICK v \in Threads : mon[v] = mon[u] /\ pc[v] \in {"flush", "flushWait"}
      BY <2>3
    <3>2. ~(v = t /\ ReturnToFreeList(t))
      BY <1>0, <2>1, <3>1, CountedPositive DEF ReturnToFreeList, ReadyPCs
    <3>3. pc'[v] \in {"flush", "flushWait"} /\ mon'[v] = mon[v]
      BY <1>0, <1>1, <3>1, <3>2, FlushGoesOn
    <3> QED BY <2>1, <3>1, <3>3
  <2> QED BY <1>0, <2>1, <2>2, <2>3 DEF Pinned
<1> QED BY <1>2, <1>3

\* Objects never share a monitor.
LEMMA OneObjectStays ==
  ASSUME RecycleInv, NEW t \in Threads, StepOf(t)
  PROVE  OneObject'
<1>0. HeapOK /\ FrameOK /\ OneObject /\ Disposes(t)
  BY DEF RecycleInv, TypeInv
<1>1. CASE InstallMonitor(t)
  <2>1. \A o \in Objects : monitor[o] # mon[t]
    BY <1>0, <1>1 DEF InstallMonitor, Disposes, PrivatePCs
  <2> QED BY <1>0, <1>1, <2>1 DEF InstallMonitor, OneObject, HeapOK
<1>2. CASE Deflate(t)
  BY <1>0, <1>2 DEF Deflate, OneObject, HeapOK
<1>3. CASE UNCHANGED monitor
  BY <1>0, <1>3 DEF OneObject
<1> QED BY <1>1, <1>2, <1>3, InflationSteps

\* The free list stays clean: what is on it is left alone, and what comes back
\* to it is clean.
LEMMA FreeStaysClean ==
  ASSUME RecycleInv, TypeInv', NEW t \in Threads, StepOf(t)
  PROVE  FreeIsClean'
<1>0. /\ TypeInv /\ HeapOK /\ FrameOK /\ HeapOK' /\ FreeIsClean /\ Disposes(t) /\ Owns(t) /\ LocalsOK(t)
  BY DEF RecycleInv, TypeInv, FrameOK
<1> SUFFICES ASSUME NEW m \in Monitors, m \in freeList'
             PROVE  /\ owningThreadId'[m] = OnFreeList /\ ~threadAborted'[m]
                    /\ threadsWaitingForPulse'[m] = <<>>
                    /\ \A o \in Objects : monitor'[o] # m
  BY <1>0 DEF FreeIsClean, HeapOK
<1>1. CASE m \in freeList
  <2>0. /\ owningThreadId[m] = OnFreeList /\ ~threadAborted[m] /\ threadsWaitingForPulse[m] = <<>>
        /\ \A o \in Objects : monitor[o] # m
    BY <1>0, <1>1 DEF FreeIsClean
  <2>1. owningThreadId'[m] = OnFreeList
    <3> SUFFICES ASSUME owningThreadId'[m] # OnFreeList PROVE FALSE
      OBVIOUS
    <3>1. ~(AllocateMonitor(t) /\ mon'[t] = m)
      BY <1>0 DEF AllocateMonitor, FrameOK
    <3>2. ~(mon[t] = m /\ (Release(t) \/ UndoAcquire(t)))
      BY <1>0, <2>0, OwnerAssumption DEF Release, UndoAcquire, Owns, OwningPCs
    <3> QED BY <1>0, <2>0, <3>1, <3>2, OwnerSteps, OwnerAssumption
  <2>2. ~threadAborted'[m]
    <3>1. CASE AbortedInSleep(t)
      <4>1. mon[t] # m
        BY <1>1, <3>1, AbortIsPinned
      <4> QED BY <1>0, <2>0, <3>1, <4>1 DEF AbortedInSleep, HeapOK
    <3> QED BY <2>0, <3>1, AbortSteps
  <2>3. threadsWaitingForPulse'[m] = <<>>
    BY <1>0, <2>0, ListStaysEmpty
  <2>4. ASSUME NEW o \in Objects PROVE monitor'[o] # m
    <3>1. CASE InstallMonitor(t)
      BY <1>0, <1>1, <2>0, <3>1 DEF InstallMonitor, HeapOK, Disposes, PrivatePCs
    <3>2. CASE Deflate(t)
      BY <1>0, <2>0, <3>2, NullAssumption DEF Deflate, HeapOK
    <3> QED BY <2>0, <3>1, <3>2, InflationSteps
  <2> QED BY <2>1, <2>2, <2>3, <2>4
<1>2. CASE m \notin freeList
  <2>1. LoseInstall(t) \/ ReturnToFreeList(t)
    BY <1>2, FreeListSteps DEF AllocateMonitor
  <2>2. /\ m = mon[t] /\ pc[t] \in PrivatePCs /\ owningThreadId'[m] = OnFreeList
        /\ UNCHANGED <<monitor, threadAborted, threadsWaitingForPulse>>
    BY <1>0, <1>2, <2>1 DEF LoseInstall, ReturnToFreeList, ready, pulse, HeapOK, PrivatePCs
  <2>3. ~threadAborted[m]
    BY <1>0, <2>1, <2>2, EmptyIsUnaborted DEF LoseInstall, ReturnToFreeList, Disposes
  <2> QED BY <1>0, <2>2, <2>3 DEF Disposes, Owns
<1> QED BY <1>1, <1>2

\* Nobody lets go of a monitor that no object carries.
LEMMA AvailableStaysCarried ==
  ASSUME RecycleInv, TypeInv', NEW t \in Threads, StepOf(t)
  PROVE  AvailableIsCarried'
<1>0. /\ HeapOK /\ FrameOK /\ HeapOK' /\ AvailableIsCarried /\ Disposes(t) /\ Owns(t) /\ LocalsOK(t)
  BY DEF RecycleInv, TypeInv, FrameOK
<1> SUFFICES ASSUME NEW m \in Monitors, owningThreadId'[m] = Available, ~threadAborted'[m]
             PROVE  \E o \in Objects : monitor'[o] = m
  BY DEF AvailableIsCarried
<1>1. ~threadAborted[m]
  BY <1>0, AbortSteps DEF AbortedInSleep, HeapOK
<1>2. CASE owningThreadId[m] = Available
  <2>1. PICK o \in Objects : monitor[o] = m
    BY <1>0, <1>1, <1>2 DEF AvailableIsCarried
  <2>2. CASE InstallMonitor(t)
    BY <1>0, <2>1, <2>2, NullAssumption DEF InstallMonitor, HeapOK
  <2>3. CASE Deflate(t)
    <3>1. mon[t] # m
      BY <1>0, <1>1, <1>2, <2>3, OwnerAssumption DEF Deflate, Owns, OwningPCs
    <3>2. obj[t] # o
      BY <1>0, <2>1, <2>3, <3>1 DEF Deflate, Disposes
    <3> QED BY <1>0, <2>1, <2>3, <3>2 DEF Deflate, HeapOK
  <2> QED BY <2>1, <2>2, <2>3, InflationSteps
<1>3. CASE owningThreadId[m] # Available
  <2>1. mon[t] = m /\ (Release(t) \/ UndoAcquire(t))
    BY <1>0, <1>3, OwnerSteps, OwnerAssumption
  <2>2. CASE Release(t)
    <3>1. monitor[obj[t]] = m /\ obj[t] \in Objects /\ UNCHANGED monitor
      BY <1>0, <1>1, <2>1, <2>2 DEF Release, Owns, OwningPCs, LocalsOK
    <3> QED BY <3>1
  <2>3. CASE UndoAcquire(t)
    BY <1>0, <1>1, <2>1, <2>3 DEF UndoAcquire, Owns
  <2> QED BY <2>1, <2>2, <2>3
<1> QED BY <1>2, <1>3

LEMMA RecycleInvInit == Init => RecycleInv
<1> SUFFICES ASSUME Init PROVE RecycleInv
  OBVIOUS
<1>1. OneObject /\ FreeIsClean /\ AvailableIsCarried
  BY NullAssumption, OwnerAssumption DEF Init, OneObject, FreeIsClean, AvailableIsCarried
<1>2. ASSUME NEW t \in Threads PROVE Disposes(t) /\ Owns(t) /\ Pinned(t)
  BY DEF Init, Disposes, Owns, Pinned, DisposingPCs, OwningPCs, PrivatePCs
<1> QED BY <1>1, <1>2, TypeInvInit DEF RecycleInv

LEMMA RecycleInvNext == RecycleInv /\ [Next]_vars => RecycleInv'
<1> SUFFICES ASSUME RecycleInv, [Next]_vars PROVE RecycleInv'
  OBVIOUS
<1>0. TypeInv'
  BY TypeInvNext DEF RecycleInv
<1>1. CASE UNCHANGED vars
  BY <1>0, <1>1 DEF vars, lock, ready, pulse, frame, RecycleInv, OneObject, FreeIsClean,
     AvailableIsCarried, Disposes, Owns, Pinned
<1>2. CASE Next
  <2>1. PICK t \in Threads : StepOf(t)
    BY <1>2 DEF Next, StepOf
  <2>2. OneObject' /\ FreeIsClean' /\ AvailableIsCarried'
    BY <1>0, <2>1, OneObjectStays, FreeStaysClean, AvailableStaysCarried
  <2>3. ASSUME NEW u \in Threads PROVE Disposes(u)' /\ Owns(u)' /\ Pinned(u)'
    <3>1. CASE u = t
      BY <1>0, <2>1, <3>1, SelfCustody, PinnedStays
    <3>2. CASE u # t
      BY <1>0, <2>1, <3>2, OthersDispose, OthersOwn, PinnedStays
    <3> QED BY <3>1, <3>2
  <2> QED BY <1>0, <2>2, <2>3 DEF RecycleInv
<1> QED BY <1>1, <1>2

LEMMA RecycleInvCorrect == Spec => []RecycleInv
BY RecycleInvInit, RecycleInvNext, PTL DEF Spec

\* A monitor serves one object at a time, and a monitor on the free list is
\* nobody's, is on no object and has no waiters: whatever timeouts, interrupts
\* and aborts there are, and whatever threads believe they hold.
THEOREM RecyclingIsSafeCorrect == Spec => []RecyclingIsSafe
<1>1. RecycleInv => RecyclingIsSafe
  BY DEF RecycleInv, OneObject, FreeIsClean, RecyclingIsSafe
<1> QED BY <1>1, RecycleInvCorrect, PTL

----------------------------------------------------------------------------
(* No wakeup is lost, except by a give-back *)

Caretakers == {"post", "repost", "loop", "grab"}

\* A thread falls asleep only when somebody owns the monitor.
LEMMA FallingAsleep ==
  ASSUME FrameOK, NEW t \in Threads, StepOf(t), pc'[t] = "sleep"
  PROVE  FailAsWaiter(t) /\ pc[t] # "sleep" /\ mon'[t] = mon[t]
<1> USE DEF FrameOK, Goto, Leave, frame
<1>1. CASE EnterStep(t)
  <2>1. ~(InstallMonitor(t) \/ EnterRecursively(t) \/ ConfirmAcquire(t) \/ AcquireAsWaiter(t))
    BY DEF InstallMonitor, EnterRecursively, ConfirmAcquire, AcquireAsWaiter, EnterSucceeds
  <2>2. ~(LastWaiterAcquires(t) \/ FindLocked(t) \/ AcknowledgeTimeout(t))
    BY DEF LastWaiterAcquires, FindLocked, AcknowledgeTimeout, EnterSucceeds, EnterFails
  <2>3. ~(AllocateMonitor(t) \/ LoseInstall(t) \/ ReadMonitor(t) \/ UndoAcquire(t)
          \/ VacateDyingMonitor(t))
    BY DEF AllocateMonitor, LoseInstall, ReadMonitor, UndoAcquire, VacateDyingMonitor
  <2>4. ~(AcquireFree(t) \/ JoinReadyList(t) \/ CheckStillInstalled(t) \/ Awake(t)
          \/ LastWaiterChecks(t))
    BY DEF AcquireFree, JoinReadyList, CheckStillInstalled, Awake, LastWaiterChecks
  <2> QED BY <1>1, <2>1, <2>2, <2>3, <2>4 DEF EnterStep, FailAsWaiter
<1>2. ~ExitStep(t)
  BY DEF ExitStep, ChooseRelease, Release, RecheckReadyList, SignalNext, Deflate, KickWaiters,
     AwaitAcknowledge, ReturnToFreeList, ExitReturns
<1>3. ~(OutsideEvent(t) \/ StopWaiting(t) \/ RestoreCount(t))
  BY DEF OutsideEvent, AbortedInSleep, InterruptedInSleep, TimeOut, StopWaiting, RestoreCount
<1>4. ~ManagedCall(t)
  BY DEF ManagedCall, CallTryEnter, CallTryWait, CallExit, Pulse, PulseAll
<1> QED BY <1>1, <1>2, <1>3, <1>4 DEF StepOf

\* Only a thread that wakes up takes a token.
LEMMA TokenSteps ==
  ASSUME HeapOK, HeapOK', NEW t \in Threads, StepOf(t), NEW m \in Monitors, semaphore[m] > 0
  PROVE  semaphore'[m] > 0 \/ (Awake(t) /\ mon[t] = m)
<1> USE DEF HeapOK, ready
<1>1. CASE EnterStep(t) /\ ~Awake(t)
  BY <1>1 DEF EnterStep, AllocateMonitor, InstallMonitor, LoseInstall, ReadMonitor, EnterRecursively,
     AcquireFree, ConfirmAcquire, UndoAcquire, FindLocked, JoinReadyList, CheckStillInstalled,
     VacateDyingMonitor, AcquireAsWaiter, FailAsWaiter, LastWaiterChecks, LastWaiterAcquires,
     AcknowledgeTimeout
<1>2. CASE Awake(t)
  BY <1>2 DEF Awake
<1>3. CASE ExitStep(t)
  <2>1. CASE SignalNext(t)
    BY <2>1 DEF SignalNext, Post
  <2>2. CASE KickWaiters(t)
    BY <2>2 DEF KickWaiters, Post
  <2>3. CASE ChooseRelease(t) \/ Release(t) \/ RecheckReadyList(t) \/ Deflate(t)
             \/ AwaitAcknowledge(t) \/ ReturnToFreeList(t)
    BY <2>3 DEF ChooseRelease, Release, RecheckReadyList, Deflate, AwaitAcknowledge, ReturnToFreeList
  <2> QED BY <1>3, <2>1, <2>2, <2>3 DEF ExitStep
<1>4. CASE OutsideEvent(t) \/ StopWaiting(t) \/ RestoreCount(t)
  BY <1>4 DEF OutsideEvent, AbortedInSleep, InterruptedInSleep, TimeOut, StopWaiting, RestoreCount
<1>5. CASE ManagedCall(t)
  BY <1>5 DEF ManagedCall, CallTryEnter, CallTryWait, CallExit, Pulse, PulseAll
<1> QED BY <1>1, <1>2, <1>3, <1>4, <1>5 DEF StepOf

\* What a caretaker does next.
LEMMA CaretakerSteps ==
  ASSUME NEW t \in Threads, StepOf(t), pc[t] \in Caretakers
  PROVE  \/ SignalNext(t) \/ RecheckReadyList(t) \/ CheckStillInstalled(t)
         \/ AcquireAsWaiter(t) \/ FailAsWaiter(t)
<1> USE DEF Caretakers
<1>1. CASE EnterStep(t)
  BY <1>1 DEF EnterStep, AllocateMonitor, InstallMonitor, LoseInstall, ReadMonitor, EnterRecursively,
     AcquireFree, ConfirmAcquire, UndoAcquire, FindLocked, JoinReadyList,
     VacateDyingMonitor, Awake, LastWaiterChecks, LastWaiterAcquires, AcknowledgeTimeout
<1>2. CASE ExitStep(t)
  BY <1>2 DEF ExitStep, ChooseRelease, Release, Deflate, KickWaiters, AwaitAcknowledge, ReturnToFreeList
<1>3. ~(OutsideEvent(t) \/ StopWaiting(t) \/ RestoreCount(t))
  BY DEF OutsideEvent, AbortedInSleep, InterruptedInSleep, TimeOut, StopWaiting, RestoreCount
<1>4. ~ManagedCall(t)
  BY DEF ManagedCall, CallTryEnter, CallTryWait, CallExit, Pulse, PulseAll
<1> QED BY <1>1, <1>2, <1>3, <1>4 DEF StepOf

\* The promise for one monitor: a token is there, or somebody will look.
Attended(m) ==
    \/ semaphore[m] > 0
    \/ \E u \in Threads : mon[u] = m /\ pc[u] \in Caretakers

LEMMA AttendedStep ==
  ASSUME RecycleInv, TypeInv', NEW t \in Threads, StepOf(t), ~UndoAcquire(t) \/ threadAborted[mon[t]],
         NEW v \in Threads, NEW m \in Monitors, pc[v] = "sleep", mon[v] = m, ~threadAborted[m],
         owningThreadId'[m] = Available, owningThreadId[m] = Available => Attended(m)
  PROVE  Attended(m)'
<1>0. /\ TypeInv /\ HeapOK /\ FrameOK /\ HeapOK' /\ FrameOK' /\ LocalsOK(t) /\ Pinned(t)
      /\ \A u \in Threads : Owns(u)
  BY DEF RecycleInv, TypeInv, FrameOK
<1>1. CASE owningThreadId[m] # Available
  <2>1. mon[t] = m /\ Release(t)
    BY <1>0, <1>1, OwnerSteps, OwnerAssumption
  <2>2. mon'[t] = m /\ pc'[t] \in {"post", "repost"}
    BY <1>0, <2>1 DEF Release, Goto, frame, FrameOK
  <2> QED BY <2>2 DEF Attended, Caretakers
<1>2. CASE owningThreadId[m] = Available /\ semaphore[m] > 0
  <2>1. CASE semaphore'[m] > 0
    BY <2>1 DEF Attended
  <2>2. CASE Awake(t) /\ mon[t] = m
    <3>1. mon'[t] = m /\ pc'[t] = "loop"
      BY <1>0, <2>2 DEF Awake, Goto, frame, FrameOK
    <3> QED BY <3>1 DEF Attended, Caretakers
  <2> QED BY <1>0, <1>2, <2>1, <2>2, TokenSteps
<1>3. CASE owningThreadId[m] = Available /\ ~(semaphore[m] > 0)
  <2>1. PICK u \in Threads : mon[u] = m /\ pc[u] \in Caretakers
    BY <1>3 DEF Attended
  <2>2. CASE u # t
    <3>1. mon'[u] = m /\ pc'[u] \in Caretakers
      BY <1>0, <2>1, <2>2, OthersKeepLocals
    <3> QED BY <3>1 DEF Attended
  <2>3. CASE u = t
    <3>0. mon[t] = m /\ pc[t] \in Caretakers
      BY <2>1, <2>3
    <3>1. CASE SignalNext(t)
      <4>1. semaphore'[m] > 0
        BY <1>0, <3>0, <3>1, BoundsAssumption DEF SignalNext, Post, HeapOK
      <4> QED BY <4>1 DEF Attended
    <3>2. CASE RecheckReadyList(t)
      <4>1. numThreadsWaitingForSemaphore[m] > 0
        BY <1>0, CountedPositive DEF ReadyPCs
      <4>2. mon'[t] = m /\ pc'[t] = "post"
        BY <1>0, <3>0, <3>2, <4>1 DEF RecheckReadyList, Goto, frame, FrameOK
      <4> QED BY <4>2 DEF Attended, Caretakers
    <3>3. CASE CheckStillInstalled(t)
      <4>1. pc[t] = "loop"
        BY <3>0, <3>3 DEF CheckStillInstalled, Caretakers
      <4>2. \A w \in Threads : mon[w] = m => pc[w] \notin {"flush", "flushWait"}
        BY <1>0, <1>3, OwnerAssumption DEF Owns, PrivatePCs
      <4>3. monitor[obj[t]] = m
        BY <1>0, <3>0, <4>1, <4>2 DEF Pinned
      <4>4. mon'[t] = m /\ pc'[t] = "grab"
        BY <1>0, <3>0, <3>3, <4>1, <4>3 DEF CheckStillInstalled, Goto, frame, FrameOK
      <4> QED BY <4>4 DEF Attended, Caretakers
    <3>4. ~(AcquireAsWaiter(t) \/ FailAsWaiter(t))
      BY <1>0, <1>3, <3>0, OwnerAssumption
         DEF AcquireAsWaiter, FailAsWaiter, TryAcquire, CannotAcquire, HeapOK
    <3> QED BY <3>0, <3>1, <3>2, <3>3, <3>4, CaretakerSteps
  <2> QED BY <2>2, <2>3
<1> QED BY <1>1, <1>2, <1>3

\* Nobody gives back a monitor that still matters.
NothingGivenBack == \A t \in Threads : UndoAcquire(t) => threadAborted[mon[t]]

LEMMA NoLostWakeupStep ==
  ASSUME RecycleInv, TypeInv', NoLostWakeup, NothingGivenBack, NEW t \in Threads, StepOf(t)
  PROVE  NoLostWakeup'
<1>0. /\ HeapOK /\ FrameOK /\ HeapOK' /\ FrameOK' /\ \A u \in Threads : LocalsOK(u)
      /\ ~UndoAcquire(t) \/ threadAborted[mon[t]]
  BY DEF RecycleInv, TypeInv, FrameOK, NothingGivenBack
<1> SUFFICES ASSUME NEW v \in Threads, pc'[v] = "sleep", owningThreadId'[mon'[v]] = Available,
                    ~threadAborted'[mon'[v]]
             PROVE  \/ semaphore'[mon'[v]] > 0
                    \/ \E u \in Threads : mon'[u] = mon'[v]
                                          /\ pc'[u] \in {"post", "repost", "loop", "grab"}
  BY DEF NoLostWakeup
<1>1. CASE v = t
  <2>1. FailAsWaiter(t) /\ mon'[t] = mon[t]
    BY <1>0, <1>1, FallingAsleep
  <2> QED BY <1>1, <2>1 DEF FailAsWaiter, CannotAcquire
<1>2. CASE v # t
  <2>1. pc[v] = "sleep" /\ mon'[v] = mon[v] /\ mon[v] \in Monitors
    BY <1>0, <1>2, OthersKeepLocals DEF LocalsOK, EnterPCs
  <2>2. ~threadAborted[mon[v]]
    BY <1>0, <2>1, AbortSteps DEF AbortedInSleep, HeapOK
  <2>3. owningThreadId[mon[v]] = Available => Attended(mon[v])
    BY <2>1, <2>2 DEF NoLostWakeup, Attended, Caretakers
  <2>4. PICK m \in Monitors : m = mon[v]
    BY <2>1
  <2>5. Attended(m)'
    BY <1>0, <2>1, <2>2, <2>3, <2>4, AttendedStep
  <2>6. mon'[v] = m
    BY <2>1, <2>4
  <2> QED BY <2>5, <2>6 DEF Attended, Caretakers
<1> QED BY <1>1, <1>2

LEMMA NoLostWakeupNext ==
  RecycleInv /\ NoLostWakeup /\ [Next]_vars /\ [NothingGivenBack]_vars => NoLostWakeup'
<1> SUFFICES ASSUME RecycleInv, NoLostWakeup, [Next]_vars, [NothingGivenBack]_vars
             PROVE  NoLostWakeup'
  OBVIOUS
<1>1. TypeInv'
  BY TypeInvNext DEF RecycleInv
<1>2. CASE Next /\ NothingGivenBack
  <2>1. PICK t \in Threads : StepOf(t)
    BY <1>2 DEF Next, StepOf
  <2> QED BY <1>1, <1>2, <2>1, NoLostWakeupStep
<1>3. CASE UNCHANGED vars
  BY <1>3 DEF vars, lock, ready, frame, NoLostWakeup
<1> QED BY <1>2, <1>3

\* A thread blocked on the semaphore of a monitor that is free for the taking
\* is about to be woken, whatever threads contend for whatever objects and
\* however they give up, unless a thread gives back a monitor that had moved to
\* another object when it took it.  That give-back posts nothing; it is the
\* only way to lose a wakeup.
THEOREM NoLostWakeupCorrect == Spec /\ [][NothingGivenBack]_vars => []NoLostWakeup
<1>1. Init => NoLostWakeup
  BY DEF Init, NoLostWakeup
<1> QED BY <1>1, RecycleInvCorrect, NoLostWakeupNext, PTL DEF Spec

\* Threads that contend for one object never lose a wakeup: there, a monitor
\* that can be taken is the one the object carries, and nothing is given back.
THEOREM NoLostWakeupOnOneObject ==
  ASSUME SingleObject
  PROVE  Spec => []NoLostWakeup
<1>1. RecycleInv => NothingGivenBack
  <2> SUFFICES ASSUME RecycleInv, NEW t \in Threads, UndoAcquire(t), ~threadAborted[mon[t]]
               PROVE  FALSE
    BY DEF NothingGivenBack
  <2>1. LocalsOK(t) /\ Owns(t)
    BY DEF RecycleInv, TypeInv, FrameOK
  <2> QED BY <2>1 DEF UndoAcquire, Owns, SingleObject, LocalsOK
<1>2. RecycleInv => [NothingGivenBack]_vars
  BY <1>1
<1> QED BY <1>2, RecycleInvCorrect, NoLostWakeupCorrect, PTL

=============================================================================
