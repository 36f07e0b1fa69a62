--------------------------- MODULE MonitorProofs ---------------------------
(***************************************************************************)
(* Theorems about Monitor, for any numbers of threads, objects and         *)
(* monitors.                                                               *)
(***************************************************************************)
EXTENDS Monitor, FiniteSetTheorems, SequenceTheorems, TLAPS

\* The threads that count themselves on the ready list of a monitor.
ReadyPCs == {"verify", "loop", "grab", "sleep", "vacate"}
Readers(m) == {u \in Threads : mon[u] = m /\ pc[u] \in ReadyPCs}

\* Which of a thread's locals mean something, where.
LocalsOK(t) ==
    /\ pc[t] # "idle" => obj[t] \in Objects
    /\ pc[t] \in ExitPCs \cup (EnterPCs \ {"read"}) => mon[t] \in Monitors
    /\ pc[t] = "restore" => savedCount[t] # 0

\* Nobody leaves a ready list uncounted, but an aborted thread stays counted on
\* the one that it has left.
Counted(m) ==
    /\ numThreadsWaitingForSemaphore[m] >= Cardinality(Readers(m))
    /\ threadAborted[m] => numThreadsWaitingForSemaphore[m] > Cardinality(Readers(m))

\* The type invariant in two parts: thread locals, and all the rest.
FrameOK ==
    /\ pc \in [Threads -> PCs]
    /\ obj \in [Threads -> Objects \cup {NoObject}]
    /\ mon \in [Threads -> Monitors \cup {NoMonitor}]
    /\ timeout \in [Threads -> Timeouts]
    /\ savedCount \in [Threads -> Nat]
    /\ held \in [Threads -> [Objects -> Nat]]
    /\ \A t \in Threads : LocalsOK(t)
HeapOK ==
    /\ monitor \in [Objects -> Monitors \cup {NoMonitor}]
    /\ owningThreadId \in [Monitors -> Threads \cup {Available, OnFreeList}]
    /\ threadAborted \in [Monitors -> BOOLEAN]
    /\ recursiveLockingCount \in [Monitors -> Nat \ {0}]
    /\ semaphore \in [Monitors -> 0 .. SemaphoreMax]
    /\ numThreadsWaitingForSemaphore \in [Monitors -> Nat]
    /\ flushAcknowledged \in [Monitors -> BOOLEAN]
    /\ threadsWaitingForPulse \in [Monitors -> Seq(Threads)]
    /\ signalWaitingThread \in [Threads -> BOOLEAN]
    /\ freeList \subseteq Monitors

TypeInv == HeapOK /\ FrameOK /\ (\A m \in Monitors : Counted(m))

----------------------------------------------------------------------------
(* Type correctness *)

\* Cutting a thread out of a pulse waiting list leaves a list of threads.
LEMMA UnlinkType ==
  ASSUME NEW list \in Seq(Threads), NEW t
  PROVE  Unlink(list, t) \in Seq(Threads)
<1>1. CASE t \in ToSet(list)
  <2> DEFINE i == CHOOSE j \in DOMAIN list : list[j] = t
  <2>1. i \in 1 .. Len(list)
    BY <1>1, LenProperties DEF ToSet
  <2> HIDE DEF i
  <2>2. \A j \in 1 .. Len(list) : list[j] \in Threads
    BY ElementOfSeq
  <2>3. SubSeq(list, 1, i - 1) \in Seq(Threads)
    <3>1. \A j \in 1 .. i - 1 : list[j] \in Threads
      BY <2>1, <2>2, LenProperties
    <3> QED BY <3>1, <2>1, SubSeqProperties
  <2>4. SubSeq(list, i + 1, Len(list)) \in Seq(Threads)
    <3>1. \A j \in i + 1 .. Len(list) : list[j] \in Threads
      BY <2>1, <2>2, LenProperties
    <3>2. i + 1 \in Int /\ Len(list) \in Int
      BY <2>1, LenProperties
    <3> QED BY <3>1, <3>2, SubSeqProperties
  <2> QED BY <1>1, <2>3, <2>4, ConcatProperties DEF Unlink, RemoveAt, i
<1>2. CASE t \notin ToSet(list)
  BY <1>2 DEF Unlink
<1> QED BY <1>1, <1>2
USE ThreadsAssumption, OwnerAssumption, NullAssumption, TimeoutsAssumption, BoundsAssumption

\* The three ways in which calls end keep the locals well-typed.
LEMMA LeaveFrame ==
  ASSUME FrameOK, NEW t \in Threads, Leave(t), UNCHANGED held
  PROVE  FrameOK'
BY DEF Leave, Goto, FrameOK, LocalsOK, PCs, EnterPCs, ExitPCs, Timeouts

LEMMA EnterSucceedsFrame ==
  ASSUME FrameOK, NEW t \in Threads, obj[t] \in Objects, EnterSucceeds(t)
  PROVE  FrameOK'
<1>1. CASE /\ savedCount[t] = 0
           /\ Leave(t)
           /\ held' = [held EXCEPT ![t][obj[t]] = @ + 1]
  <2>1. held' \in [Threads -> [Objects -> Nat]]
    BY <1>1 DEF FrameOK
  <2> QED
    BY <1>1, <2>1 DEF Leave, Goto, FrameOK, LocalsOK, PCs, EnterPCs, ExitPCs, Timeouts
<1>2. CASE /\ savedCount[t] # 0
           /\ Goto(t, "restore")
           /\ UNCHANGED frame
  BY <1>2 DEF Goto, frame, FrameOK, LocalsOK, PCs, EnterPCs, ExitPCs, Timeouts
<1> QED BY <1>1, <1>2 DEF EnterSucceeds

LEMMA ExitReturnsFrame ==
  ASSUME FrameOK, NEW t \in Threads, pc[t] # "idle", ExitReturns(t)
  PROVE  FrameOK'
<1>1. CASE savedCount[t] = 0 /\ Leave(t) /\ UNCHANGED held
  BY <1>1, LeaveFrame
<1>2. CASE /\ Goto(t, "pulseWait")
           /\ mon' = [mon EXCEPT ![t] = NoMonitor]
           /\ UNCHANGED <<obj, timeout, savedCount, held>>
  BY <1>2 DEF Goto, FrameOK, LocalsOK, PCs, EnterPCs, ExitPCs
<1>3. CASE /\ Goto(t, "read")
           /\ timeout' = [timeout EXCEPT ![t] = "infinite"]
           /\ mon' = [mon EXCEPT ![t] = NoMonitor]
           /\ UNCHANGED <<obj, savedCount, held>>
  BY <1>3 DEF Goto, FrameOK, LocalsOK, PCs, EnterPCs, ExitPCs, Timeouts
<1> QED BY <1>1, <1>2, <1>3 DEF ExitReturns

\* A step inside a call that leaves the other locals alone.
LEMMA GotoFrame ==
  ASSUME FrameOK, NEW t \in Threads, NEW label \in PCs \ {"restore"}, Goto(t, label),
         pc[t] # "idle", mon[t] \in Monitors, UNCHANGED frame
  PROVE  FrameOK'
BY DEF Goto, frame, FrameOK, LocalsOK, PCs, EnterPCs, ExitPCs, Timeouts

\* Every step keeps the locals of all threads well-typed.
LEMMA FrameStep ==
  ASSUME TypeInv, NEW t \in Threads,
         \/ EnterStep(t) \/ ExitStep(t) \/ OutsideEvent(t)
         \/ StopWaiting(t) \/ RestoreCount(t) \/ ManagedCall(t)
  PROVE  FrameOK'
<1>0. FrameOK /\ HeapOK /\ LocalsOK(t) BY DEF TypeInv, FrameOK
<1> USE DEF PCs, EnterPCs, ExitPCs
<1>1. CASE EnterStep(t)
  <2>1. CASE AllocateMonitor(t)
    BY <1>0, <2>1 DEF AllocateMonitor, HeapOK, FrameOK, LocalsOK, Goto
  <2>2. CASE InstallMonitor(t)
    BY <1>0, <2>2, EnterSucceedsFrame DEF InstallMonitor, LocalsOK
  <2>3. CASE LoseInstall(t)
    BY <1>0, <2>3 DEF LoseInstall, HeapOK, FrameOK, LocalsOK, Goto
  <2>4. CASE ReadMonitor(t)
    BY <1>0, <2>4 DEF ReadMonitor, HeapOK, FrameOK, LocalsOK, Goto
  <2>5. CASE EnterRecursively(t)
    BY <1>0, <2>5, EnterSucceedsFrame DEF EnterRecursively, LocalsOK
  <2>6. CASE AcquireFree(t)
    BY <1>0, <2>6, GotoFrame DEF AcquireFree, LocalsOK
  <2>7. CASE ConfirmAcquire(t)
    BY <1>0, <2>7, EnterSucceedsFrame DEF ConfirmAcquire, LocalsOK
  <2>8. CASE UndoAcquire(t)
    BY <1>0, <2>8 DEF UndoAcquire, HeapOK, FrameOK, LocalsOK, Goto
  <2>9. CASE FindLocked(t)
    BY <1>0, <2>9, LeaveFrame, GotoFrame DEF FindLocked, EnterFails, LocalsOK
  <2>10. CASE JoinReadyList(t)
    BY <1>0, <2>10, GotoFrame DEF JoinReadyList, LocalsOK
  <2>11. CASE CheckStillInstalled(t)
    BY <1>0, <2>11, GotoFrame DEF CheckStillInstalled, LocalsOK
  <2>12. CASE VacateDyingMonitor(t)
    BY <1>0, <2>12 DEF VacateDyingMonitor, HeapOK, FrameOK, LocalsOK, Goto
  <2>13. CASE AcquireAsWaiter(t)
    BY <1>0, <2>13, EnterSucceedsFrame DEF AcquireAsWaiter, LocalsOK
  <2>14. CASE FailAsWaiter(t)
    BY <1>0, <2>14, GotoFrame DEF FailAsWaiter, LocalsOK
  <2>15. CASE Awake(t)
    BY <1>0, <2>15, GotoFrame DEF Awake, LocalsOK
  <2>16. CASE LastWaiterChecks(t)
    BY <1>0, <2>16, GotoFrame DEF LastWaiterChecks, LocalsOK
  <2>17. CASE LastWaiterAcquires(t)
    BY <1>0, <2>17, GotoFrame, EnterSucceedsFrame DEF LastWaiterAcquires, LocalsOK
  <2>18. CASE AcknowledgeTimeout(t)
    BY <1>0, <2>18, LeaveFrame DEF AcknowledgeTimeout, EnterFails
  <2> QED BY <1>1, <2>1, <2>2, <2>3, <2>4, <2>5, <2>6, <2>7, <2>8, <2>9, <2>10, <2>11, <2>12, <2>13, <2>14, <2>15, <2>16, <2>17, <2>18 DEF EnterStep
<1>2. CASE ExitStep(t)
  <2>1. CASE ChooseRelease(t)
    BY <1>0, <2>1, GotoFrame DEF ChooseRelease, LocalsOK
  <2>2. CASE Release(t)
    BY <1>0, <2>2, GotoFrame DEF Release, LocalsOK
  <2>3. CASE RecheckReadyList(t)
    BY <1>0, <2>3, ExitReturnsFrame, GotoFrame DEF RecheckReadyList, LocalsOK
  <2>4. CASE SignalNext(t)
    BY <1>0, <2>4, ExitReturnsFrame DEF SignalNext
  <2>5. CASE Deflate(t)
    BY <1>0, <2>5, GotoFrame DEF Deflate, LocalsOK
  <2>6. CASE KickWaiters(t)
    BY <1>0, <2>6, GotoFrame DEF KickWaiters, LocalsOK
  <2>7. CASE AwaitAcknowledge(t)
    BY <1>0, <2>7, GotoFrame DEF AwaitAcknowledge, LocalsOK
  <2>8. CASE ReturnToFreeList(t)
    BY <1>0, <2>8, ExitReturnsFrame DEF ReturnToFreeList
  <2> QED BY <1>2, <2>1, <2>2, <2>3, <2>4, <2>5, <2>6, <2>7, <2>8 DEF ExitStep
<1>3. CASE OutsideEvent(t)
  <2>1. CASE AbortedInSleep(t)
    BY <1>0, <2>1, LeaveFrame DEF AbortedInSleep, EnterFails
  <2>2. CASE InterruptedInSleep(t)
    BY <1>0, <2>2, LeaveFrame DEF InterruptedInSleep, EnterFails
  <2>3. CASE TimeOut(t)
    BY <1>0, <2>3, GotoFrame DEF TimeOut, LocalsOK
  <2> QED BY <1>3, <2>1, <2>2, <2>3 DEF OutsideEvent
<1>4. CASE StopWaiting(t)
  BY <1>0, <1>4 DEF StopWaiting, FrameOK, LocalsOK, Goto, Timeouts
<1>5. CASE RestoreCount(t)
  <2>1. held' \in [Threads -> [Objects -> Nat]]
    BY <1>0, <1>5 DEF RestoreCount, FrameOK
  <2> QED BY <1>0, <1>5, <2>1 DEF RestoreCount, Leave, FrameOK, LocalsOK, Goto, Timeouts
<1>6. CASE ManagedCall(t)
  <2> SUFFICES ASSUME NEW o \in Objects,
                      \/ \E ms \in EnterTimeouts : CallTryEnter(t, o, ms)
                      \/ \E ms \in WaitTimeouts : CallTryWait(t, o, ms)
                      \/ CallExit(t, o) \/ Pulse(t, o) \/ PulseAll(t, o)
               PROVE  FrameOK'
    BY <1>6 DEF ManagedCall
  <2>1. CASE \E ms \in EnterTimeouts : CallTryEnter(t, o, ms)
    BY <1>0, <2>1 DEF CallTryEnter, FrameOK, LocalsOK, Goto
  <2>2. CASE \E ms \in WaitTimeouts : CallTryWait(t, o, ms)
    <3>1. held' \in [Threads -> [Objects -> Nat]]
      BY <1>0, <2>2 DEF CallTryWait, FrameOK
    <3>2. monitor[o] \in Monitors
      BY <1>0, <2>2 DEF CallTryWait, LockedByCurrentThread, HeapOK
    <3> QED BY <1>0, <2>2, <3>1, <3>2 DEF CallTryWait, HeapOK, FrameOK, LocalsOK, Goto
  <2>3. CASE CallExit(t, o)
    <3>1. held' \in [Threads -> [Objects -> Nat]]
      <4> DEFINE n == IF held[t][o] = 0 THEN 0 ELSE held[t][o] - 1
      <4>1. held[t] \in [Objects -> Nat] /\ n \in Nat
        BY <1>0 DEF FrameOK
      <4>2. held' = [held EXCEPT ![t][o] = n]
        BY <2>3 DEF CallExit
      <4> HIDE DEF n
      <4> QED BY <1>0, <4>1, <4>2 DEF FrameOK
    <3>2. monitor[o] \in Monitors
      BY <1>0, <2>3 DEF CallExit, LockedByCurrentThread, HeapOK
    <3>3. CASE UNCHANGED <<pc, obj, mon>>
      BY <1>0, <2>3, <3>1, <3>3 DEF CallExit, FrameOK, LocalsOK
    <3>4. CASE /\ Goto(t, "exitCheck")
               /\ obj' = [obj EXCEPT ![t] = o]
               /\ mon' = [mon EXCEPT ![t] = monitor[o]]
      BY <1>0, <2>3, <3>1, <3>2, <3>4 DEF CallExit, FrameOK, LocalsOK, Goto
    <3> QED BY <2>3, <3>3, <3>4 DEF CallExit
  <2>4. CASE Pulse(t, o) \/ PulseAll(t, o)
    BY <1>0, <2>4 DEF Pulse, PulseAll, frame, FrameOK, LocalsOK
  <2> QED BY <2>1, <2>2, <2>3, <2>4
<1> QED BY <1>1, <1>2, <1>3, <1>4, <1>5, <1>6

\* Whoever is on a ready list is counted there.
LEMMA CountedPositive ==
  ASSUME TypeInv, NEW t \in Threads, pc[t] \in ReadyPCs
  PROVE  numThreadsWaitingForSemaphore[mon[t]] > 0
<1>1. mon[t] \in Monitors /\ t \in Readers(mon[t])
  BY DEF TypeInv, FrameOK, LocalsOK, ReadyPCs, Readers, EnterPCs
<1>2. IsFiniteSet(Readers(mon[t]))
  BY FS_Subset DEF Readers
<1>3. Cardinality(Readers(mon[t])) \in Nat /\ Cardinality(Readers(mon[t])) # 0
  BY <1>1, <1>2, FS_CardinalityType, FS_EmptySet
<1> QED BY <1>1, <1>3 DEF TypeInv, Counted, HeapOK

\* Every step keeps the monitors and objects well-typed.
LEMMA HeapStep ==
  ASSUME TypeInv, NEW t \in Threads,
         \/ EnterStep(t) \/ ExitStep(t) \/ OutsideEvent(t)
         \/ StopWaiting(t) \/ RestoreCount(t) \/ ManagedCall(t)
  PROVE  HeapOK'
<1>0. FrameOK /\ HeapOK /\ LocalsOK(t) BY DEF TypeInv, FrameOK
<1> USE DEF PCs, EnterPCs, ExitPCs, lock, ready, pulse
<1>1. CASE EnterStep(t)
  <2>1. CASE AllocateMonitor(t)
    BY <1>0, <2>1 DEF AllocateMonitor, HeapOK, FrameOK, LocalsOK
  <2>2. CASE InstallMonitor(t)
    BY <1>0, <2>2 DEF InstallMonitor, HeapOK, FrameOK, LocalsOK
  <2>3. CASE LoseInstall(t)
    BY <1>0, <2>3 DEF LoseInstall, HeapOK, FrameOK, LocalsOK
  <2>4. CASE ReadMonitor(t)
    BY <1>0, <2>4 DEF ReadMonitor, HeapOK, FrameOK, LocalsOK
  <2>5. CASE EnterRecursively(t)
    BY <1>0, <2>5 DEF EnterRecursively, HeapOK, FrameOK, LocalsOK
  <2>6. CASE AcquireFree(t)
    BY <1>0, <2>6 DEF AcquireFree, TryAcquire, HeapOK, FrameOK, LocalsOK
  <2>7. CASE ConfirmAcquire(t)
    BY <1>0, <2>7 DEF ConfirmAcquire, HeapOK, FrameOK, LocalsOK
  <2>8. CASE UndoAcquire(t)
    BY <1>0, <2>8 DEF UndoAcquire, Unacquire, HeapOK, FrameOK, LocalsOK
  <2>9. CASE FindLocked(t)
    BY <1>0, <2>9 DEF FindLocked, CannotAcquire, HeapOK, FrameOK, LocalsOK
  <2>10. CASE JoinReadyList(t)
    BY SMTT(30), <1>0, <2>10 DEF JoinReadyList, AddToReadyList, HeapOK, FrameOK, LocalsOK
  <2>11. CASE CheckStillInstalled(t)
    BY <1>0, <2>11 DEF CheckStillInstalled, HeapOK, FrameOK, LocalsOK
  <2>12. CASE VacateDyingMonitor(t)
    BY SMTT(30), <1>0, <2>12, CountedPositive DEF VacateDyingMonitor, RemoveFromReadyList, ReadyPCs, HeapOK, FrameOK, LocalsOK
  <2>13. CASE AcquireAsWaiter(t)
    BY SMTT(30), <1>0, <2>13, CountedPositive DEF AcquireAsWaiter, TryAcquire, RemoveFromReadyList, ReadyPCs, HeapOK, FrameOK, LocalsOK
  <2>14. CASE FailAsWaiter(t)
    BY <1>0, <2>14 DEF FailAsWaiter, CannotAcquire, HeapOK, FrameOK, LocalsOK
  <2>15. CASE Awake(t)
    BY SMTT(30), <1>0, <2>15 DEF Awake, HeapOK, FrameOK, LocalsOK
  <2>16. CASE LastWaiterChecks(t)
    BY <1>0, <2>16 DEF LastWaiterChecks, HeapOK, FrameOK, LocalsOK
  <2>17. CASE LastWaiterAcquires(t)
    BY SMTT(30), <1>0, <2>17 DEF LastWaiterAcquires, TryAcquire, CannotAcquire, HeapOK, FrameOK, LocalsOK
  <2>18. CASE AcknowledgeTimeout(t)
    BY <1>0, <2>18 DEF AcknowledgeTimeout, HeapOK, FrameOK, LocalsOK
  <2> QED BY <1>1, <2>1, <2>2, <2>3, <2>4, <2>5, <2>6, <2>7, <2>8, <2>9, <2>10, <2>11, <2>12, <2>13, <2>14, <2>15, <2>16, <2>17, <2>18 DEF EnterStep
<1>2. CASE ExitStep(t)
  <2>1. CASE ChooseRelease(t)
    BY <1>0, <2>1 DEF ChooseRelease, HeapOK, FrameOK, LocalsOK
  <2>2. CASE Release(t)
    BY <1>0, <2>2 DEF Release, Unacquire, HeapOK, FrameOK, LocalsOK
  <2>3. CASE RecheckReadyList(t)
    BY <1>0, <2>3 DEF RecheckReadyList, HeapOK, FrameOK, LocalsOK
  <2>4. CASE SignalNext(t)
    BY SMTT(30), <1>0, <2>4 DEF SignalNext, Post, HeapOK, FrameOK, LocalsOK
  <2>5. CASE Deflate(t)
    BY <1>0, <2>5 DEF Deflate, HeapOK, FrameOK, LocalsOK
  <2>6. CASE KickWaiters(t)
    BY SMTT(30), <1>0, <2>6 DEF KickWaiters, Post, HeapOK, FrameOK, LocalsOK
  <2>7. CASE AwaitAcknowledge(t)
    BY <1>0, <2>7 DEF AwaitAcknowledge, HeapOK, FrameOK, LocalsOK
  <2>8. CASE ReturnToFreeList(t)
    BY <1>0, <2>8 DEF ReturnToFreeList, HeapOK, FrameOK, LocalsOK
  <2> QED BY <1>2, <2>1, <2>2, <2>3, <2>4, <2>5, <2>6, <2>7, <2>8 DEF ExitStep
<1>3. CASE OutsideEvent(t)
  <2>1. CASE AbortedInSleep(t)
    BY <1>0, <2>1 DEF AbortedInSleep, HeapOK, FrameOK, LocalsOK
  <2>2. CASE InterruptedInSleep(t)
    BY SMTT(30), <1>0, <2>2, CountedPositive DEF InterruptedInSleep, RemoveFromReadyList, ReadyPCs, HeapOK, FrameOK, LocalsOK
  <2>3. CASE TimeOut(t)
    BY <1>0, <2>3, CountedPositive DEF TimeOut, RemoveFromReadyList, ReadyPCs, HeapOK, FrameOK, LocalsOK
  <2> QED BY <1>3, <2>1, <2>2, <2>3 DEF OutsideEvent
<1>4. CASE StopWaiting(t)
  BY <1>0, <1>4 DEF StopWaiting, HeapOK
<1>5. CASE RestoreCount(t)
  <2>1. \A m \in Monitors : Unlink(threadsWaitingForPulse[m], t) \in Seq(Threads)
    BY <1>0, UnlinkType DEF HeapOK
  <2>2. threadsWaitingForPulse' \in [Monitors -> Seq(Threads)]
    BY <1>0, <1>5, <2>1 DEF RestoreCount, HeapOK
  <2> QED BY <1>0, <1>5, <2>2 DEF RestoreCount, HeapOK, FrameOK, LocalsOK
<1>6. CASE ManagedCall(t)
  <2> SUFFICES ASSUME NEW o \in Objects,
                      \/ \E ms \in EnterTimeouts : CallTryEnter(t, o, ms)
                      \/ \E ms \in WaitTimeouts : CallTryWait(t, o, ms)
                      \/ CallExit(t, o) \/ Pulse(t, o) \/ PulseAll(t, o)
               PROVE  HeapOK'
    BY <1>6 DEF ManagedCall
  <2>1. CASE \E ms \in EnterTimeouts : CallTryEnter(t, o, ms)
    BY <1>0, <2>1 DEF CallTryEnter, HeapOK
  <2>2. CASE \E ms \in WaitTimeouts : CallTryWait(t, o, ms)
    <3>1. \A m \in Monitors : <<t>> \o threadsWaitingForPulse[m] \in Seq(Threads)
      BY <1>0, ConcatProperties DEF HeapOK
    <3>2. PICK ms \in WaitTimeouts : CallTryWait(t, o, ms)
      BY <2>2
    <3>3. threadsWaitingForPulse' \in [Monitors -> Seq(Threads)]
      <4>1. CASE ms = "zero"
        BY <1>0, <3>2, <4>1 DEF CallTryWait, HeapOK
      <4>2. CASE ms # "zero"
        <5>1. threadsWaitingForPulse' =
                 [threadsWaitingForPulse EXCEPT ![monitor[o]] = <<t>> \o @]
          BY <3>2, <4>2 DEF CallTryWait
        <5> QED BY <1>0, <3>1, <5>1 DEF HeapOK
      <4> QED BY <4>1, <4>2
    <3>4. recursiveLockingCount' \in [Monitors -> Nat \ {0}]
      <4>1. recursiveLockingCount' = [recursiveLockingCount EXCEPT ![monitor[o]] = 1]
        BY <3>2 DEF CallTryWait
      <4>2. recursiveLockingCount \in [Monitors -> Nat \ {0}] /\ 1 \in Nat \ {0}
        BY <1>0 DEF HeapOK
      <4> QED BY <4>1, <4>2
    <3> QED BY <1>0, <3>2, <3>3, <3>4 DEF CallTryWait, HeapOK
  <2>3. CASE CallExit(t, o)
    BY SMTT(30), <1>0, <2>3 DEF CallExit, LockedByCurrentThread, HeapOK
  <2>4. CASE Pulse(t, o)
    BY <1>0, <2>4, HeadTailProperties DEF Pulse, LockedByCurrentThread, HeapOK
  <2>5. CASE PulseAll(t, o)
    <3>1. signalWaitingThread' \in [Threads -> BOOLEAN]
      BY <2>5, Zenon DEF PulseAll
    <3>2. threadsWaitingForPulse' \in [Monitors -> Seq(Threads)]
      BY <1>0, <2>5, EmptySeq DEF PulseAll, HeapOK
    <3> QED BY <1>0, <2>5, <3>1, <3>2 DEF PulseAll, HeapOK
  <2> QED BY <2>1, <2>2, <2>3, <2>4, <2>5
<1> QED BY <1>1, <1>2, <1>3, <1>4, <1>5, <1>6

\* Steps that add nobody to a ready list and take nobody off the count.
LEMMA CountedQuiet ==
  ASSUME TypeInv, NEW t \in Threads,
         \A u \in Threads \ {t} : pc'[u] = pc[u] /\ mon'[u] = mon[u],
         pc'[t] \in ReadyPCs => pc[t] \in ReadyPCs /\ mon'[t] = mon[t],
         UNCHANGED <<numThreadsWaitingForSemaphore, threadAborted>>
  PROVE  \A m \in Monitors : Counted(m)'
<1> SUFFICES ASSUME NEW m \in Monitors PROVE Counted(m)'
  OBVIOUS
<1>1. Readers(m)' \subseteq Readers(m)
  BY DEF Readers
<1>2. IsFiniteSet(Readers(m)) /\ IsFiniteSet(Readers(m)')
  BY FS_Subset DEF Readers
<1>3. Cardinality(Readers(m)') <= Cardinality(Readers(m))
  BY <1>1, <1>2, FS_Subset
<1>4. Cardinality(Readers(m)') \in Nat /\ Cardinality(Readers(m)) \in Nat
  BY <1>2, FS_CardinalityType
<1> QED BY <1>3, <1>4 DEF TypeInv, HeapOK, Counted

\* Steps that take thread t off the ready list of its monitor.
LEMMA CountedLeave ==
  ASSUME TypeInv, NEW t \in Threads, pc[t] \in ReadyPCs, pc'[t] \notin ReadyPCs,
         \A u \in Threads \ {t} : pc'[u] = pc[u] /\ mon'[u] = mon[u],
         RemoveFromReadyList(mon[t]), UNCHANGED threadAborted
  PROVE  \A m \in Monitors : Counted(m)'
<1> SUFFICES ASSUME NEW m \in Monitors PROVE Counted(m)'
  OBVIOUS
<1>1. Readers(m)' = IF m = mon[t] THEN Readers(m) \ {t} ELSE Readers(m)
  BY DEF Readers
<1>2. IsFiniteSet(Readers(m)) /\ (m = mon[t] => t \in Readers(m))
  BY FS_Subset DEF Readers
<1>3. Cardinality(Readers(m)) \in Nat
  BY <1>2, FS_CardinalityType
<1>4. Cardinality(Readers(m)') =
         IF m = mon[t] THEN Cardinality(Readers(m)) - 1 ELSE Cardinality(Readers(m))
  BY ZenonT(60), <1>1, <1>2, FS_RemoveElement
<1> QED BY <1>3, <1>4 DEF TypeInv, HeapOK, Counted, RemoveFromReadyList

\* An abort takes a thread off without counting it out.
LEMMA CountedAbort ==
  ASSUME TypeInv, NEW t \in Threads, AbortedInSleep(t)
  PROVE  \A m \in Monitors : Counted(m)'
<1> SUFFICES ASSUME NEW m \in Monitors PROVE Counted(m)'
  OBVIOUS
<1>1. Readers(m)' = IF m = mon[t] THEN Readers(m) \ {t} ELSE Readers(m)
  BY DEF Readers, ReadyPCs, AbortedInSleep, Leave, Goto, TypeInv, FrameOK
<1>2. IsFiniteSet(Readers(m)) /\ (m = mon[t] => t \in Readers(m))
  BY FS_Subset DEF Readers, ReadyPCs, AbortedInSleep
<1>3. Cardinality(Readers(m)) \in Nat
  BY <1>2, FS_CardinalityType
<1>4. Cardinality(Readers(m)') =
         IF m = mon[t] THEN Cardinality(Readers(m)) - 1 ELSE Cardinality(Readers(m))
  BY ZenonT(60), <1>1, <1>2, FS_RemoveElement
<1>5. /\ numThreadsWaitingForSemaphore'[m] = numThreadsWaitingForSemaphore[m]
      /\ m # mon[t] => threadAborted'[m] = threadAborted[m]
  BY DEF AbortedInSleep, TypeInv, HeapOK
<1> QED BY <1>3, <1>4, <1>5 DEF TypeInv, HeapOK, Counted

LEMMA CountedJoin ==
  ASSUME TypeInv, NEW t \in Threads, JoinReadyList(t)
  PROVE  \A m \in Monitors : Counted(m)'
<1> SUFFICES ASSUME NEW m \in Monitors PROVE Counted(m)'
  OBVIOUS
<1>1. Readers(m)' = IF m = mon[t] THEN Readers(m) \cup {t} ELSE Readers(m)
  BY DEF Readers, ReadyPCs, JoinReadyList, Goto, frame, TypeInv, FrameOK
<1>2. IsFiniteSet(Readers(m)) /\ t \notin Readers(m)
  BY FS_Subset DEF Readers, ReadyPCs, JoinReadyList
<1>3. Cardinality(Readers(m)) \in Nat
  BY <1>2, FS_CardinalityType
<1>4. Cardinality(Readers(m)') =
         IF m = mon[t] THEN Cardinality(Readers(m)) + 1 ELSE Cardinality(Readers(m))
  BY <1>1, <1>2, FS_AddElement
<1> QED BY <1>3, <1>4 DEF TypeInv, HeapOK, Counted, JoinReadyList, AddToReadyList

\* Every step keeps the ready lists counted.
LEMMA CountedStep ==
  ASSUME TypeInv, NEW t \in Threads,
         \/ EnterStep(t) \/ ExitStep(t) \/ OutsideEvent(t)
         \/ StopWaiting(t) \/ RestoreCount(t) \/ ManagedCall(t)
  PROVE  \A m \in Monitors : Counted(m)'
<1>0. FrameOK BY DEF TypeInv
<1> USE DEF FrameOK, ReadyPCs, Goto, Leave, frame, ready
<1>1. CASE EnterStep(t)
  <2>1. CASE AllocateMonitor(t)
    BY <1>0, <2>1, CountedQuiet DEF AllocateMonitor
  <2>2. CASE InstallMonitor(t)
    BY SMTT(30), <1>0, <2>2, CountedQuiet DEF InstallMonitor, EnterSucceeds
  <2>3. CASE LoseInstall(t)
    BY <1>0, <2>3, CountedQuiet DEF LoseInstall
  <2>4. CASE ReadMonitor(t)
    BY <1>0, <2>4, CountedQuiet DEF ReadMonitor
  <2>5. CASE EnterRecursively(t)
    BY SMTT(30), <1>0, <2>5, CountedQuiet DEF EnterRecursively, EnterSucceeds
  <2>6. CASE AcquireFree(t)
    BY <1>0, <2>6, CountedQuiet DEF AcquireFree
  <2>7. CASE ConfirmAcquire(t)
    BY <1>0, <2>7, CountedQuiet DEF ConfirmAcquire, EnterSucceeds
  <2>8. CASE UndoAcquire(t)
    BY <1>0, <2>8, CountedQuiet DEF UndoAcquire
  <2>9. CASE FindLocked(t)
    BY <1>0, <2>9, CountedQuiet DEF FindLocked, EnterFails
  <2>10. CASE JoinReadyList(t)
    BY <1>0, <2>10, CountedJoin
  <2>11. CASE CheckStillInstalled(t)
    BY <1>0, <2>11, CountedQuiet DEF CheckStillInstalled
  <2>12. CASE VacateDyingMonitor(t)
    BY <1>0, <2>12, CountedLeave DEF VacateDyingMonitor
  <2>13. CASE AcquireAsWaiter(t)
    BY <1>0, <2>13, CountedLeave DEF AcquireAsWaiter, EnterSucceeds
  <2>14. CASE FailAsWaiter(t)
    BY <1>0, <2>14, CountedQuiet DEF FailAsWaiter
  <2>15. CASE Awake(t)
    BY <1>0, <2>15, CountedQuiet DEF Awake
  <2>16. CASE LastWaiterChecks(t)
    BY <1>0, <2>16, CountedQuiet DEF LastWaiterChecks
  <2>17. CASE LastWaiterAcquires(t)
    BY <1>0, <2>17, CountedQuiet DEF LastWaiterAcquires, EnterSucceeds
  <2>18. CASE AcknowledgeTimeout(t)
    BY <1>0, <2>18, CountedQuiet DEF AcknowledgeTimeout, EnterFails
  <2> QED BY <1>1, <2>1, <2>2, <2>3, <2>4, <2>5, <2>6, <2>7, <2>8, <2>9, <2>10, <2>11, <2>12, <2>13, <2>14, <2>15, <2>16, <2>17, <2>18 DEF EnterStep
<1>2. CASE ExitStep(t)
  <2>1. CASE ChooseRelease(t)
    BY <1>0, <2>1, CountedQuiet DEF ChooseRelease
  <2>2. CASE Release(t)
    BY <1>0, <2>2, CountedQuiet DEF Release
  <2>3. CASE RecheckReadyList(t)
    BY SMTT(30), <1>0, <2>3, CountedQuiet DEF RecheckReadyList, ExitReturns
  <2>4. CASE SignalNext(t)
    BY <1>0, <2>4, CountedQuiet DEF SignalNext, ExitReturns
  <2>5. CASE Deflate(t)
    BY <1>0, <2>5, CountedQuiet DEF Deflate
  <2>6. CASE KickWaiters(t)
    BY <1>0, <2>6, CountedQuiet DEF KickWaiters
  <2>7. CASE AwaitAcknowledge(t)
    BY <1>0, <2>7, CountedQuiet DEF AwaitAcknowledge
  <2>8. CASE ReturnToFreeList(t)
    BY <1>0, <2>8, CountedQuiet DEF ReturnToFreeList, ExitReturns
  <2> QED BY <1>2, <2>1, <2>2, <2>3, <2>4, <2>5, <2>6, <2>7, <2>8 DEF ExitStep
<1>3. CASE OutsideEvent(t)
  <2>1. CASE AbortedInSleep(t)
    BY <2>1, CountedAbort
  <2>2. CASE InterruptedInSleep(t)
    BY <1>0, <2>2, CountedLeave DEF InterruptedInSleep
  <2>3. CASE TimeOut(t)
    BY <1>0, <2>3, CountedLeave DEF TimeOut
  <2> QED BY <1>3, <2>1, <2>2, <2>3 DEF OutsideEvent
<1>4. CASE StopWaiting(t) \/ RestoreCount(t)
  BY SMTT(30), <1>0, <1>4, CountedQuiet DEF StopWaiting, RestoreCount
<1>5. CASE ManagedCall(t)
  BY <1>0, <1>5, CountedQuiet, ZenonT(60)
     DEF ManagedCall, CallTryEnter, CallTryWait, CallExit, Pulse, PulseAll
<1> QED BY <1>1, <1>2, <1>3, <1>4, <1>5

LEMMA TypeInvInit == Init => TypeInv
<1> SUFFICES ASSUME Init PROVE TypeInv
  OBVIOUS
<1>1. HeapOK /\ FrameOK
  BY EmptySeq DEF Init, HeapOK, FrameOK, LocalsOK, PCs, EnterPCs, ExitPCs, Timeouts
<1>2. ASSUME NEW m \in Monitors PROVE Counted(m)
  <2>1. Readers(m) = {}
    BY DEF Init, Readers, ReadyPCs
  <2> QED BY <2>1, FS_EmptySet DEF Init, Counted
<1> QED BY <1>1, <1>2 DEF TypeInv

LEMMA TypeInvNext == TypeInv /\ [Next]_vars => TypeInv'
<1> SUFFICES ASSUME TypeInv, [Next]_vars PROVE TypeInv'
  OBVIOUS
<1>1. CASE Next
  <2>1. PICK t \in Threads :
           \/ EnterStep(t) \/ ExitStep(t) \/ OutsideEvent(t)
           \/ StopWaiting(t) \/ RestoreCount(t) \/ ManagedCall(t)
    BY <1>1 DEF Next
  <2> QED BY <2>1, FrameStep, HeapStep, CountedStep DEF TypeInv
<1>2. CASE UNCHANGED vars
  BY <1>2 DEF vars, lock, ready, pulse, frame, TypeInv, HeapOK, FrameOK, LocalsOK,
              Counted, Readers
<1> QED BY <1>1, <1>2

\* The state of the monitors and the locals of every thread stay well-typed,
\* whatever the numbers of threads, objects and monitors, and whichever
\* timeouts, interrupts and aborts occur.
THEOREM TypeCorrect == Spec => []TypeOK
<1>1. TypeInv => TypeOK
  BY DEF TypeInv, HeapOK, FrameOK, TypeOK
<1> QED BY <1>1, TypeInvInit, TypeInvNext, PTL DEF Spec

----------------------------------------------------------------------------
(* Mutual exclusion.  It needs two assumptions, without which the code does *)
(* not guarantee it: no native abort, and no TryEnter with a finite timeout *)
(* where monitors can move from one object to another.                      *)

NoTimedEnter == "timed" \notin EnterTimeouts
SingleObject == \A o, p \in Objects : o = p
NoStaleTimeout == NoTimedEnter \/ SingleObject
NoAbort == "abort" \notin Exceptions

\* Where a thread in Exit still owns its object's monitor, and where a thread
\* owns a monitor that no object carries.
OwningPCs == {"exitCheck", "exitPulse", "unacquirePost", "unacquireRecheck", "deflate"}
PrivatePCs == {"install", "flush", "flushWait"}

OneObject ==
    \A o, p \in Objects : monitor[o] = monitor[p] /\ monitor[o] # NoMonitor => o = p
FreeIsOff ==
    /\ \A m \in freeList : owningThreadId[m] = OnFreeList
    /\ \A m \in Monitors : owningThreadId[m] = OnFreeList =>
          threadsWaitingForPulse[m] = <<>> /\ \A o \in Objects : monitor[o] # m
AvailableIsInstalled ==
    \A m \in Monitors : owningThreadId[m] = Available => \E o \in Objects : monitor[o] = m

\* A thread about to install a monitor, or flushing one, has it to itself.
PrivateMonitor(t) ==
    pc[t] \in PrivatePCs =>
       /\ owningThreadId[mon[t]] = t
       /\ threadsWaitingForPulse[mon[t]] = <<>>
       /\ \A o \in Objects : monitor[o] # mon[t]

\* A thread in Exit owns its object's monitor until it lets go of it.
OwnerInExit(t) ==
    /\ pc[t] \in OwningPCs =>
          owningThreadId[mon[t]] = t /\ monitor[obj[t]] = mon[t] /\ held[t][obj[t]] = 0
    /\ pc[t] = "deflate" => threadsWaitingForPulse[mon[t]] = <<>>

\* A thread that has entered again for Wait owns its object's monitor.
OwnerInWait(t) ==
    pc[t] = "restore" =>
       monitor[obj[t]] # NoMonitor /\ owningThreadId[monitor[obj[t]]] = t

\* A thread that took a monitor without knowing whether it is the right one.
OwnerInRecheck(t) ==
    pc[t] = "recheck" =>
       /\ owningThreadId[mon[t]] = t
       /\ \A o \in Objects : monitor[o] = mon[t] => held[t][o] = 0
       /\ \E o \in Objects : monitor[o] = mon[t]

\* These are all the ways to own a monitor.
OwnersKnow(t) ==
    \A m \in Monitors : owningThreadId[m] = t =>
       \/ \E o \in Objects : monitor[o] = m /\ held[t][o] > 0
       \/ mon[t] = m /\ pc[t] \in {"recheck"} \cup OwningPCs \cup PrivatePCs
       \/ pc[t] = "restore" /\ monitor[obj[t]] = m

\* A thread that is on a ready list and has seen its monitor installed keeps
\* that monitor from being recycled.
Pinned(t) ==
    pc[t] \in {"loop", "grab", "sleep"} =>
       \/ monitor[obj[t]] = mon[t]
       \/ \E u \in Threads : mon[u] = mon[t] /\ pc[u] \in {"flush", "flushWait"}

\* A monitor read by its owner stays on the object.
ReadByOwner(t) ==
    pc[t] = "check" /\ owningThreadId[mon[t]] = t => monitor[obj[t]] = mon[t]

\* In Wait the object is not held, and the locals stay as TryWait set them.
WaitFrame(t) ==
    /\ savedCount[t] # 0 => pc[t] # "idle" /\ held[t][obj[t]] = 0
    /\ ~SingleObject => /\ pc[t] \in EnterPCs => timeout[t] # "timed"
                        /\ pc[t] \notin {"lastWaiter", "timeoutGrab", "timeoutAck"}

CountIsHeld ==
    \A m \in Monitors : recursiveLockingCount[m] # 1 =>
       \E t \in Threads, o \in Objects : monitor[o] = m /\ held[t][o] > 0

\* HeldIsOwned, for one thread.
HeldBy(t) ==
    \A o \in Objects : held[t][o] > 0 =>
       /\ monitor[o] # NoMonitor
       /\ owningThreadId[monitor[o]] = t
       /\ recursiveLockingCount[monitor[o]] = held[t][o]

\* What thread t itself must find true, apart from Pinned.
OwnInv(t) ==
    /\ PrivateMonitor(t) /\ OwnerInExit(t) /\ OwnerInWait(t) /\ OwnerInRecheck(t)
    /\ OwnersKnow(t) /\ ReadByOwner(t) /\ WaitFrame(t) /\ HeldBy(t)

LockInv ==
    /\ TypeInv
    /\ OneObject /\ FreeIsOff /\ AvailableIsInstalled /\ CountIsHeld
    /\ \A m \in Monitors : ~threadAborted[m]
    /\ \A t \in Threads : OwnInv(t) /\ Pinned(t)

\* What a step of thread t may do to monitors: it changes only those that it
\* owns, that are available or that are on the free list.
Respects(t) ==
    /\ \A u \in Threads \ {t} :
          /\ pc'[u] = pc[u] /\ mon'[u] = mon[u] /\ obj'[u] = obj[u] /\ held'[u] = held[u]
          /\ timeout'[u] = timeout[u] /\ savedCount'[u] = savedCount[u]
    /\ \A m \in Monitors :
          /\ owningThreadId'[m] = owningThreadId[m]
             \/ /\ owningThreadId[m] \in {t, Available, OnFreeList}
                /\ owningThreadId'[m] \in {t, Available, OnFreeList}
          /\ threadsWaitingForPulse'[m] = threadsWaitingForPulse[m] \/ owningThreadId[m] = t
          /\ recursiveLockingCount'[m] = recursiveLockingCount[m] \/ owningThreadId[m] = t
    /\ \A o \in Objects :
          \/ monitor'[o] = monitor[o]
          \/ monitor[o] = NoMonitor /\ owningThreadId[monitor'[o]] = t
          \/ monitor'[o] = NoMonitor /\ owningThreadId[monitor[o]] = t

\* Then whatever another thread relies on stays true.
LEMMA OthersStep ==
  ASSUME LockInv, TypeInv', NEW t \in Threads, Respects(t), NEW u \in Threads \ {t}
  PROVE  OwnInv(u)'
<1>0. OwnInv(u) /\ HeapOK /\ FrameOK /\ HeapOK' /\ LocalsOK(u)
  BY DEF LockInv, TypeInv, FrameOK
<1>1. mon[u] \in Monitors =>
         /\ owningThreadId[mon[u]] = u => owningThreadId'[mon[u]] = u
         /\ owningThreadId'[mon[u]] = u => owningThreadId[mon[u]] = u
  BY <1>0 DEF Respects
<1>2. ASSUME NEW o \in Objects
      PROVE  /\ monitor[o] # NoMonitor /\ owningThreadId[monitor[o]] = u
                   => monitor'[o] = monitor[o] /\ owningThreadId'[monitor[o]] = u
                      /\ recursiveLockingCount'[monitor[o]] = recursiveLockingCount[monitor[o]]
             /\ monitor'[o] # NoMonitor /\ owningThreadId[monitor'[o]] = u
                   => monitor'[o] = monitor[o]
  <2>1. \/ monitor'[o] = monitor[o]
        \/ monitor[o] = NoMonitor /\ owningThreadId[monitor'[o]] = t
        \/ monitor'[o] = NoMonitor /\ owningThreadId[monitor[o]] = t
    BY DEF Respects
  <2>2. monitor[o] \in Monitors =>
           /\ owningThreadId[monitor[o]] = u => owningThreadId'[monitor[o]] = u
           /\ recursiveLockingCount'[monitor[o]] = recursiveLockingCount[monitor[o]]
              \/ owningThreadId[monitor[o]] = t
    BY DEF Respects
  <2>3. monitor[o] \in Monitors \cup {NoMonitor}
    BY <1>0 DEF HeapOK
  <2> QED BY <2>1, <2>2, <2>3
<1>3. PrivateMonitor(u)'
  BY <1>0, <1>1, <1>2 DEF Respects, OwnInv, PrivateMonitor, LocalsOK, PrivatePCs, EnterPCs, ExitPCs, HeapOK
<1>4. OwnerInExit(u)'
  BY <1>0, <1>1, <1>2 DEF Respects, OwnInv, OwnerInExit, LocalsOK, OwningPCs, EnterPCs, ExitPCs
<1>5. OwnerInWait(u)'
  BY <1>0, <1>2 DEF Respects, OwnInv, OwnerInWait, LocalsOK
<1>6. OwnerInRecheck(u)'
  BY <1>0, <1>1, <1>2 DEF Respects, OwnInv, OwnerInRecheck, LocalsOK, EnterPCs
<1>7. OwnersKnow(u)'
  <2> SUFFICES ASSUME NEW m \in Monitors, owningThreadId'[m] = u
               PROVE  \/ \E o \in Objects : monitor'[o] = m /\ held'[u][o] > 0
                      \/ mon'[u] = m /\ pc'[u] \in {"recheck"} \cup OwningPCs \cup PrivatePCs
                      \/ pc'[u] = "restore" /\ monitor'[obj'[u]] = m
    BY DEF OwnersKnow
  <2>1. owningThreadId[m] = u
    BY DEF Respects
  <2>2. CASE \E o \in Objects : monitor[o] = m /\ held[u][o] > 0
    BY <1>2, <2>1, <2>2 DEF Respects
  <2>3. CASE mon[u] = m /\ pc[u] \in {"recheck"} \cup OwningPCs \cup PrivatePCs
    BY <2>3 DEF Respects
  <2>4. CASE pc[u] = "restore" /\ monitor[obj[u]] = m
    BY <1>0, <1>2, <2>1, <2>4 DEF Respects, LocalsOK
  <2> QED BY <1>0, <2>1, <2>2, <2>3, <2>4 DEF OwnInv, OwnersKnow
<1>8. ReadByOwner(u)' /\ WaitFrame(u)'
  BY <1>0, <1>1, <1>2 DEF Respects, OwnInv, ReadByOwner, WaitFrame, LocalsOK, EnterPCs
<1>9. HeldBy(u)'
  BY <1>0, <1>2 DEF Respects, OwnInv, HeldBy
<1> QED BY <1>3, <1>4, <1>5, <1>6, <1>7, <1>8, <1>9 DEF OwnInv

\* Pins hold as long as no installed monitor is taken off its object, and
\* nobody stops flushing.
LEMMA PinnedStep ==
  ASSUME LockInv, TypeInv', NEW t \in Threads, Respects(t),
         \A o \in Objects : monitor[o] # NoMonitor => monitor'[o] = monitor[o],
         pc[t] \in {"flush", "flushWait"} =>
            pc'[t] \in {"flush", "flushWait"} /\ mon'[t] = mon[t],
         Pinned(t)'
  PROVE  \A u \in Threads : Pinned(u)'
<1> SUFFICES ASSUME NEW u \in Threads \ {t} PROVE Pinned(u)'
  OBVIOUS
<1>1. Pinned(u) /\ FrameOK /\ HeapOK /\ LocalsOK(u) BY DEF LockInv, TypeInv, FrameOK
<1> QED BY <1>1 DEF Respects, Pinned, LocalsOK, EnterPCs

\* Steps that leave locks, lists and holders alone.
Local(t) ==
    /\ Respects(t)
    /\ UNCHANGED <<lock, threadsWaitingForPulse, threadAborted, held>>
    /\ pc[t] \in {"flush", "flushWait"} =>
          pc'[t] \in {"flush", "flushWait"} /\ mon'[t] = mon[t]

LEMMA LocalStep ==
  ASSUME LockInv, TypeInv', NEW t \in Threads, Local(t), OwnInv(t)', Pinned(t)'
  PROVE  LockInv'
<1>1. OneObject' /\ FreeIsOff' /\ AvailableIsInstalled' /\ CountIsHeld'
  BY DEF LockInv, Local, lock, OneObject, FreeIsOff, AvailableIsInstalled, CountIsHeld
<1>2. \A m \in Monitors : ~threadAborted'[m]
  BY DEF LockInv, Local
<1>3. \A u \in Threads : OwnInv(u)' /\ Pinned(u)'
  BY SMTT(30), OthersStep, PinnedStep DEF Local, lock
<1> QED BY <1>1, <1>2, <1>3 DEF LockInv

\* The steps of a call that only look at shared state, or only change ready
\* lists, semaphores and events.
LEMMA LockStepLocal ==
  ASSUME LockInv, TypeInv', NEW t \in Threads,
         \/ ReadMonitor(t) \/ FindLocked(t) \/ JoinReadyList(t) \/ CheckStillInstalled(t)
         \/ VacateDyingMonitor(t) \/ FailAsWaiter(t) \/ Awake(t) \/ InterruptedInSleep(t)
         \/ KickWaiters(t) \/ AwaitAcknowledge(t) \/ RecheckReadyList(t) \/ SignalNext(t)
         \/ ChooseRelease(t) \/ StopWaiting(t) \/ TimeOut(t) \/ LastWaiterChecks(t)
         \/ AcknowledgeTimeout(t) \/ (LastWaiterAcquires(t) /\ owningThreadId[mon[t]] # Available)
  PROVE  LockInv'
<1>0. HeapOK /\ FrameOK /\ LocalsOK(t) /\ OwnInv(t) /\ Pinned(t)
  BY DEF LockInv, TypeInv, FrameOK
<1> SUFFICES Local(t) /\ OwnInv(t)' /\ Pinned(t)'
  BY LocalStep
<1> USE DEF HeapOK, FrameOK, LocalsOK, OwnInv, Local, Respects, Goto,
            lock, ready, pulse, frame, OwningPCs, PrivatePCs, EnterPCs, ExitPCs,
            PrivateMonitor, OwnerInExit, OwnerInWait, OwnerInRecheck, OwnersKnow,
            Pinned, ReadByOwner, WaitFrame, HeldBy
<1>1. CASE ReadMonitor(t)
  BY <1>0, <1>1 DEF ReadMonitor
<1>2. CASE FindLocked(t)
  <2>1. CASE EnterFails(t)
    BY <1>0, <1>2, <2>1 DEF FindLocked, CannotAcquire, EnterFails, Leave
  <2>2. CASE Goto(t, "ready") /\ UNCHANGED frame
    BY <1>0, <1>2, <2>2 DEF FindLocked, CannotAcquire
  <2> QED BY <1>2, <2>1, <2>2 DEF FindLocked
<1>3. CASE JoinReadyList(t)
  BY <1>0, <1>3 DEF JoinReadyList
<1>4. CASE CheckStillInstalled(t)
  <2>1. CASE monitor[obj[t]] # mon[t]
    BY SMTT(30), <1>0, <1>4, <2>1 DEF CheckStillInstalled
  <2>2. CASE monitor[obj[t]] = mon[t] /\ pc[t] = "verify"
    BY <1>0, <1>4, <2>2 DEF CheckStillInstalled
  <2>3. CASE monitor[obj[t]] = mon[t] /\ pc[t] = "loop"
    BY <1>0, <1>4, <2>3 DEF CheckStillInstalled
  <2> QED BY <1>4, <2>1, <2>2, <2>3 DEF CheckStillInstalled
<1>5. CASE VacateDyingMonitor(t)
  BY <1>0, <1>5 DEF VacateDyingMonitor
<1>6. CASE FailAsWaiter(t)
  BY <1>0, <1>6 DEF FailAsWaiter, CannotAcquire
<1>7. CASE Awake(t)
  BY <1>0, <1>7 DEF Awake
<1>8. CASE InterruptedInSleep(t)
  BY <1>0, <1>8 DEF InterruptedInSleep, Leave
<1>9. CASE KickWaiters(t)
  BY <1>0, <1>9 DEF KickWaiters
<1>10. CASE AwaitAcknowledge(t)
  BY <1>0, <1>10 DEF AwaitAcknowledge
<1>11. CASE RecheckReadyList(t)
  BY <1>0, <1>11 DEF RecheckReadyList, ExitReturns, Leave
<1>12. CASE SignalNext(t)
  BY SMTT(30), <1>0, <1>12 DEF SignalNext, ExitReturns, Leave
<1>13. CASE ChooseRelease(t)
  BY SMTT(30), <1>0, <1>13 DEF ChooseRelease
<1>14. CASE StopWaiting(t)
  BY <1>0, <1>14 DEF StopWaiting
<1>15. CASE TimeOut(t)
  BY <1>0, <1>15 DEF TimeOut
<1>16. CASE LastWaiterChecks(t)
  BY <1>0, <1>16 DEF LastWaiterChecks
<1>17. CASE AcknowledgeTimeout(t)
  BY <1>0, <1>17 DEF AcknowledgeTimeout, EnterFails, Leave
<1>18. CASE LastWaiterAcquires(t) /\ owningThreadId[mon[t]] # Available
  BY <1>0, <1>18 DEF LastWaiterAcquires, TryAcquire, CannotAcquire
<1> QED BY <1>1, <1>2, <1>3, <1>4, <1>5, <1>6, <1>7, <1>8, <1>9, <1>10, <1>11, <1>12, <1>13, <1>14,
          <1>15, <1>16, <1>17, <1>18

\* A step by which thread t comes to own the monitor m of the object o it is
\* entering, nobody holding that object.
Gains(t, o, m) ==
    /\ obj[t] = o /\ monitor' = [monitor EXCEPT ![o] = m]
    /\ monitor[o] \in {m, NoMonitor}
    /\ \A p \in Objects : monitor[p] = m => p = o
    /\ owningThreadId[m] \in {t, Available} /\ owningThreadId' = [owningThreadId EXCEPT ![m] = t]
    /\ \A u \in Threads, p \in Objects : monitor'[p] = m => held[u][p] = 0
    /\ recursiveLockingCount[m] = 1
    /\ UNCHANGED <<recursiveLockingCount, freeList, threadsWaitingForPulse, threadAborted>>
    /\ pc[t] \in {"install", "recheck", "grab", "timeoutGrab"}
    /\ pc[t] # "grab" => mon[t] = m
    /\ EnterSucceeds(t)

LEMMA GainStep ==
  ASSUME LockInv, TypeInv', NEW t \in Threads, NEW o \in Objects, NEW m \in Monitors,
         Gains(t, o, m)
  PROVE  LockInv'
<1>0. /\ HeapOK /\ FrameOK /\ LocalsOK(t) /\ OwnInv(t) /\ Pinned(t)
      /\ HeapOK' /\ FrameOK' /\ OneObject /\ FreeIsOff /\ AvailableIsInstalled /\ CountIsHeld
  BY DEF LockInv, TypeInv, FrameOK
<1>1. \/ /\ savedCount[t] = 0 /\ pc' = [pc EXCEPT ![t] = "idle"]
         /\ held' = [held EXCEPT ![t][o] = held[t][o] + 1]
         /\ savedCount'[t] = 0
      \/ /\ savedCount[t] # 0 /\ pc' = [pc EXCEPT ![t] = "restore"]
         /\ held' = held /\ obj' = obj /\ UNCHANGED frame
  <2>1. CASE savedCount[t] = 0
    BY <1>0, <2>1 DEF Gains, EnterSucceeds, Leave, Goto, FrameOK
  <2>2. CASE savedCount[t] # 0
    BY <2>2 DEF Gains, EnterSucceeds, Goto, frame
  <2> QED BY <2>1, <2>2
<1>2. Respects(t)
  <2>1. \A u \in Threads \ {t} :
           /\ pc'[u] = pc[u] /\ mon'[u] = mon[u] /\ obj'[u] = obj[u] /\ held'[u] = held[u]
           /\ timeout'[u] = timeout[u] /\ savedCount'[u] = savedCount[u]
    <3>1. CASE savedCount[t] = 0
      BY <1>0, <3>1 DEF Gains, EnterSucceeds, Leave, Goto, FrameOK
    <3>2. CASE savedCount[t] # 0
      BY <1>0, <3>2 DEF Gains, EnterSucceeds, Goto, frame, FrameOK
    <3> QED BY <3>1, <3>2
  <2>2. \A n \in Monitors :
           /\ owningThreadId'[n] = owningThreadId[n]
              \/ /\ owningThreadId[n] \in {t, Available, OnFreeList}
                 /\ owningThreadId'[n] \in {t, Available, OnFreeList}
           /\ threadsWaitingForPulse'[n] = threadsWaitingForPulse[n]
           /\ recursiveLockingCount'[n] = recursiveLockingCount[n]
    BY <1>0 DEF Gains, HeapOK
  <2>3. \A p \in Objects :
           monitor'[p] = monitor[p] \/ (monitor[p] = NoMonitor /\ owningThreadId[monitor'[p]] = t)
    <3>1. monitor[o] # m => owningThreadId[m] # Available
      BY <1>0 DEF Gains, AvailableIsInstalled
    <3>2. monitor'[o] = m /\ \A p \in Objects \ {o} : monitor'[p] = monitor[p]
      BY <1>0 DEF Gains, HeapOK
    <3>3. monitor[o] = m \/ (monitor[o] = NoMonitor /\ owningThreadId[m] = t)
      BY <3>1 DEF Gains
    <3> QED BY <3>2, <3>3
  <2> QED BY <2>1, <2>2, <2>3 DEF Respects
<1>3. OneObject' /\ FreeIsOff' /\ AvailableIsInstalled'
  BY SMTT(30), <1>0 DEF Gains, OneObject, FreeIsOff, AvailableIsInstalled, HeapOK
<1>4. CountIsHeld'
  <2> SUFFICES ASSUME NEW n \in Monitors, recursiveLockingCount[n] # 1
               PROVE  \E u \in Threads, p \in Objects : monitor'[p] = n /\ held'[u][p] > 0
    BY DEF CountIsHeld, Gains
  <2>1. PICK u \in Threads, p \in Objects : monitor[p] = n /\ held[u][p] > 0
    BY <1>0 DEF CountIsHeld
  <2>2. n # m
    BY DEF Gains
  <2>3. p # o /\ monitor'[p] = n
    BY <1>0, <2>1, <2>2 DEF Gains, HeapOK
  <2>4. held'[u][p] = held[u][p]
    BY SMTT(30), <1>0, <1>1, <2>3 DEF FrameOK
  <2> QED BY <2>1, <2>3, <2>4
<1>5. Pinned(t)'
  BY <1>1, <1>0 DEF Pinned, FrameOK
<1>6. \A u \in Threads : Pinned(u)'
  BY <1>0, <1>2, <1>5, PinnedStep DEF Gains, HeapOK
<1>7. OwnInv(t)'
  <2>1. (PrivateMonitor(t) /\ OwnerInExit(t) /\ OwnerInRecheck(t) /\ ReadByOwner(t))'
    BY <1>0, <1>1 DEF PrivateMonitor, OwnerInExit, OwnerInRecheck, ReadByOwner, PrivatePCs,
                      OwningPCs, FrameOK
  <2>2. OwnerInWait(t)'
    BY <1>0, <1>1 DEF OwnerInWait, Gains, FrameOK, HeapOK
  <2>3. HeldBy(t)'
    <3> SUFFICES ASSUME NEW p \in Objects, held'[t][p] > 0
                 PROVE  /\ monitor'[p] # NoMonitor /\ owningThreadId'[monitor'[p]] = t
                        /\ recursiveLockingCount'[monitor'[p]] = held'[t][p]
      BY DEF HeldBy
    <3>1. CASE p = o
      <4>1. monitor'[o] = m /\ held[t][o] = 0 /\ owningThreadId'[m] = t
        BY <1>0 DEF Gains, HeapOK
      <4>2. held'[t][o] = 1
        BY <1>0, <1>1, <3>1, <4>1 DEF FrameOK
      <4> QED BY <1>0, <3>1, <4>1, <4>2 DEF Gains
    <3>2. CASE p # o
      <4>1. held[t][p] > 0 /\ held'[t][p] = held[t][p]
        BY <1>0, <1>1, <3>2 DEF FrameOK
      <4>2. monitor'[p] = monitor[p] /\ monitor[p] # m
        BY <1>0, <3>2 DEF Gains, HeapOK
      <4> QED BY <1>0, <4>1, <4>2 DEF Gains, OwnInv, HeldBy, HeapOK
    <3> QED BY <3>1, <3>2
  <2>4. OwnersKnow(t)'
    <3> SUFFICES ASSUME NEW n \in Monitors, owningThreadId'[n] = t
                 PROVE  \/ \E p \in Objects : monitor'[p] = n /\ held'[t][p] > 0
                        \/ pc'[t] = "restore" /\ monitor'[obj'[t]] = n
      BY DEF OwnersKnow
    <3>1. CASE n = m
      <4>1. monitor'[o] = m /\ obj[t] = o
        BY <1>0 DEF Gains, HeapOK
      <4>2. held'[t][o] > 0 \/ (pc'[t] = "restore" /\ obj'[t] = o)
        BY <1>0, <1>1, <4>1 DEF FrameOK
      <4> QED BY <3>1, <4>1, <4>2
    <3>2. CASE n # m
      <4>1. owningThreadId[n] = t
        BY <1>0, <3>2 DEF Gains, HeapOK
      <4>2. PICK p \in Objects : monitor[p] = n /\ held[t][p] > 0
        <5>1. ~(mon[t] = n /\ pc[t] \in {"recheck"} \cup OwningPCs \cup PrivatePCs)
          BY <1>0, <3>2, <4>1 DEF Gains, OwningPCs, PrivatePCs
        <5> QED BY <1>0, <4>1, <5>1 DEF OwnInv, OwnersKnow, Gains
      <4>3. p # o /\ monitor'[p] = n
        BY <1>0, <3>2, <4>2 DEF Gains, HeapOK
      <4> QED BY <1>0, <1>1, <4>2, <4>3 DEF FrameOK
    <3> QED BY <3>1, <3>2
  <2>5. WaitFrame(t)'
    BY <1>0, <1>1 DEF OwnInv, WaitFrame, FrameOK, EnterPCs
  <2> QED BY <2>1, <2>2, <2>3, <2>4, <2>5 DEF OwnInv
<1>8. \A n \in Monitors : ~threadAborted'[n]
  BY DEF LockInv, Gains
<1> QED BY <1>2, <1>3, <1>4, <1>6, <1>7, <1>8, OthersStep DEF LockInv

LEMMA LockStepGain ==
  ASSUME LockInv, TypeInv', NEW t \in Threads,
         \/ InstallMonitor(t) \/ ConfirmAcquire(t) \/ AcquireAsWaiter(t)
         \/ (LastWaiterAcquires(t) /\ owningThreadId[mon[t]] = Available)
  PROVE  LockInv'
<1>0. /\ HeapOK /\ FrameOK /\ LocalsOK(t) /\ OwnInv(t) /\ Pinned(t)
      /\ OneObject /\ FreeIsOff /\ AvailableIsInstalled /\ CountIsHeld
      /\ \A u \in Threads : HeldBy(u) /\ PrivateMonitor(u)
  BY DEF LockInv, TypeInv, FrameOK, OwnInv
<1> DEFINE o == obj[t]
           m == mon[t]
<1>1. pc[t] \in {"install", "recheck", "grab", "timeoutGrab"} /\ o \in Objects /\ m \in Monitors
  BY <1>0 DEF InstallMonitor, ConfirmAcquire, AcquireAsWaiter, LastWaiterAcquires, LocalsOK, EnterPCs
<1>2. EnterSucceeds(t)
  BY DEF InstallMonitor, ConfirmAcquire, AcquireAsWaiter, LastWaiterAcquires, CannotAcquire
<1>3. UNCHANGED <<recursiveLockingCount, freeList, threadsWaitingForPulse, threadAborted>>
  BY DEF InstallMonitor, ConfirmAcquire, AcquireAsWaiter, LastWaiterAcquires, lock, ready, pulse
<1>4. ASSUME \A u \in Threads, p \in Objects : monitor[p] = m => held[u][p] = 0
      PROVE  recursiveLockingCount[m] = 1
  BY <1>0, <1>1, <1>4 DEF CountIsHeld
<1> HIDE DEF o, m
<1>5. Gains(t, o, m)
  <2>1. CASE InstallMonitor(t)
    <3>1. pc[t] = "install" /\ monitor[o] = NoMonitor /\ UNCHANGED owningThreadId
          /\ monitor' = [monitor EXCEPT ![o] = m]
      BY <2>1 DEF InstallMonitor, o, m
    <3>2. owningThreadId[m] = t /\ \A p \in Objects : monitor[p] # m
      BY <1>0, <3>1 DEF PrivateMonitor, PrivatePCs, m
    <3>3. recursiveLockingCount[m] = 1
      BY <1>4, <3>2
    <3>4. \A u \in Threads : held[u][o] = 0
      BY <1>0, <1>1, <3>1 DEF HeldBy, FrameOK
    <3>5. \A p \in Objects : monitor'[p] = m => p = o
      BY <1>0, <1>1, <3>1, <3>2 DEF HeapOK
    <3>6. owningThreadId' = [owningThreadId EXCEPT ![m] = t]
      BY <1>0, <1>1, <3>1, <3>2 DEF HeapOK
    <3> QED BY <1>1, <1>2, <1>3, <3>1, <3>2, <3>3, <3>4, <3>5, <3>6 DEF Gains, o, m
  <2>2. CASE ConfirmAcquire(t)
    <3>1. pc[t] = "recheck" /\ monitor[o] = m /\ UNCHANGED <<monitor, owningThreadId>>
      BY <2>2 DEF ConfirmAcquire, lock, o, m
    <3>2. owningThreadId[m] = t /\ held[t][o] = 0
      BY <1>0, <1>1, <3>1 DEF OwnInv, OwnerInRecheck, m
    <3>3. \A p \in Objects : monitor[p] = m => p = o
      BY <1>0, <1>1, <3>1, NullAssumption DEF OneObject
    <3>4. \A u \in Threads, p \in Objects : monitor[p] = m => held[u][p] = 0
      BY <1>0, <3>2, <3>3 DEF HeldBy, FrameOK
    <3>5. recursiveLockingCount[m] = 1
      BY <1>4, <3>4
    <3>6. owningThreadId' = [owningThreadId EXCEPT ![m] = t] /\ monitor' = [monitor EXCEPT ![o] = m]
      BY <1>0, <1>1, <3>1, <3>2 DEF HeapOK
    <3> QED BY <1>1, <1>2, <1>3, <3>1, <3>2, <3>3, <3>4, <3>5, <3>6 DEF Gains, o, m
  <2>3. CASE AcquireAsWaiter(t) \/ (LastWaiterAcquires(t) /\ owningThreadId[mon[t]] = Available)
    <3>1. pc[t] \in {"grab", "timeoutGrab"} /\ owningThreadId[m] = Available /\ UNCHANGED monitor
          /\ owningThreadId' = [owningThreadId EXCEPT ![m] = t]
      BY <2>3 DEF AcquireAsWaiter, LastWaiterAcquires, TryAcquire, CannotAcquire, m
    <3>2. monitor[o] = m
      <4>1. CASE pc[t] = "grab"
        BY <1>0, <3>1, <4>1, OwnerAssumption DEF Pinned, PrivateMonitor, PrivatePCs, o, m
      <4>2. CASE pc[t] = "timeoutGrab"
        <5>1. SingleObject
          BY <1>0, <4>2 DEF OwnInv, WaitFrame
        <5> QED BY <1>0, <1>1, <3>1, <5>1 DEF AvailableIsInstalled, SingleObject
      <4> QED BY <3>1, <4>1, <4>2
    <3>3. \A p \in Objects : monitor[p] = m => p = o
      BY <1>0, <1>1, <3>2, NullAssumption DEF OneObject
    <3>4. \A u \in Threads, p \in Objects : monitor[p] = m => held[u][p] = 0
      BY <1>0, <3>1, OwnerAssumption DEF HeldBy, FrameOK
    <3>5. recursiveLockingCount[m] = 1
      BY <1>4, <3>4
    <3>6. monitor' = [monitor EXCEPT ![o] = m]
      BY <1>0, <1>1, <3>1, <3>2 DEF HeapOK
    <3> QED BY <1>1, <1>2, <1>3, <3>1, <3>2, <3>3, <3>4, <3>5, <3>6 DEF Gains, o, m
  <2> QED BY <2>1, <2>2, <2>3
<1> QED BY <1>1, <1>5, GainStep

\* The steps that change who owns or holds what.
LEMMA OwnStep ==
  ASSUME LockInv, TypeInv', NEW t \in Threads, Respects(t), UNCHANGED threadAborted,
         OneObject', FreeIsOff', AvailableIsInstalled', CountIsHeld', OwnInv(t)',
         \A u \in Threads : Pinned(u)'
  PROVE  LockInv'
<1>1. \A m \in Monitors : ~threadAborted'[m]
  BY DEF LockInv
<1> QED BY <1>1, OthersStep DEF LockInv

LEMMA LockStepAllocate ==
  ASSUME LockInv, TypeInv', NEW t \in Threads,
         AllocateMonitor(t) \/ LoseInstall(t)
  PROVE  LockInv'
<1>0. /\ HeapOK /\ FrameOK /\ LocalsOK(t) /\ OwnInv(t)
      /\ OneObject /\ FreeIsOff /\ AvailableIsInstalled /\ CountIsHeld
  BY DEF LockInv, TypeInv, FrameOK
<1>1. /\ UNCHANGED <<monitor, recursiveLockingCount, threadsWaitingForPulse, threadAborted, held,
                     obj, timeout, savedCount>>
      /\ pc[t] \in {"read", "install"} /\ pc'[t] \in {"read", "install"}
  BY <1>0 DEF AllocateMonitor, LoseInstall, Goto, ready, pulse, FrameOK
<1>2. CASE AllocateMonitor(t)
  <2>1. PICK m \in freeList : /\ freeList' = freeList \ {m}
                              /\ owningThreadId' = [owningThreadId EXCEPT ![m] = t]
                              /\ mon' = [mon EXCEPT ![t] = m]
    BY <1>2 DEF AllocateMonitor
  <2>2. pc[t] = "read" /\ pc' = [pc EXCEPT ![t] = "install"]
    BY <1>2 DEF AllocateMonitor, Goto
  <2>3. m \in Monitors /\ owningThreadId[m] = OnFreeList /\ threadsWaitingForPulse[m] = <<>>
        /\ \A o \in Objects : monitor[o] # m
    BY <1>0 DEF FreeIsOff, HeapOK
  <2>4. Respects(t)
    BY <1>0, <1>1, <2>1, <2>2, <2>3 DEF Respects, HeapOK, FrameOK
  <2>5. OneObject' /\ FreeIsOff' /\ AvailableIsInstalled' /\ CountIsHeld'
    BY <1>0, <1>1, <2>1, <2>3, OwnerAssumption DEF OneObject, FreeIsOff, AvailableIsInstalled, CountIsHeld, HeapOK
  <2>6. OwnInv(t)'
    <3>1. PrivateMonitor(t)' /\ OwnerInExit(t)' /\ OwnerInWait(t)' /\ OwnerInRecheck(t)'
          /\ ReadByOwner(t)' /\ WaitFrame(t)'
      BY <1>0, <1>1, <2>1, <2>2, <2>3 DEF OwnInv, PrivateMonitor, OwnerInExit, OwnerInWait, OwnerInRecheck,
         ReadByOwner, WaitFrame, PrivatePCs, OwningPCs, EnterPCs, HeapOK, FrameOK
    <3>2. HeldBy(t)'
      BY <1>0, <1>1, <2>1, <2>3 DEF OwnInv, HeldBy, HeapOK
    <3>3. OwnersKnow(t)'
      BY <1>0, <1>1, <2>1, <2>2, <2>3 DEF OwnInv, OwnersKnow, HeapOK, FrameOK, PrivatePCs, OwningPCs
    <3> QED BY <3>1, <3>2, <3>3 DEF OwnInv
  <2>7. Pinned(t)'
    BY <1>0, <2>2 DEF Pinned, FrameOK
  <2>8. \A u \in Threads : Pinned(u)'
    BY <1>1, <2>2, <2>4, <2>7, PinnedStep
  <2> QED BY <1>1, <2>4, <2>5, <2>6, <2>8, OwnStep
<1>3. CASE LoseInstall(t)
  <2>1. /\ pc[t] = "install" /\ pc' = [pc EXCEPT ![t] = "read"]
        /\ owningThreadId' = [owningThreadId EXCEPT ![mon[t]] = OnFreeList]
        /\ freeList' = freeList \cup {mon[t]} /\ mon' = [mon EXCEPT ![t] = NoMonitor]
    BY <1>3 DEF LoseInstall, Goto
  <2>2. mon[t] \in Monitors /\ owningThreadId[mon[t]] = t /\ threadsWaitingForPulse[mon[t]] = <<>>
        /\ \A o \in Objects : monitor[o] # mon[t]
    BY <1>0, <2>1 DEF OwnInv, PrivateMonitor, PrivatePCs, LocalsOK, EnterPCs
  <2>4. Respects(t)
    BY <1>0, <1>1, <2>1, <2>2 DEF Respects, HeapOK, FrameOK
  <2>5. OneObject' /\ FreeIsOff' /\ AvailableIsInstalled' /\ CountIsHeld'
    BY <1>0, <1>1, <2>1, <2>2, OwnerAssumption DEF OneObject, FreeIsOff, AvailableIsInstalled, CountIsHeld, HeapOK
  <2>6. OwnInv(t)'
    <3>1. PrivateMonitor(t)' /\ OwnerInExit(t)' /\ OwnerInWait(t)' /\ OwnerInRecheck(t)'
          /\ ReadByOwner(t)' /\ WaitFrame(t)'
      BY <1>0, <1>1, <2>1, <2>2 DEF OwnInv, PrivateMonitor, OwnerInExit, OwnerInWait, OwnerInRecheck,
         ReadByOwner, WaitFrame, PrivatePCs, OwningPCs, EnterPCs, HeapOK, FrameOK
    <3>2. HeldBy(t)'
      BY <1>0, <1>1, <2>1, <2>2 DEF OwnInv, HeldBy, HeapOK
    <3>3. OwnersKnow(t)'
      BY <1>0, <1>1, <2>1, <2>2, OwnerAssumption DEF OwnInv, OwnersKnow, HeapOK, FrameOK, PrivatePCs, OwningPCs
    <3> QED BY <3>1, <3>2, <3>3 DEF OwnInv
  <2>7. Pinned(t)'
    BY <1>0, <2>1 DEF Pinned, FrameOK
  <2>8. \A u \in Threads : Pinned(u)'
    BY <1>1, <2>1, <2>4, <2>7, PinnedStep
  <2> QED BY <1>1, <2>4, <2>5, <2>6, <2>8, OwnStep
<1> QED BY <1>2, <1>3

LEMMA LockStepRecheck ==
  ASSUME LockInv, TypeInv', NEW t \in Threads,
         AcquireFree(t) \/ UndoAcquire(t)
  PROVE  LockInv'
<1>0. /\ HeapOK /\ FrameOK /\ LocalsOK(t) /\ OwnInv(t)
      /\ OneObject /\ FreeIsOff /\ AvailableIsInstalled /\ CountIsHeld
  BY DEF LockInv, TypeInv, FrameOK
<1>1. /\ UNCHANGED <<monitor, recursiveLockingCount, threadsWaitingForPulse, threadAborted, held,
                     obj, timeout, savedCount, freeList>>
      /\ pc[t] \in {"check", "recheck"} /\ mon[t] \in Monitors
  BY <1>0 DEF AcquireFree, UndoAcquire, ready, pulse, frame, LocalsOK, EnterPCs
<1>2. CASE AcquireFree(t)
  <2>1. /\ pc[t] = "check" /\ pc' = [pc EXCEPT ![t] = "recheck"] /\ mon' = mon
        /\ owningThreadId[mon[t]] = Available
        /\ owningThreadId' = [owningThreadId EXCEPT ![mon[t]] = t]
    BY <1>2 DEF AcquireFree, TryAcquire, Goto, frame
  <2>2. \A o \in Objects : monitor[o] = mon[t] => held[t][o] = 0
    BY <1>0, <2>1, OwnerAssumption DEF OwnInv, HeldBy, FrameOK
  <2>3. \E o \in Objects : monitor[o] = mon[t]
    BY <1>0, <1>1, <2>1 DEF AvailableIsInstalled
  <2>4. Respects(t)
    BY <1>0, <1>1, <2>1 DEF Respects, HeapOK, FrameOK
  <2>5. OneObject' /\ FreeIsOff' /\ AvailableIsInstalled' /\ CountIsHeld'
    BY <1>0, <1>1, <2>1, OwnerAssumption DEF OneObject, FreeIsOff, AvailableIsInstalled, CountIsHeld, HeapOK
  <2>6. OwnInv(t)'
    <3>1. PrivateMonitor(t)' /\ OwnerInExit(t)' /\ OwnerInWait(t)' /\ ReadByOwner(t)' /\ WaitFrame(t)'
      BY <1>0, <1>1, <2>1 DEF OwnInv, PrivateMonitor, OwnerInExit, OwnerInWait,
         ReadByOwner, WaitFrame, PrivatePCs, OwningPCs, EnterPCs, FrameOK
    <3>2. HeldBy(t)'
      BY <1>0, <1>1, <2>1 DEF OwnInv, HeldBy, HeapOK
    <3>3. OwnersKnow(t)'
      BY <1>0, <1>1, <2>1 DEF OwnInv, OwnersKnow, HeapOK, FrameOK, PrivatePCs, OwningPCs
    <3>4. OwnerInRecheck(t)'
      BY <1>0, <1>1, <2>1, <2>2, <2>3 DEF OwnerInRecheck, HeapOK
    <3> QED BY <3>1, <3>2, <3>3, <3>4 DEF OwnInv
  <2>7. Pinned(t)'
    BY <1>0, <2>1 DEF Pinned, FrameOK
  <2>8. \A u \in Threads : Pinned(u)'
    BY <1>1, <2>1, <2>4, <2>7, PinnedStep
  <2> QED BY <1>1, <2>4, <2>5, <2>6, <2>8, OwnStep
<1>3. CASE UndoAcquire(t)
  <2>1. /\ pc[t] = "recheck" /\ pc' = [pc EXCEPT ![t] = "read"]
        /\ owningThreadId' = [owningThreadId EXCEPT ![mon[t]] = Available]
        /\ mon' = [mon EXCEPT ![t] = NoMonitor]
    BY <1>3 DEF UndoAcquire, Unacquire, Goto
  <2>2. /\ owningThreadId[mon[t]] = t
        /\ \A o \in Objects : monitor[o] = mon[t] => held[t][o] = 0
        /\ \E o \in Objects : monitor[o] = mon[t]
    BY <1>0, <2>1 DEF OwnInv, OwnerInRecheck
  <2>4. Respects(t)
    BY <1>0, <1>1, <2>1, <2>2 DEF Respects, HeapOK, FrameOK
  <2>5. OneObject' /\ FreeIsOff' /\ AvailableIsInstalled' /\ CountIsHeld'
    BY <1>0, <1>1, <2>1, <2>2, OwnerAssumption DEF OneObject, FreeIsOff, AvailableIsInstalled, CountIsHeld, HeapOK
  <2>6. OwnInv(t)'
    <3>1. PrivateMonitor(t)' /\ OwnerInExit(t)' /\ OwnerInWait(t)' /\ OwnerInRecheck(t)'
          /\ ReadByOwner(t)' /\ WaitFrame(t)'
      BY <1>0, <1>1, <2>1 DEF OwnInv, PrivateMonitor, OwnerInExit, OwnerInWait, OwnerInRecheck,
         ReadByOwner, WaitFrame, PrivatePCs, OwningPCs, EnterPCs, FrameOK
    <3>2. HeldBy(t)'
      BY <1>0, <1>1, <2>1, <2>2 DEF OwnInv, HeldBy, HeapOK, FrameOK
    <3>3. OwnersKnow(t)'
      BY <1>0, <1>1, <2>1, <2>2, OwnerAssumption DEF OwnInv, OwnersKnow, HeapOK, FrameOK, PrivatePCs, OwningPCs
    <3> QED BY <3>1, <3>2, <3>3 DEF OwnInv
  <2>7. Pinned(t)'
    BY <1>0, <2>1 DEF Pinned, FrameOK
  <2>8. \A u \in Threads : Pinned(u)'
    BY <1>1, <2>1, <2>4, <2>7, PinnedStep
  <2> QED BY <1>1, <2>4, <2>5, <2>6, <2>8, OwnStep
<1> QED BY <1>2, <1>3

LEMMA LockStepRelease ==
  ASSUME LockInv, TypeInv', NEW t \in Threads, Release(t)
  PROVE  LockInv'
<1>0. /\ HeapOK /\ FrameOK /\ LocalsOK(t) /\ OwnInv(t)
      /\ OneObject /\ FreeIsOff /\ AvailableIsInstalled /\ CountIsHeld
  BY DEF LockInv, TypeInv, FrameOK
<1>1. /\ UNCHANGED <<monitor, recursiveLockingCount, threadsWaitingForPulse, threadAborted, held,
                     obj, mon, timeout, savedCount, freeList>>
      /\ pc[t] \in OwningPCs /\ pc'[t] \in {"post", "repost"} /\ mon[t] \in Monitors
      /\ pc' = [pc EXCEPT ![t] = pc'[t]]
      /\ owningThreadId' = [owningThreadId EXCEPT ![mon[t]] = Available]
  BY <1>0 DEF Release, Unacquire, Goto, ready, pulse, frame, LocalsOK, OwningPCs, ExitPCs, FrameOK
<1>2. /\ owningThreadId[mon[t]] = t /\ monitor[obj[t]] = mon[t] /\ held[t][obj[t]] = 0
      /\ obj[t] \in Objects
      /\ \A o \in Objects : monitor[o] = mon[t] => o = obj[t]
  <2>1. owningThreadId[mon[t]] = t /\ monitor[obj[t]] = mon[t] /\ held[t][obj[t]] = 0
    BY <1>0, <1>1 DEF OwnInv, OwnerInExit
  <2>2. obj[t] \in Objects
    BY <1>0, <1>1 DEF LocalsOK, OwningPCs, ExitPCs
  <2> QED BY <1>0, <1>1, <2>1, <2>2, NullAssumption DEF OneObject
<1>3. Respects(t)
  BY <1>0, <1>1, <1>2 DEF Respects, HeapOK, FrameOK
<1>4. OneObject' /\ FreeIsOff' /\ AvailableIsInstalled' /\ CountIsHeld'
  BY <1>0, <1>1, <1>2, OwnerAssumption DEF OneObject, FreeIsOff, AvailableIsInstalled, CountIsHeld, HeapOK
<1>5. OwnInv(t)'
  <2>1. PrivateMonitor(t)' /\ OwnerInExit(t)' /\ OwnerInWait(t)' /\ OwnerInRecheck(t)'
        /\ ReadByOwner(t)' /\ WaitFrame(t)'
    BY <1>0, <1>1 DEF OwnInv, PrivateMonitor, OwnerInExit, OwnerInWait, OwnerInRecheck,
       ReadByOwner, WaitFrame, PrivatePCs, OwningPCs, EnterPCs
  <2>2. HeldBy(t)'
    BY <1>0, <1>1, <1>2 DEF OwnInv, HeldBy, HeapOK, FrameOK
  <2>3. OwnersKnow(t)'
    BY <1>0, <1>1, <1>2, OwnerAssumption DEF OwnInv, OwnersKnow, HeapOK, FrameOK, PrivatePCs, OwningPCs
  <2> QED BY <2>1, <2>2, <2>3 DEF OwnInv
<1>6. Pinned(t)'
  BY <1>1 DEF Pinned
<1>7. \A u \in Threads : Pinned(u)'
  BY <1>1, <1>3, <1>6, PinnedStep DEF OwningPCs
<1> QED BY <1>1, <1>3, <1>4, <1>5, <1>7, OwnStep

LEMMA LockStepDeflate ==
  ASSUME LockInv, TypeInv', NEW t \in Threads, Deflate(t)
  PROVE  LockInv'
<1>0. /\ HeapOK /\ FrameOK /\ LocalsOK(t) /\ OwnInv(t)
      /\ OneObject /\ FreeIsOff /\ AvailableIsInstalled /\ CountIsHeld
      /\ \A u \in Threads : Pinned(u) /\ LocalsOK(u)
  BY DEF LockInv, TypeInv, FrameOK
<1>1. /\ UNCHANGED <<owningThreadId, recursiveLockingCount, threadsWaitingForPulse, threadAborted, held,
                     obj, mon, timeout, savedCount, freeList>>
      /\ pc[t] = "deflate" /\ mon[t] \in Monitors /\ obj[t] \in Objects
      /\ pc' = [pc EXCEPT ![t] = "flush"]
      /\ monitor' = [monitor EXCEPT ![obj[t]] = NoMonitor]
  BY <1>0 DEF Deflate, Goto, pulse, frame, LocalsOK, ExitPCs
<1>2. /\ owningThreadId[mon[t]] = t /\ monitor[obj[t]] = mon[t] /\ held[t][obj[t]] = 0
      /\ threadsWaitingForPulse[mon[t]] = <<>>
      /\ \A o \in Objects : monitor[o] = mon[t] => o = obj[t]
  BY <1>0, <1>1, NullAssumption DEF OwnInv, OwnerInExit, OwningPCs, OneObject
<1>3. Respects(t)
  BY <1>0, <1>1, <1>2 DEF Respects, HeapOK, FrameOK
<1>4. OneObject' /\ FreeIsOff' /\ AvailableIsInstalled'
  BY <1>0, <1>1, <1>2, NullAssumption, OwnerAssumption DEF OneObject, FreeIsOff, AvailableIsInstalled, HeapOK
<1>5. CountIsHeld'
  <2> SUFFICES ASSUME NEW n \in Monitors, recursiveLockingCount[n] # 1
               PROVE  \E u \in Threads, p \in Objects : monitor'[p] = n /\ held[u][p] > 0
    BY <1>1 DEF CountIsHeld
  <2>1. PICK u \in Threads, p \in Objects : monitor[p] = n /\ held[u][p] > 0
    BY <1>0 DEF CountIsHeld
  <2>2. HeldBy(u)
    BY DEF LockInv, OwnInv
  <2>3. p # obj[t]
    BY <1>0, <1>1, <1>2, <2>1, <2>2 DEF HeldBy, FrameOK
  <2> QED BY <1>0, <1>1, <2>1, <2>3 DEF HeapOK
<1>6. OwnInv(t)'
  <2>1. OwnerInExit(t)' /\ OwnerInWait(t)' /\ OwnerInRecheck(t)' /\ ReadByOwner(t)' /\ WaitFrame(t)'
    BY <1>0, <1>1 DEF OwnInv, OwnerInExit, OwnerInWait, OwnerInRecheck,
       ReadByOwner, WaitFrame, OwningPCs, EnterPCs, FrameOK
  <2>2. PrivateMonitor(t)'
    BY <1>0, <1>1, <1>2, NullAssumption DEF PrivateMonitor, HeapOK
  <2>3. HeldBy(t)'
    BY <1>0, <1>1, <1>2 DEF OwnInv, HeldBy, HeapOK, FrameOK
  <2>4. OwnersKnow(t)'
    BY <1>0, <1>1, <1>2 DEF OwnInv, OwnersKnow, HeapOK, FrameOK, PrivatePCs, OwningPCs
  <2> QED BY <2>1, <2>2, <2>3, <2>4 DEF OwnInv
<1>7. ASSUME NEW u \in Threads PROVE Pinned(u)'
  <2> SUFFICES ASSUME pc[u] \in {"loop", "grab", "sleep"}, u # t
               PROVE  \/ monitor'[obj[u]] = mon[u]
                      \/ \E v \in Threads : mon[v] = mon[u] /\ pc'[v] \in {"flush", "flushWait"}
    BY <1>0, <1>1 DEF Pinned, FrameOK
  <2>1. CASE monitor[obj[u]] = mon[u]
    BY <1>0, <1>1, <1>2, <2>1 DEF HeapOK, FrameOK, LocalsOK, EnterPCs
  <2>2. CASE \E v \in Threads : mon[v] = mon[u] /\ pc[v] \in {"flush", "flushWait"}
    BY <1>0, <1>1, <2>2 DEF FrameOK
  <2> QED BY <1>0, <2>1, <2>2 DEF Pinned
<1> QED BY <1>1, <1>3, <1>4, <1>5, <1>6, <1>7, OwnStep

LEMMA LockStepReturn ==
  ASSUME LockInv, TypeInv', NEW t \in Threads, ReturnToFreeList(t)
  PROVE  LockInv'
<1>0. /\ HeapOK /\ FrameOK /\ LocalsOK(t) /\ OwnInv(t) /\ TypeInv
      /\ OneObject /\ FreeIsOff /\ AvailableIsInstalled /\ CountIsHeld
      /\ \A u \in Threads : Pinned(u) /\ LocalsOK(u)
  BY DEF LockInv, TypeInv, FrameOK
<1>1. /\ UNCHANGED <<monitor, recursiveLockingCount, threadsWaitingForPulse, threadAborted>>
      /\ pc[t] = "flush" /\ mon[t] \in Monitors
      /\ numThreadsWaitingForSemaphore[mon[t]] = 0
      /\ owningThreadId' = [owningThreadId EXCEPT ![mon[t]] = OnFreeList]
      /\ freeList' = freeList \cup {mon[t]}
  BY <1>0 DEF ReturnToFreeList, ready, pulse, LocalsOK, ExitPCs
<1>2. /\ held' = held /\ pc' = [pc EXCEPT ![t] = pc'[t]] /\ pc'[t] \in {"idle", "pulseWait", "read"}
      /\ pc'[t] = "read" => timeout'[t] # "timed"
      /\ savedCount'[t] # 0 => savedCount'[t] = savedCount[t] /\ obj'[t] = obj[t] /\ pc'[t] # "idle"
      /\ \A u \in Threads \ {t} : /\ mon'[u] = mon[u] /\ obj'[u] = obj[u]
                                  /\ timeout'[u] = timeout[u] /\ savedCount'[u] = savedCount[u]
  <2>1. ExitReturns(t)
    BY DEF ReturnToFreeList
  <2>2. CASE savedCount[t] = 0
    BY <1>0, <2>1, <2>2 DEF ExitReturns, Leave, Goto, FrameOK
  <2>3. CASE savedCount[t] # 0 /\ timeout[t] # "zero"
    BY <1>0, <2>1, <2>3 DEF ExitReturns, Goto, FrameOK
  <2>4. CASE savedCount[t] # 0 /\ timeout[t] = "zero"
    BY <1>0, <2>1, <2>4 DEF ExitReturns, Goto, FrameOK
  <2> QED BY <2>2, <2>3, <2>4
<1>3. /\ owningThreadId[mon[t]] = t /\ threadsWaitingForPulse[mon[t]] = <<>>
      /\ \A o \in Objects : monitor[o] # mon[t]
  BY <1>0, <1>1 DEF OwnInv, PrivateMonitor, PrivatePCs
<1>4. Respects(t)
  BY <1>0, <1>1, <1>2, <1>3 DEF Respects, HeapOK, FrameOK
<1>5. OneObject' /\ FreeIsOff' /\ AvailableIsInstalled' /\ CountIsHeld'
  BY <1>0, <1>1, <1>2, <1>3, OwnerAssumption DEF OneObject, FreeIsOff, AvailableIsInstalled, CountIsHeld, HeapOK
<1>6. OwnInv(t)'
  <2>1. PrivateMonitor(t)' /\ OwnerInExit(t)' /\ OwnerInWait(t)' /\ OwnerInRecheck(t)'
        /\ ReadByOwner(t)' /\ WaitFrame(t)'
    BY <1>0, <1>2 DEF OwnInv, PrivateMonitor, OwnerInExit, OwnerInWait, OwnerInRecheck,
       ReadByOwner, WaitFrame, PrivatePCs, OwningPCs, EnterPCs, FrameOK
  <2>2. HeldBy(t)'
    BY <1>0, <1>1, <1>2, <1>3 DEF OwnInv, HeldBy, HeapOK
  <2>3. OwnersKnow(t)'
    BY <1>0, <1>1, <1>2, <1>3, OwnerAssumption DEF OwnInv, OwnersKnow, HeapOK, FrameOK, PrivatePCs, OwningPCs
  <2> QED BY <2>1, <2>2, <2>3 DEF OwnInv
<1>7. ASSUME NEW u \in Threads PROVE Pinned(u)'
  <2> SUFFICES ASSUME pc[u] \in {"loop", "grab", "sleep"}, u # t
               PROVE  \/ monitor[obj[u]] = mon[u]
                      \/ \E v \in Threads : mon'[v] = mon[u] /\ pc'[v] \in {"flush", "flushWait"}
    BY <1>0, <1>1, <1>2 DEF Pinned, FrameOK
  <2>1. mon[u] # mon[t]
    <3>1. numThreadsWaitingForSemaphore[mon[u]] > 0
      BY <1>0, CountedPositive DEF ReadyPCs
    <3> QED BY <1>1, <3>1
  <2> QED BY SMTT(30), <1>0, <1>1, <1>2, <2>1 DEF Pinned, FrameOK
<1> QED BY <1>1, <1>4, <1>5, <1>6, <1>7, OwnStep

LEMMA LockStepRecursive ==
  ASSUME LockInv, TypeInv', NEW t \in Threads, EnterRecursively(t)
  PROVE  LockInv'
<1>0. /\ HeapOK /\ FrameOK /\ LocalsOK(t) /\ OwnInv(t) /\ HeapOK'
      /\ OneObject /\ FreeIsOff /\ AvailableIsInstalled /\ CountIsHeld
  BY DEF LockInv, TypeInv, FrameOK
<1>1. /\ UNCHANGED <<monitor, owningThreadId, freeList, threadsWaitingForPulse, threadAborted>>
      /\ pc[t] = "check" /\ mon[t] \in Monitors /\ obj[t] \in Objects
      /\ owningThreadId[mon[t]] = t
      /\ recursiveLockingCount' = [recursiveLockingCount EXCEPT ![mon[t]] = @ + 1]
  BY <1>0 DEF EnterRecursively, ready, pulse, LocalsOK, EnterPCs
<1>2. monitor[obj[t]] = mon[t] /\ held[t][obj[t]] > 0
  <2>1. monitor[obj[t]] = mon[t]
    BY <1>0, <1>1 DEF OwnInv, ReadByOwner
  <2>2. PICK p \in Objects : monitor[p] = mon[t] /\ held[t][p] > 0
    BY <1>0, <1>1 DEF OwnInv, OwnersKnow, OwningPCs, PrivatePCs
  <2>3. p = obj[t]
    BY <1>0, <1>1, <2>1, <2>2, NullAssumption DEF OneObject
  <2> QED BY <2>1, <2>2, <2>3
<1>3. recursiveLockingCount[mon[t]] = held[t][obj[t]] /\ savedCount[t] = 0
  BY <1>0, <1>1, <1>2 DEF OwnInv, HeldBy, WaitFrame, LocalsOK
<1>4. /\ pc' = [pc EXCEPT ![t] = "idle"] /\ savedCount'[t] = 0
      /\ held' = [held EXCEPT ![t][obj[t]] = @ + 1]
      /\ \A u \in Threads \ {t} : /\ mon'[u] = mon[u] /\ obj'[u] = obj[u]
                                  /\ timeout'[u] = timeout[u] /\ savedCount'[u] = savedCount[u]
  BY <1>0, <1>3 DEF EnterRecursively, EnterSucceeds, Leave, Goto, FrameOK
<1>5. Respects(t)
  BY <1>0, <1>1, <1>4 DEF Respects, HeapOK, FrameOK
<1>6. OneObject' /\ FreeIsOff' /\ AvailableIsInstalled'
  BY <1>0, <1>1 DEF OneObject, FreeIsOff, AvailableIsInstalled
<1>7. CountIsHeld'
  <2> SUFFICES ASSUME NEW n \in Monitors, recursiveLockingCount'[n] # 1
               PROVE  \E u \in Threads, p \in Objects : monitor[p] = n /\ held'[u][p] > 0
    BY <1>1 DEF CountIsHeld
  <2>1. CASE n = mon[t]
    BY <1>0, <1>1, <1>2, <1>4, <2>1 DEF FrameOK
  <2>2. CASE n # mon[t]
    <3>1. PICK u \in Threads, p \in Objects : monitor[p] = n /\ held[u][p] > 0
      BY <1>0, <1>1, <2>2 DEF CountIsHeld, HeapOK
    <3> QED BY <1>0, <1>2, <1>4, <2>2, <3>1 DEF FrameOK
  <2> QED BY <2>1, <2>2
<1>8. OwnInv(t)'
  <2>1. PrivateMonitor(t)' /\ OwnerInExit(t)' /\ OwnerInWait(t)' /\ OwnerInRecheck(t)'
        /\ ReadByOwner(t)' /\ WaitFrame(t)'
    BY <1>0, <1>4 DEF OwnInv, PrivateMonitor, OwnerInExit, OwnerInWait, OwnerInRecheck,
       ReadByOwner, WaitFrame, PrivatePCs, OwningPCs, EnterPCs, FrameOK
  <2>2. HeldBy(t)'
    <3> SUFFICES ASSUME NEW p \in Objects, held'[t][p] > 0
                 PROVE  /\ monitor[p] # NoMonitor /\ owningThreadId[monitor[p]] = t
                        /\ recursiveLockingCount'[monitor[p]] = held'[t][p]
      BY <1>1 DEF HeldBy
    <3>1. CASE p = obj[t]
      BY <1>0, <1>1, <1>2, <1>3, <1>4, <3>1, NullAssumption DEF HeapOK, FrameOK
    <3>2. CASE p # obj[t]
      <4>1. held'[t][p] = held[t][p] /\ monitor[p] # mon[t]
        BY <1>0, <1>1, <1>2, <1>4, <3>2, NullAssumption DEF FrameOK, OneObject
      <4> QED BY <1>0, <1>1, <4>1 DEF OwnInv, HeldBy, HeapOK
    <3> QED BY <3>1, <3>2
  <2>3. OwnersKnow(t)'
    <3> SUFFICES ASSUME NEW n \in Monitors, owningThreadId[n] = t
                 PROVE  \E p \in Objects : monitor[p] = n /\ held'[t][p] > 0
      BY <1>1 DEF OwnersKnow
    <3>1. PICK p \in Objects : monitor[p] = n /\ held[t][p] > 0
      BY <1>0, <1>1 DEF OwnInv, OwnersKnow, OwningPCs, PrivatePCs
    <3> QED BY <1>0, <1>1, <1>4, <3>1 DEF FrameOK
  <2> QED BY <2>1, <2>2, <2>3 DEF OwnInv
<1>9. Pinned(t)'
  BY <1>0, <1>4 DEF Pinned, FrameOK
<1>10. \A u \in Threads : Pinned(u)'
  BY <1>1, <1>5, <1>9, PinnedStep
<1> QED BY <1>1, <1>5, <1>6, <1>7, <1>8, <1>10, OwnStep

LEMMA LockStepRestore ==
  ASSUME LockInv, TypeInv', NEW t \in Threads, RestoreCount(t)
  PROVE  LockInv'
<1>0. /\ HeapOK /\ FrameOK /\ LocalsOK(t) /\ OwnInv(t) /\ HeapOK'
      /\ OneObject /\ FreeIsOff /\ AvailableIsInstalled /\ CountIsHeld
  BY DEF LockInv, TypeInv, FrameOK
<1> DEFINE o == obj[t]
           m == monitor[o]
<1>1. /\ UNCHANGED <<monitor, owningThreadId, freeList, threadAborted>>
      /\ pc[t] = "restore" /\ pc' = [pc EXCEPT ![t] = "idle"] /\ savedCount'[t] = 0
      /\ recursiveLockingCount' = [recursiveLockingCount EXCEPT ![m] = savedCount[t]]
      /\ held' = [held EXCEPT ![t][o] = savedCount[t]]
      /\ \A n \in Monitors : threadsWaitingForPulse'[n] = threadsWaitingForPulse[n] \/ n = m
      /\ \A u \in Threads \ {t} : /\ mon'[u] = mon[u] /\ obj'[u] = obj[u]
                                  /\ timeout'[u] = timeout[u] /\ savedCount'[u] = savedCount[u]
  BY <1>0 DEF RestoreCount, ready, Leave, Goto, HeapOK, FrameOK
<1>2. o \in Objects /\ savedCount[t] \in Nat \ {0}
  BY <1>0, <1>1 DEF LocalsOK, FrameOK
<1>3. m \in Monitors /\ owningThreadId[m] = t
  BY <1>0, <1>1, <1>2 DEF OwnInv, OwnerInWait, HeapOK
<1>4. \A p \in Objects : monitor[p] = m => p = o
  BY <1>0, <1>2, <1>3, NullAssumption DEF OneObject
<1> HIDE DEF m, o
<1>5. m = monitor[o] /\ o = obj[t]
  BY DEF m, o
<1>6. Respects(t)
  BY SMTT(30), <1>0, <1>1, <1>3 DEF Respects, HeapOK, FrameOK
<1>7. OneObject' /\ FreeIsOff' /\ AvailableIsInstalled'
  BY <1>0, <1>1, <1>3, OwnerAssumption DEF OneObject, FreeIsOff, AvailableIsInstalled
<1>8. CountIsHeld'
  <2> SUFFICES ASSUME NEW n \in Monitors, recursiveLockingCount'[n] # 1
               PROVE  \E u \in Threads, p \in Objects : monitor[p] = n /\ held'[u][p] > 0
    BY <1>1 DEF CountIsHeld
  <2>1. CASE n = m
    BY SMTT(30), <1>0, <1>1, <1>2, <1>5, <2>1 DEF FrameOK
  <2>2. CASE n # m
    <3>1. PICK u \in Threads, p \in Objects : monitor[p] = n /\ held[u][p] > 0
      BY SMTT(30), <1>0, <1>1, <1>3, <2>2 DEF CountIsHeld, HeapOK
    <3> QED BY <1>0, <1>1, <1>5, <2>2, <3>1 DEF FrameOK
  <2> QED BY <2>1, <2>2
<1>9. OwnInv(t)'
  <2>1. PrivateMonitor(t)' /\ OwnerInExit(t)' /\ OwnerInWait(t)' /\ OwnerInRecheck(t)'
        /\ ReadByOwner(t)' /\ WaitFrame(t)'
    BY <1>0, <1>1 DEF OwnInv, PrivateMonitor, OwnerInExit, OwnerInWait, OwnerInRecheck,
       ReadByOwner, WaitFrame, PrivatePCs, OwningPCs, EnterPCs, FrameOK
  <2>2. HeldBy(t)'
    <3> SUFFICES ASSUME NEW p \in Objects, held'[t][p] > 0
                 PROVE  /\ monitor[p] # NoMonitor /\ owningThreadId[monitor[p]] = t
                        /\ recursiveLockingCount'[monitor[p]] = held'[t][p]
      BY <1>1 DEF HeldBy
    <3>1. CASE p = o
      BY <1>0, <1>1, <1>2, <1>3, <1>5, <3>1, NullAssumption DEF HeapOK, FrameOK
    <3>2. CASE p # o
      <4>1. held'[t][p] = held[t][p] /\ monitor[p] # m
        BY <1>0, <1>1, <1>4, <3>2 DEF FrameOK
      <4> QED BY SMTT(30), <1>0, <1>1, <4>1 DEF OwnInv, HeldBy, HeapOK
    <3> QED BY <3>1, <3>2
  <2>3. OwnersKnow(t)'
    <3> SUFFICES ASSUME NEW n \in Monitors, owningThreadId[n] = t
                 PROVE  \E p \in Objects : monitor[p] = n /\ held'[t][p] > 0
      BY <1>1 DEF OwnersKnow
    <3>1. CASE n = m
      BY <1>0, <1>1, <1>2, <1>5, <3>1 DEF FrameOK
    <3>2. CASE n # m
      <4>1. PICK p \in Objects : monitor[p] = n /\ held[t][p] > 0
        BY <1>0, <1>1, <1>5, <3>2 DEF OwnInv, OwnersKnow, OwningPCs, PrivatePCs
      <4> QED BY <1>0, <1>1, <1>5, <3>2, <4>1 DEF FrameOK
    <3> QED BY <3>1, <3>2
  <2> QED BY <2>1, <2>2, <2>3 DEF OwnInv
<1>10. Pinned(t)'
  BY <1>0, <1>1 DEF Pinned, FrameOK
<1>11. \A u \in Threads : Pinned(u)'
  BY <1>1, <1>6, <1>10, PinnedStep
<1> QED BY <1>1, <1>6, <1>7, <1>8, <1>9, <1>11, OwnStep

\* Managed code that passes the ownership test of Exit, Wait or Pulse has the
\* object locked.
LEMMA LockedIsHeld ==
  ASSUME LockInv, NEW t \in Threads, NEW o \in Objects,
         pc[t] = "idle", LockedByCurrentThread(t, o)
  PROVE  /\ monitor[o] \in Monitors /\ owningThreadId[monitor[o]] = t
         /\ held[t][o] \in Nat \ {0} /\ recursiveLockingCount[monitor[o]] = held[t][o]
         /\ \A p \in Objects : monitor[p] = monitor[o] => p = o
<1>0. HeapOK /\ FrameOK /\ OwnInv(t) /\ OneObject /\ \A m \in Monitors : ~threadAborted[m]
  BY DEF LockInv, TypeInv
<1>1. monitor[o] \in Monitors /\ owningThreadId[monitor[o]] = t
  BY <1>0 DEF LockedByCurrentThread, HeapOK
<1>2. \A p \in Objects : monitor[p] = monitor[o] => p = o
  BY <1>0, <1>1, NullAssumption DEF OneObject
<1>3. held[t][o] > 0
  BY <1>0, <1>1, <1>2 DEF OwnInv, OwnersKnow, OwningPCs, PrivatePCs
<1>4. held[t][o] \in Nat
  BY <1>0 DEF FrameOK
<1> QED BY <1>0, <1>1, <1>2, <1>3, <1>4 DEF OwnInv, HeldBy

LEMMA LockStepCallTryEnter ==
  ASSUME LockInv, TypeInv', NEW t \in Threads, NEW o \in Objects,
         NEW ms \in EnterTimeouts, CallTryEnter(t, o, ms), NoStaleTimeout
  PROVE  LockInv'
<1>0. HeapOK /\ FrameOK /\ LocalsOK(t) /\ OwnInv(t) /\ Pinned(t)
  BY DEF LockInv, TypeInv, FrameOK
<1> SUFFICES Local(t) /\ OwnInv(t)' /\ Pinned(t)'
  BY LocalStep
<1> QED
  BY <1>0 DEF CallTryEnter, NoStaleTimeout, NoTimedEnter, HeapOK, FrameOK, LocalsOK, OwnInv, Local, Respects, Goto,
     lock, ready, pulse, OwningPCs, PrivatePCs, EnterPCs, PrivateMonitor, OwnerInExit, OwnerInWait,
     OwnerInRecheck, OwnersKnow, Pinned, ReadByOwner, WaitFrame, HeldBy

LEMMA LockStepPulse ==
  ASSUME LockInv, TypeInv', NEW t \in Threads, NEW o \in Objects, Pulse(t, o) \/ PulseAll(t, o)
  PROVE  LockInv'
<1>0. /\ HeapOK /\ FrameOK /\ LocalsOK(t) /\ OwnInv(t) /\ Pinned(t)
      /\ OneObject /\ FreeIsOff /\ AvailableIsInstalled /\ CountIsHeld
  BY DEF LockInv, TypeInv, FrameOK
<1>1. /\ UNCHANGED <<lock, ready, pc, frame>> /\ pc[t] = "idle"
      /\ \A m \in Monitors \ {monitor[o]} : threadsWaitingForPulse'[m] = threadsWaitingForPulse[m]
  BY <1>0 DEF Pulse, PulseAll, HeapOK
<1>2. monitor[o] \in Monitors /\ owningThreadId[monitor[o]] = t
  BY LockedIsHeld DEF Pulse, PulseAll
<1>3. Respects(t)
  BY <1>1, <1>2 DEF Respects, lock, frame
<1>4. OneObject' /\ FreeIsOff' /\ AvailableIsInstalled' /\ CountIsHeld'
  BY <1>0, <1>1, <1>2, OwnerAssumption DEF lock, frame, OneObject, FreeIsOff, AvailableIsInstalled, CountIsHeld
<1>5. OwnInv(t)'
  BY <1>0, <1>1 DEF OwnInv, PrivateMonitor, OwnerInExit, OwnerInWait, OwnerInRecheck, OwnersKnow,
     ReadByOwner, WaitFrame, HeldBy, PrivatePCs, OwningPCs, lock, frame
<1>6. \A u \in Threads : Pinned(u)'
  BY <1>1 DEF LockInv, Pinned, lock, frame
<1> QED BY <1>1, <1>3, <1>4, <1>5, <1>6, OwnStep DEF ready

\* Exit and Wait put down the locks on o; Exit may put down just one of them.
LEMMA LockStepPutDown ==
  ASSUME LockInv, TypeInv', NEW t \in Threads, NEW o \in Objects,
         CallExit(t, o) \/ \E ms \in WaitTimeouts : CallTryWait(t, o, ms)
  PROVE  LockInv'
<1>0. /\ HeapOK /\ FrameOK /\ LocalsOK(t) /\ OwnInv(t) /\ Pinned(t) /\ HeapOK' /\ FrameOK'
      /\ OneObject /\ FreeIsOff /\ AvailableIsInstalled /\ CountIsHeld
  BY DEF LockInv, TypeInv, FrameOK
<1> DEFINE m == monitor[o]
           h == held[t][o]
<1>1. pc[t] = "idle" /\ LockedByCurrentThread(t, o)
  BY DEF CallExit, CallTryWait
<1>2. /\ m \in Monitors /\ owningThreadId[m] = t
      /\ h \in Nat \ {0} /\ recursiveLockingCount[m] = h
      /\ \A p \in Objects : monitor[p] = m => p = o
  BY <1>1, LockedIsHeld
<1>3. /\ UNCHANGED <<monitor, owningThreadId, freeList, threadAborted>>
      /\ \A n \in Monitors \ {m} : threadsWaitingForPulse'[n] = threadsWaitingForPulse[n]
      /\ \A u \in Threads \ {t} : /\ pc'[u] = pc[u] /\ mon'[u] = mon[u] /\ obj'[u] = obj[u]
                                  /\ timeout'[u] = timeout[u] /\ savedCount'[u] = savedCount[u]
  <2>1. CASE CallExit(t, o)
    BY <1>0, <2>1 DEF CallExit, Goto, ready, pulse, FrameOK
  <2>2. CASE \E ms \in WaitTimeouts : CallTryWait(t, o, ms)
    BY <1>0, <2>2 DEF CallTryWait, Goto, ready, HeapOK, FrameOK
  <2> QED BY <2>1, <2>2
<1>4. \/ /\ h > 1 /\ pc'[t] = "idle" /\ savedCount'[t] = savedCount[t] /\ obj'[t] = obj[t]
         /\ recursiveLockingCount' = [recursiveLockingCount EXCEPT ![m] = h - 1]
         /\ held' = [held EXCEPT ![t][o] = h - 1]
      \/ /\ pc'[t] = "exitCheck" /\ obj'[t] = o /\ mon'[t] = m
         /\ recursiveLockingCount' = [recursiveLockingCount EXCEPT ![m] = 1]
         /\ held' = [held EXCEPT ![t][o] = 0]
  <2>1. CASE CallExit(t, o)
    <3>1. CASE h > 1
      BY <1>0, <1>1, <1>2, <2>1, <3>1 DEF CallExit, FrameOK
    <3>2. CASE h = 1
      BY <1>0, <1>1, <1>2, <2>1, <3>2 DEF CallExit, Goto, FrameOK, HeapOK
    <3> QED BY <1>2, <3>1, <3>2
  <2>2. CASE \E ms \in WaitTimeouts : CallTryWait(t, o, ms)
    BY <1>0, <1>2, <2>2 DEF CallTryWait, Goto, FrameOK
  <2> QED BY <2>1, <2>2
<1>5. WaitFrame(t)'
  <2>1. savedCount'[t] # 0 => pc'[t] = "exitCheck" /\ obj'[t] = o /\ held'[t][o] = 0
    <3>1. CASE CallExit(t, o)
      BY <1>0, <1>1, <3>1 DEF CallExit, OwnInv, WaitFrame
    <3>2. CASE \E ms \in WaitTimeouts : CallTryWait(t, o, ms)
      BY <1>0, <1>2, <3>2 DEF CallTryWait, Goto, FrameOK
    <3> QED BY <3>1, <3>2
  <2> QED BY <1>4, <2>1 DEF WaitFrame, EnterPCs
<1> HIDE DEF m, h
<1>6. m = monitor[o] /\ h = held[t][o]
  BY DEF m, h
<1>7. \A p \in Objects \ {o} : held'[t][p] = held[t][p]
  BY <1>0, <1>4 DEF FrameOK
<1>8. \A u \in Threads \ {t} : held'[u] = held[u]
  BY <1>0, <1>4 DEF FrameOK
<1>9. Respects(t)
  BY ZenonT(60), <1>0, <1>2, <1>3, <1>4, <1>8 DEF Respects, HeapOK
<1>10. OneObject' /\ FreeIsOff' /\ AvailableIsInstalled'
  BY <1>0, <1>2, <1>3, OwnerAssumption DEF OneObject, FreeIsOff, AvailableIsInstalled
<1>11. CountIsHeld'
  <2> SUFFICES ASSUME NEW n \in Monitors, recursiveLockingCount'[n] # 1
               PROVE  \E u \in Threads, p \in Objects : monitor[p] = n /\ held'[u][p] > 0
    BY <1>3 DEF CountIsHeld
  <2>1. CASE n = m
    BY <1>0, <1>2, <1>4, <1>6, <2>1 DEF FrameOK, HeapOK
  <2>2. CASE n # m
    <3>1. PICK u \in Threads, p \in Objects : monitor[p] = n /\ held[u][p] > 0
      BY <1>0, <1>4, <2>2 DEF CountIsHeld, HeapOK
    <3> QED BY <1>6, <1>7, <1>8, <2>2, <3>1
  <2> QED BY <2>1, <2>2
<1>12. OwnInv(t)'
  <2>1. PrivateMonitor(t)' /\ OwnerInWait(t)' /\ OwnerInRecheck(t)' /\ ReadByOwner(t)'
    BY <1>4 DEF PrivateMonitor, OwnerInWait, OwnerInRecheck, ReadByOwner, PrivatePCs
  <2>2. OwnerInExit(t)'
    BY <1>0, <1>2, <1>3, <1>4, <1>6 DEF OwnerInExit, OwningPCs, FrameOK
  <2>3. HeldBy(t)'
    <3> SUFFICES ASSUME NEW p \in Objects, held'[t][p] > 0
                 PROVE  /\ monitor[p] # NoMonitor /\ owningThreadId[monitor[p]] = t
                        /\ recursiveLockingCount'[monitor[p]] = held'[t][p]
      BY <1>3 DEF HeldBy
    <3>1. CASE p = o
      BY SMTT(30), <1>0, <1>2, <1>4, <1>6, <3>1, NullAssumption DEF HeapOK, FrameOK
    <3>2. CASE p # o
      <4>1. held'[t][p] = held[t][p] /\ monitor[p] # m
        BY <1>2, <1>7, <3>2
      <4> QED BY <1>0, <1>4, <4>1 DEF OwnInv, HeldBy, HeapOK
    <3> QED BY <3>1, <3>2
  <2>4. OwnersKnow(t)'
    <3> SUFFICES ASSUME NEW n \in Monitors, owningThreadId[n] = t
                 PROVE  \/ \E p \in Objects : monitor[p] = n /\ held'[t][p] > 0
                        \/ mon'[t] = n /\ pc'[t] = "exitCheck"
      BY <1>3 DEF OwnersKnow, OwningPCs
    <3>1. CASE n = m
      BY <1>0, <1>4, <1>6, <3>1 DEF FrameOK
    <3>2. CASE n # m
      <4>1. PICK p \in Objects : monitor[p] = n /\ held[t][p] > 0
        BY <1>0, <1>1 DEF OwnInv, OwnersKnow, OwningPCs, PrivatePCs
      <4> QED BY <1>6, <1>7, <3>2, <4>1
    <3> QED BY <3>1, <3>2
  <2> QED BY <1>5, <2>1, <2>2, <2>3, <2>4 DEF OwnInv
<1>13. Pinned(t)'
  BY <1>4 DEF Pinned
<1>14. \A u \in Threads : Pinned(u)'
  BY <1>1, <1>3, <1>9, <1>13, PinnedStep
<1> QED BY <1>3, <1>9, <1>10, <1>11, <1>12, <1>14, OwnStep

LEMMA LockInvInit == Init => LockInv
<1> SUFFICES ASSUME Init PROVE LockInv
  OBVIOUS
<1>1. TypeInv
  BY TypeInvInit
<1>2. OneObject /\ FreeIsOff /\ AvailableIsInstalled /\ CountIsHeld
      /\ \A m \in Monitors : ~threadAborted[m]
  BY NullAssumption, OwnerAssumption DEF Init, OneObject, FreeIsOff, AvailableIsInstalled, CountIsHeld
<1>3. ASSUME NEW t \in Threads PROVE OwnInv(t) /\ Pinned(t)
  BY OwnerAssumption DEF Init, OwnInv, Pinned, PrivateMonitor, OwnerInExit, OwnerInWait, OwnerInRecheck,
     OwnersKnow, ReadByOwner, WaitFrame, HeldBy, PrivatePCs, OwningPCs, EnterPCs
<1> QED BY <1>1, <1>2, <1>3 DEF LockInv

LEMMA LockInvNext ==
  ASSUME NoStaleTimeout, NoAbort
  PROVE  LockInv /\ [Next]_vars => LockInv'
<1> SUFFICES ASSUME LockInv, [Next]_vars PROVE LockInv'
  OBVIOUS
<1>0. TypeInv'
  BY TypeInvNext DEF LockInv
<1>1. CASE UNCHANGED vars
  BY <1>0, <1>1 DEF vars, lock, ready, pulse, frame, LockInv, OneObject, FreeIsOff, AvailableIsInstalled,
     CountIsHeld, OwnInv, Pinned, PrivateMonitor, OwnerInExit, OwnerInWait, OwnerInRecheck, OwnersKnow,
     ReadByOwner, WaitFrame, HeldBy
<1>2. ASSUME NEW t \in Threads,
             \/ EnterStep(t) \/ ExitStep(t) \/ OutsideEvent(t)
             \/ StopWaiting(t) \/ RestoreCount(t) \/ ManagedCall(t)
      PROVE  LockInv'
  <2>1. CASE EnterStep(t)
    BY <1>0, <2>1, LockStepLocal, LockStepGain, LockStepAllocate, LockStepRecheck,
       LockStepRecursive DEF EnterStep
  <2>2. CASE ExitStep(t)
    BY <1>0, <2>2, LockStepLocal, LockStepRelease, LockStepDeflate, LockStepReturn DEF ExitStep
  <2>3. CASE OutsideEvent(t)
    BY <1>0, <2>3, LockStepLocal DEF OutsideEvent, AbortedInSleep, NoAbort
  <2>4. CASE StopWaiting(t) \/ RestoreCount(t)
    BY <1>0, <2>4, LockStepLocal, LockStepRestore
  <2>5. CASE ManagedCall(t)
    <3>1. PICK o \in Objects :
             \/ \E ms \in EnterTimeouts : CallTryEnter(t, o, ms)
             \/ \E ms \in WaitTimeouts : CallTryWait(t, o, ms)
             \/ CallExit(t, o) \/ Pulse(t, o) \/ PulseAll(t, o)
      BY <2>5 DEF ManagedCall
    <3>2. CASE \E ms \in EnterTimeouts : CallTryEnter(t, o, ms)
      BY <1>0, <3>2, LockStepCallTryEnter
    <3>3. CASE CallExit(t, o) \/ \E ms \in WaitTimeouts : CallTryWait(t, o, ms)
      BY <1>0, <3>3, LockStepPutDown
    <3>4. CASE Pulse(t, o) \/ PulseAll(t, o)
      BY <1>0, <3>4, LockStepPulse
    <3> QED BY <3>1, <3>2, <3>3, <3>4
  <2> QED BY <1>2, <2>1, <2>2, <2>3, <2>4, <2>5
<1> QED BY <1>1, <1>2 DEF Next

LEMMA LockInvCorrect ==
  ASSUME NoStaleTimeout, NoAbort
  PROVE  Spec => []LockInv
<1>1. Init => LockInv
  BY LockInvInit
<1>2. LockInv /\ [Next]_vars => LockInv'
  BY LockInvNext
<1> QED BY <1>1, <1>2, PTL DEF Spec

\* A thread that holds an object owns the object's monitor, with the recursion
\* count that its Exits will find, whatever recycling went on before.
THEOREM HeldIsOwnedCorrect ==
  ASSUME NoStaleTimeout, NoAbort
  PROVE  Spec => []HeldIsOwned
<1>1. LockInv => HeldIsOwned
  BY DEF LockInv, OwnInv, HeldBy, HeldIsOwned
<1> QED BY <1>1, LockInvCorrect, PTL

\* Monitor.Enter and Monitor.Exit exclude: two threads never both hold the same
\* object, for any numbers of threads, objects and monitors.
THEOREM MutualExclusionCorrect ==
  ASSUME NoStaleTimeout, NoAbort
  PROVE  Spec => []MutualExclusion
<1>1. HeldIsOwned => MutualExclusion
  BY DEF HeldIsOwned, MutualExclusion
<1> QED BY <1>1, HeldIsOwnedCorrect, PTL

============================================================================
