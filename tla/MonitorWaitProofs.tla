------------------------- MODULE MonitorWaitProofs -------------------------
(***************************************************************************)
(* More theorems about Monitor: what a thread that takes a monitor may     *)
(* assert, that pulses find the threads they are meant for, that Wait      *)
(* gives the lock back, and that Monitor implements the locks its callers  *)
(* are promised.                                                           *)
(***************************************************************************)
EXTENDS MonitorRecyclingProofs

----------------------------------------------------------------------------
(* Wait returns with the lock *)

\* Inside Wait, the Enter that takes the lock again has no time limit, and the
\* timeout before it is the one that Wait was called with.  Only Wait waits for
\* a pulse, and not with a zero timeout.
WaitLocals(t) ==
    /\ savedCount[t] # 0 =>
          /\ pc[t] \notin {"idle", "lastWaiter", "timeoutGrab", "timeoutAck"}
          /\ IF pc[t] \in EnterPCs THEN timeout[t] = "infinite"
             ELSE pc[t] = "restore" \/ timeout[t] \in WaitTimeouts
    /\ pc[t] = "pulseWait" => savedCount[t] # 0 /\ timeout[t] # "zero"

LEMMA WaitLocalsStep ==
  ASSUME TypeInv, NEW t \in Threads, StepOf(t), \A u \in Threads : WaitLocals(u)
  PROVE  \A u \in Threads : WaitLocals(u)'
<1>0. FrameOK /\ LocalsOK(t) /\ WaitLocals(t)
  BY DEF TypeInv, FrameOK
<1>1. ASSUME NEW u \in Threads \ {t} PROVE WaitLocals(u)'
  BY <1>0, <1>1, OthersKeepLocals DEF WaitLocals
<1> SUFFICES WaitLocals(t)'
  BY <1>1
<1> USE DEF FrameOK, LocalsOK, WaitLocals, Goto, Leave, frame, EnterPCs, ExitPCs
<1>2. CASE EnterStep(t)
  <2>1. CASE InstallMonitor(t) \/ EnterRecursively(t) \/ ConfirmAcquire(t) \/ AcquireAsWaiter(t)
    BY <1>0, <2>1 DEF InstallMonitor, EnterRecursively, ConfirmAcquire, AcquireAsWaiter, EnterSucceeds
  <2>2. CASE LastWaiterAcquires(t)
    BY <1>0, <2>2 DEF LastWaiterAcquires, EnterSucceeds
  <2>3. CASE FindLocked(t) \/ AcknowledgeTimeout(t)
    BY <1>0, <2>3 DEF FindLocked, AcknowledgeTimeout, EnterFails
  <2>4. CASE AllocateMonitor(t) \/ LoseInstall(t) \/ ReadMonitor(t) \/ UndoAcquire(t)
             \/ VacateDyingMonitor(t)
    BY <1>0, <2>4 DEF AllocateMonitor, LoseInstall, ReadMonitor, UndoAcquire, VacateDyingMonitor
  <2>5. CASE AcquireFree(t) \/ JoinReadyList(t) \/ CheckStillInstalled(t) \/ FailAsWaiter(t)
             \/ Awake(t) \/ LastWaiterChecks(t)
    BY <1>0, <2>5 DEF AcquireFree, JoinReadyList, CheckStillInstalled, FailAsWaiter, Awake, LastWaiterChecks
  <2> QED BY <1>2, <2>1, <2>2, <2>3, <2>4, <2>5 DEF EnterStep
<1>3. CASE ExitStep(t)
  <2>1. CASE pc[t] \in ExitPCs /\ ExitReturns(t)
    BY <1>0, <2>1 DEF ExitReturns
  <2>2. CASE ChooseRelease(t) \/ Release(t) \/ Deflate(t) \/ KickWaiters(t) \/ AwaitAcknowledge(t)
    BY <1>0, <2>2 DEF ChooseRelease, Release, Deflate, KickWaiters, AwaitAcknowledge
  <2>3. CASE RecheckReadyList(t) \/ SignalNext(t) \/ ReturnToFreeList(t)
    BY <1>0, <2>1, <2>3 DEF RecheckReadyList, SignalNext, ReturnToFreeList
  <2> QED BY <1>3, <2>2, <2>3 DEF ExitStep
<1>4. CASE OutsideEvent(t)
  BY <1>0, <1>4 DEF OutsideEvent, AbortedInSleep, InterruptedInSleep, TimeOut
<1>5. CASE StopWaiting(t) \/ RestoreCount(t)
  BY <1>0, <1>5 DEF StopWaiting, RestoreCount
<1>6. CASE ManagedCall(t)
  <2>1. PICK o \in Objects :
           \/ \E ms \in EnterTimeouts : CallTryEnter(t, o, ms)
           \/ \E ms \in WaitTimeouts : CallTryWait(t, o, ms)
           \/ CallExit(t, o) \/ Pulse(t, o) \/ PulseAll(t, o)
    BY <1>6 DEF ManagedCall
  <2>2. CASE \E ms \in EnterTimeouts : CallTryEnter(t, o, ms)
    BY <1>0, <2>2 DEF CallTryEnter
  <2>3. CASE \E ms \in WaitTimeouts : CallTryWait(t, o, ms)
    BY <1>0, <2>3 DEF CallTryWait
  <2>4. CASE CallExit(t, o)
    BY <1>0, <2>4 DEF CallExit
  <2>5. CASE Pulse(t, o) \/ PulseAll(t, o)
    BY <1>0, <2>5 DEF Pulse, PulseAll
  <2> QED BY <2>1, <2>2, <2>3, <2>4, <2>5
<1> QED BY <1>2, <1>3, <1>4, <1>5, <1>6 DEF StepOf

WaitLocalsInv == TypeInv /\ \A t \in Threads : WaitLocals(t)

LEMMA WaitLocalsInit == Init => WaitLocalsInv
BY TypeInvInit DEF Init, WaitLocalsInv, WaitLocals

LEMMA WaitLocalsNext == WaitLocalsInv /\ [Next]_vars => WaitLocalsInv'
<1> SUFFICES ASSUME WaitLocalsInv, [Next]_vars PROVE WaitLocalsInv'
  OBVIOUS
<1>1. TypeInv'
  BY TypeInvNext DEF WaitLocalsInv
<1>2. CASE Next
  BY <1>1, <1>2, WaitLocalsStep DEF Next, StepOf, WaitLocalsInv
<1>3. CASE UNCHANGED vars
  BY <1>1, <1>3 DEF vars, frame, WaitLocalsInv, WaitLocals
<1> QED BY <1>2, <1>3

\* What makes a thread in Wait forget the count it has to restore.
LEMMA WaitEnds ==
  ASSUME WaitLocalsInv, Exceptions = {}, NEW t \in Threads, StepOf(t),
         savedCount[t] # 0, savedCount'[t] = 0
  PROVE  RestoreCount(t)
<1>0. FrameOK /\ LocalsOK(t) /\ WaitLocals(t)
  BY DEF WaitLocalsInv, TypeInv, FrameOK
<1> USE DEF FrameOK, LocalsOK, WaitLocals, Goto, Leave, frame, EnterPCs
<1>1. CASE EnterStep(t)
  <2>1. CASE InstallMonitor(t) \/ EnterRecursively(t) \/ ConfirmAcquire(t) \/ AcquireAsWaiter(t)
    BY <1>0, <2>1 DEF InstallMonitor, EnterRecursively, ConfirmAcquire, AcquireAsWaiter, EnterSucceeds
  <2>2. CASE LastWaiterAcquires(t) \/ AcknowledgeTimeout(t)
    BY <1>0, <2>2 DEF LastWaiterAcquires, AcknowledgeTimeout
  <2>3. CASE FindLocked(t)
    BY <1>0, <2>3 DEF FindLocked, EnterFails
  <2>4. CASE AllocateMonitor(t) \/ LoseInstall(t) \/ ReadMonitor(t) \/ UndoAcquire(t)
             \/ VacateDyingMonitor(t)
    BY <1>0, <2>4 DEF AllocateMonitor, LoseInstall, ReadMonitor, UndoAcquire, VacateDyingMonitor
  <2>5. CASE AcquireFree(t) \/ JoinReadyList(t) \/ CheckStillInstalled(t) \/ FailAsWaiter(t)
             \/ Awake(t) \/ LastWaiterChecks(t)
    BY <1>0, <2>5 DEF AcquireFree, JoinReadyList, CheckStillInstalled, FailAsWaiter, Awake, LastWaiterChecks
  <2> QED BY <1>1, <2>1, <2>2, <2>3, <2>4, <2>5 DEF EnterStep
<1>2. CASE ExitStep(t)
  <2>1. CASE ExitReturns(t)
    BY <1>0, <2>1 DEF ExitReturns
  <2>2. CASE ChooseRelease(t) \/ Release(t) \/ Deflate(t) \/ KickWaiters(t) \/ AwaitAcknowledge(t)
    BY <1>0, <2>2 DEF ChooseRelease, Release, Deflate, KickWaiters, AwaitAcknowledge
  <2>3. CASE RecheckReadyList(t) \/ SignalNext(t) \/ ReturnToFreeList(t)
    BY <1>0, <2>1, <2>3 DEF RecheckReadyList, SignalNext, ReturnToFreeList
  <2> QED BY <1>2, <2>2, <2>3 DEF ExitStep
<1>3. CASE OutsideEvent(t)
  BY <1>0, <1>3 DEF OutsideEvent, AbortedInSleep, InterruptedInSleep, TimeOut
<1>4. CASE StopWaiting(t)
  BY <1>0, <1>4 DEF StopWaiting
<1>5. CASE ManagedCall(t)
  BY <1>0, <1>5 DEF ManagedCall, CallTryEnter, CallTryWait, CallExit, Pulse, PulseAll
<1> QED BY <1>1, <1>2, <1>3, <1>4, <1>5 DEF StepOf

\* Monitor.Wait gives control back only with the lock held as often as before,
\* as long as no interrupt and no abort is thrown out of the semaphore wait of
\* the Enter inside it: nothing else in the code can make that Enter fail.
THEOREM WaitReturnsLockedCorrect ==
  ASSUME Exceptions = {}
  PROVE  Spec => WaitReturnsLocked
<1>1. WaitLocalsInv /\ [Next]_vars =>
         [\A t \in Threads : savedCount[t] # 0 /\ savedCount'[t] = 0
                                => held'[t][obj[t]] = savedCount[t]]_vars
  <2> SUFFICES ASSUME WaitLocalsInv, Next, NEW t \in Threads, savedCount[t] # 0, savedCount'[t] = 0
               PROVE  held'[t][obj[t]] = savedCount[t]
    OBVIOUS
  <2>0. FrameOK /\ LocalsOK(t) /\ WaitLocals(t)
    BY DEF WaitLocalsInv, TypeInv, FrameOK
  <2>1. PICK u \in Threads : StepOf(u)
    BY DEF Next, StepOf
  <2>2. u = t
    BY <2>0, <2>1, OthersKeepLocals
  <2>3. RestoreCount(t)
    BY <2>1, <2>2, WaitEnds
  <2> QED BY <2>0, <2>3 DEF RestoreCount, FrameOK, LocalsOK, WaitLocals
<1> QED BY <1>1, WaitLocalsInit, WaitLocalsNext, PTL DEF Spec, WaitReturnsLocked

----------------------------------------------------------------------------
(* Whoever keeps what it acquired acquired the right monitor *)

\* A monitor that anybody may take is taken by TryAcquire only.
LEMMA TakingSteps ==
  ASSUME LockInv, NEW u \in Threads, StepOf(u), NEW t \in Threads, NEW m \in Monitors,
         owningThreadId[m] = Available, owningThreadId'[m] = t
  PROVE  AcquireFree(u) \/ AcquireAsWaiter(u) \/ LastWaiterAcquires(u)
<1>0. HeapOK /\ FrameOK /\ FreeIsOff
  BY DEF LockInv, TypeInv
<1> USE DEF HeapOK, FreeIsOff, lock
<1>1. ~AllocateMonitor(u)
  BY <1>0, OwnerAssumption DEF AllocateMonitor
<1>2. CASE EnterStep(u)
  <2>1. ~(UndoAcquire(u) \/ LoseInstall(u))
    BY <1>0, OwnerAssumption DEF UndoAcquire, LoseInstall, Unacquire
  <2>2. ~(InstallMonitor(u) \/ EnterRecursively(u) \/ ConfirmAcquire(u) \/ FindLocked(u))
    BY <1>0, OwnerAssumption DEF InstallMonitor, EnterRecursively, ConfirmAcquire, FindLocked, CannotAcquire
  <2>3. ~(ReadMonitor(u) \/ VacateDyingMonitor(u) \/ JoinReadyList(u) \/ CheckStillInstalled(u)
          \/ FailAsWaiter(u) \/ Awake(u) \/ LastWaiterChecks(u) \/ AcknowledgeTimeout(u))
    BY <1>0, OwnerAssumption
       DEF ReadMonitor, VacateDyingMonitor, JoinReadyList, CheckStillInstalled, FailAsWaiter,
           CannotAcquire, Awake, LastWaiterChecks, AcknowledgeTimeout
  <2> QED BY <1>1, <1>2, <2>1, <2>2, <2>3 DEF EnterStep
<1>3. ~ExitStep(u)
  <2>1. ~(Release(u) \/ ReturnToFreeList(u))
    BY <1>0, OwnerAssumption DEF Release, ReturnToFreeList, Unacquire
  <2>2. ~(ChooseRelease(u) \/ RecheckReadyList(u) \/ SignalNext(u) \/ Deflate(u) \/ KickWaiters(u)
          \/ AwaitAcknowledge(u))
    BY <1>0, OwnerAssumption
       DEF ChooseRelease, RecheckReadyList, SignalNext, Deflate, KickWaiters, AwaitAcknowledge
  <2> QED BY <2>1, <2>2 DEF ExitStep
<1>4. ~(OutsideEvent(u) \/ StopWaiting(u) \/ RestoreCount(u))
  BY <1>0, OwnerAssumption
     DEF OutsideEvent, AbortedInSleep, InterruptedInSleep, TimeOut, StopWaiting, RestoreCount
<1>5. ~ManagedCall(u)
  BY <1>0, OwnerAssumption DEF ManagedCall, CallTryEnter, CallTryWait, CallExit, Pulse, PulseAll
<1> QED BY <1>2, <1>3, <1>4, <1>5 DEF StepOf

\* A thread that takes a monitor after having waited for it takes the one that
\* its object carries: on the ready list it has kept that one from moving.
LEMMA WaiterTakesInstalled ==
  ASSUME LockInv, NEW t \in Threads, owningThreadId[mon[t]] = Available,
         AcquireAsWaiter(t) \/ LastWaiterAcquires(t)
  PROVE  monitor[obj[t]] = mon[t]
<1>0. /\ FrameOK /\ LocalsOK(t) /\ Pinned(t) /\ WaitFrame(t) /\ AvailableIsInstalled
      /\ \A u \in Threads : PrivateMonitor(u)
  BY DEF LockInv, TypeInv, FrameOK, OwnInv
<1>1. CASE AcquireAsWaiter(t)
  BY <1>0, <1>1, OwnerAssumption DEF AcquireAsWaiter, Pinned, PrivateMonitor, PrivatePCs
<1>2. CASE LastWaiterAcquires(t)
  <2>1. pc[t] = "timeoutGrab" /\ mon[t] \in Monitors /\ obj[t] \in Objects
    BY <1>0, <1>2 DEF LastWaiterAcquires, LocalsOK, EnterPCs
  <2>2. SingleObject
    BY <1>0, <2>1 DEF WaitFrame
  <2> QED BY <1>0, <2>1, <2>2 DEF AvailableIsInstalled, SingleObject
<1> QED BY <1>1, <1>2

\* The assertions after every successful TryAcquire in TryEnter: a thread that
\* keeps the monitor it took has taken the one of the object it asked for, for
\* any numbers of threads, objects and monitors.
THEOREM AcquiredIsInstalledCorrect ==
  ASSUME NoStaleTimeout, NoAbort
  PROVE  Spec => AcquiredIsInstalled
<1>1. LockInv /\ [Next]_vars =>
         [\A t \in Threads, m \in Monitors :
             /\ mon[t] = m /\ owningThreadId[m] = Available
             /\ owningThreadId'[m] = t /\ pc'[t] # "recheck"
             => monitor[obj[t]] = m]_vars
  <2> SUFFICES ASSUME LockInv, Next, NEW t \in Threads, NEW m \in Monitors,
                      mon[t] = m, owningThreadId[m] = Available,
                      owningThreadId'[m] = t, pc'[t] # "recheck"
               PROVE  monitor[obj[t]] = m
    OBVIOUS
  <2>0. HeapOK /\ FrameOK
    BY DEF LockInv, TypeInv
  <2>1. PICK u \in Threads : StepOf(u)
    BY DEF Next, StepOf
  <2>2. AcquireFree(u) \/ AcquireAsWaiter(u) \/ LastWaiterAcquires(u)
    BY <2>1, TakingSteps
  <2>3. u = t
    BY <2>0, <2>2, OwnerAssumption
       DEF AcquireFree, AcquireAsWaiter, LastWaiterAcquires, TryAcquire, CannotAcquire, HeapOK
  <2>4. ~AcquireFree(t)
    BY <2>0 DEF AcquireFree, Goto, FrameOK
  <2> QED BY <2>2, <2>3, <2>4, WaiterTakesInstalled
<1> QED BY <1>1, LockInvCorrect, PTL DEF Spec, AcquiredIsInstalled

----------------------------------------------------------------------------
(* Pulse waiting lists *)

\* A new wait node goes in front of the others.
LEMMA LinkedSet ==
  ASSUME NEW S, NEW s \in Seq(S), NEW t \in S
  PROVE  ToSet(<<t>> \o s) = ToSet(s) \cup {t}
<1> DEFINE r == <<t>> \o s
<1>1. /\ r \in Seq(S) /\ Len(r) = Len(s) + 1 /\ r[1] = t
      /\ \A i \in 1 .. Len(s) : r[i + 1] = s[i]
  BY ConcatProperties, LenProperties
<1> HIDE DEF r
<1>2. ASSUME NEW x PROVE x \in ToSet(r) <=> x \in ToSet(s) \cup {t}
  <2>1. Len(s) \in Nat
    BY LenProperties
  <2>2. ASSUME NEW i \in 1 .. Len(r), r[i] = x PROVE x = t \/ \E j \in 1 .. Len(s) : s[j] = x
    <3>1. CASE i = 1
      BY <1>1, <2>2, <3>1
    <3>2. CASE i # 1
      <4>1. i - 1 \in 1 .. Len(s) /\ (i - 1) + 1 = i
        BY <1>1, <2>1, <2>2, <3>2
      <4> QED BY <1>1, <2>2, <4>1
    <3> QED BY <3>1, <3>2
  <2>3. ASSUME NEW j \in 1 .. Len(s), s[j] = x PROVE \E i \in 1 .. Len(r) : r[i] = x
    <3>1. j + 1 \in 1 .. Len(r) /\ r[j + 1] = x
      BY <1>1, <2>1, <2>3
    <3> QED BY <3>1
  <2>4. 1 \in 1 .. Len(r)
    BY <1>1, <2>1
  <2> QED BY <1>1, <2>2, <2>3, <2>4, ToSetOfSeq
<1> QED BY <1>2 DEF r

\* Pulse leaves everybody on the list but its head.
LEMMA TailSet ==
  ASSUME NEW S, NEW s \in Seq(S), s # <<>>, NEW x
  PROVE  /\ x \in ToSet(s) /\ x # Head(s) => x \in ToSet(Tail(s))
         /\ x \in ToSet(Tail(s)) => x \in ToSet(s)
<1>1. /\ Tail(s) \in Seq(S) /\ Len(Tail(s)) = Len(s) - 1 /\ Head(s) = s[1]
      /\ \A i \in 1 .. Len(Tail(s)) : Tail(s)[i] = s[i + 1]
      /\ Len(s) \in Nat /\ Len(s) # 0
  BY HeadTailProperties, LenProperties, EmptySeq
<1> DEFINE r == Tail(s)
<1> HIDE DEF r
<1>2. r = Tail(s)
  BY DEF r
<1>3. ASSUME NEW i \in 1 .. Len(s), s[i] = x, x # Head(s) PROVE \E j \in 1 .. Len(r) : r[j] = x
  <2>1. i - 1 \in 1 .. Len(r) /\ (i - 1) + 1 = i
    BY <1>1, <1>2, <1>3
  <2> QED BY <1>1, <1>2, <1>3, <2>1
<1>4. ASSUME NEW j \in 1 .. Len(r), r[j] = x PROVE \E i \in 1 .. Len(s) : s[i] = x
  <2>1. j + 1 \in 1 .. Len(s) /\ s[j + 1] = x
    BY <1>1, <1>2, <1>4
  <2> QED BY <2>1
<1>5. x \in ToSet(s) <=> \E i \in 1 .. Len(s) : s[i] = x
  BY ToSetOfSeq
<1>6. x \in ToSet(r) <=> \E j \in 1 .. Len(r) : r[j] = x
  <2>1. r \in Seq(S)
    BY <1>1, <1>2
  <2> QED BY <2>1, ToSetOfSeq
<1> QED BY <1>2, <1>3, <1>4, <1>5, <1>6

\* Cutting a thread's node out of a list closes the gap.
LEMMA UnlinkElements ==
  ASSUME NEW list \in Seq(Threads), NEW t \in ToSet(list)
  PROVE  \E i \in 1 .. Len(list) :
            /\ list[i] = t
            /\ Unlink(list, t) \in Seq(Threads)
            /\ Len(Unlink(list, t)) = Len(list) - 1
            /\ \A j \in 1 .. Len(list) - 1 :
                  Unlink(list, t)[j] = IF j < i THEN list[j] ELSE list[j + 1]
<1> DEFINE i == CHOOSE j \in DOMAIN list : list[j] = t
           r == RemoveAt(list, i)
<1>1. i \in 1 .. Len(list) /\ list[i] = t
  BY LenProperties DEF ToSet
<1>2. Len(list) \in Nat
  BY LenProperties
<1> HIDE DEF i
<1>3. /\ SubSeq(list, 1, i - 1) \in Seq(Threads) /\ Len(SubSeq(list, 1, i - 1)) = i - 1
      /\ \A j \in 1 .. i - 1 : SubSeq(list, 1, i - 1)[j] = list[j]
  <2>1. \A j \in 1 .. i - 1 : list[j] \in Threads
    BY <1>1, <1>2, ElementOfSeq
  <2>2. i - 1 \in Int
    BY <1>1, <1>2
  <2>3. /\ SubSeq(list, 1, i - 1) \in Seq(Threads)
        /\ Len(SubSeq(list, 1, i - 1)) = IF 1 <= i - 1 THEN (i - 1) - 1 + 1 ELSE 0
        /\ \A j \in 1 .. (i - 1) - 1 + 1 : SubSeq(list, 1, i - 1)[j] = list[1 + j - 1]
    BY <2>1, <2>2, SubSeqProperties
  <2>4. \A j \in 1 .. i - 1 : 1 + j - 1 = j /\ j \in 1 .. (i - 1) - 1 + 1
    BY <1>1, <1>2
  <2>5. (IF 1 <= i - 1 THEN (i - 1) - 1 + 1 ELSE 0) = i - 1
    BY <1>1, <1>2
  <2> QED BY <2>3, <2>4, <2>5
<1>4. /\ SubSeq(list, i + 1, Len(list)) \in Seq(Threads)
      /\ Len(SubSeq(list, i + 1, Len(list))) = Len(list) - i
      /\ \A j \in 1 .. Len(list) - i : SubSeq(list, i + 1, Len(list))[j] = list[i + j]
  <2>1. \A j \in i + 1 .. Len(list) : list[j] \in Threads
    BY <1>1, <1>2, ElementOfSeq
  <2>2. i + 1 \in Int /\ Len(list) \in Int
    BY <1>1, <1>2
  <2>3. /\ SubSeq(list, i + 1, Len(list)) \in Seq(Threads)
        /\ Len(SubSeq(list, i + 1, Len(list))) =
              IF i + 1 <= Len(list) THEN Len(list) - (i + 1) + 1 ELSE 0
        /\ \A j \in 1 .. Len(list) - (i + 1) + 1 :
              SubSeq(list, i + 1, Len(list))[j] = list[i + 1 + j - 1]
    BY <2>1, <2>2, SubSeqProperties
  <2>4. \A j \in 1 .. Len(list) - i : i + 1 + j - 1 = i + j /\ j \in 1 .. Len(list) - (i + 1) + 1
    BY <1>1, <1>2
  <2>5. (IF i + 1 <= Len(list) THEN Len(list) - (i + 1) + 1 ELSE 0) = Len(list) - i
    BY <1>1, <1>2
  <2> QED BY <2>3, <2>4, <2>5
<1>5. /\ r \in Seq(Threads) /\ Len(r) = Len(list) - 1
      /\ \A j \in 1 .. Len(list) - 1 : r[j] = IF j < i THEN list[j] ELSE list[j + 1]
  <2> DEFINE a == SubSeq(list, 1, i - 1)
             b == SubSeq(list, i + 1, Len(list))
  <2>1. r = a \o b
    BY DEF RemoveAt
  <2> HIDE DEF a, b, r
  <2>2. /\ a \in Seq(Threads) /\ Len(a) = i - 1 /\ \A j \in 1 .. i - 1 : a[j] = list[j]
        /\ b \in Seq(Threads) /\ Len(b) = Len(list) - i
        /\ \A j \in 1 .. Len(list) - i : b[j] = list[i + j]
    BY <1>3, <1>4 DEF a, b
  <2>3. /\ a \o b \in Seq(Threads) /\ Len(a \o b) = Len(a) + Len(b)
        /\ \A j \in 1 .. Len(a) + Len(b) : (a \o b)[j] = IF j <= Len(a) THEN a[j] ELSE b[j - Len(a)]
    BY <2>2, ConcatProperties
  <2>4. r \in Seq(Threads) /\ Len(r) = Len(list) - 1
    BY <1>1, <1>2, <2>1, <2>2, <2>3
  <2>5. ASSUME NEW j \in 1 .. Len(r) PROVE r[j] = IF j < i THEN list[j] ELSE list[j + 1]
    <3>0. j \in 1 .. Len(a) + Len(b)
      BY <1>1, <1>2, <2>2, <2>4
    <3>1. CASE j < i
      <4>1. j <= Len(a) /\ j \in 1 .. i - 1
        BY <1>1, <2>2, <3>0, <3>1
      <4> QED BY <2>1, <2>2, <2>3, <3>0, <3>1, <4>1
    <3>2. CASE ~(j < i)
      <4>1. ~(j <= Len(a)) /\ j - Len(a) \in 1 .. Len(list) - i /\ i + (j - Len(a)) = j + 1
        BY <1>1, <1>2, <2>2, <2>4, <3>0, <3>2
      <4> QED BY <2>1, <2>2, <2>3, <3>0, <3>2, <4>1
    <3> QED BY <3>1, <3>2
  <2> QED BY <2>4, <2>5
<1>6. Unlink(list, t) = r
  BY DEF Unlink, r, i
<1> QED BY <1>1, <1>5, <1>6

\* The nodes of the other threads stay on the list.
LEMMA UnlinkedOthers ==
  ASSUME NEW list \in Seq(Threads), NEW t, NEW x, x # t
  PROVE  x \in ToSet(Unlink(list, t)) <=> x \in ToSet(list)
<1>1. CASE t \in ToSet(list)
  <2> DEFINE r == Unlink(list, t)
  <2>1. PICK i \in 1 .. Len(list) :
           /\ list[i] = t /\ r \in Seq(Threads) /\ Len(r) = Len(list) - 1
           /\ \A j \in 1 .. Len(list) - 1 : r[j] = IF j < i THEN list[j] ELSE list[j + 1]
    BY <1>1, UnlinkElements
  <2> HIDE DEF r
  <2>2. Len(list) \in Nat
    BY LenProperties
  <2>3. ASSUME NEW k \in 1 .. Len(list), list[k] = x PROVE \E j \in 1 .. Len(r) : r[j] = x
    <3>1. CASE k < i
      <4>1. k \in 1 .. Len(r)
        BY <2>1, <2>2, <3>1
      <4> QED BY <2>1, <2>3, <3>1, <4>1
    <3>2. CASE ~(k < i)
      <4>1. k # i
        BY <2>1, <2>3
      <4>2. k - 1 \in 1 .. Len(r) /\ ~(k - 1 < i) /\ (k - 1) + 1 = k
        BY <2>1, <2>2, <3>2, <4>1
      <4> QED BY <2>1, <2>3, <4>2
    <3> QED BY <3>1, <3>2
  <2>4. ASSUME NEW j \in 1 .. Len(r), r[j] = x PROVE \E k \in 1 .. Len(list) : list[k] = x
    <3>1. j \in 1 .. Len(list) /\ j + 1 \in 1 .. Len(list)
      BY <2>1, <2>2
    <3> QED BY <2>1, <2>4, <3>1
  <2>5. x \in ToSet(r) <=> x \in ToSet(list)
    BY <2>1, <2>3, <2>4, ToSetOfSeq
  <2> QED BY <2>5 DEF r
<1>2. CASE t \notin ToSet(list)
  BY <1>2 DEF Unlink
<1> QED BY <1>1, <1>2

\* Nobody is on the list twice.
NoneTwice(s) == \A i, j \in 1 .. Len(s) : s[i] = s[j] => i = j

\* On a list with nobody on it twice, the thread itself is gone, and there is
\* still nobody on it twice.
LEMMA UnlinkedGone ==
  ASSUME NEW list \in Seq(Threads), NEW t, NoneTwice(list)
  PROVE  NoneTwice(Unlink(list, t)) /\ t \notin ToSet(Unlink(list, t))
<1>1. CASE t \in ToSet(list)
  <2> DEFINE r == Unlink(list, t)
  <2>1. PICK i \in 1 .. Len(list) :
           /\ list[i] = t /\ r \in Seq(Threads) /\ Len(r) = Len(list) - 1
           /\ \A j \in 1 .. Len(list) - 1 : r[j] = IF j < i THEN list[j] ELSE list[j + 1]
    BY <1>1, UnlinkElements
  <2> HIDE DEF r
  <2>2. Len(list) \in Nat
    BY LenProperties
  <2>3. ASSUME NEW j \in 1 .. Len(r), NEW k \in 1 .. Len(r), r[j] = r[k] PROVE j = k
    <3> DEFINE J == IF j < i THEN j ELSE j + 1
               K == IF k < i THEN k ELSE k + 1
    <3>1. J \in 1 .. Len(list) /\ K \in 1 .. Len(list)
      BY <2>1, <2>2
    <3>2. r[j] = list[J] /\ r[k] = list[K]
      BY <2>1
    <3>3. J = K
      BY <2>3, <3>1, <3>2 DEF NoneTwice
    <3> QED BY <2>1, <2>2, <3>3
  <2>4. ASSUME NEW j \in 1 .. Len(r), r[j] = t PROVE FALSE
    <3> DEFINE J == IF j < i THEN j ELSE j + 1
    <3>1. J \in 1 .. Len(list) /\ r[j] = list[J] /\ J # i
      BY <2>1, <2>2
    <3> QED BY <2>1, <2>4, <3>1 DEF NoneTwice
  <2>5. NoneTwice(r) /\ t \notin ToSet(r)
    BY <2>1, <2>3, <2>4, ToSetOfSeq DEF NoneTwice
  <2> QED BY <2>5 DEF r
<1>2. CASE t \notin ToSet(list)
  BY <1>2 DEF Unlink
<1> QED BY <1>1, <1>2

----------------------------------------------------------------------------
(* A waiting thread can be pulsed *)

\* From the Exit inside Wait until the wait for the pulse ends.
Waiting(t) ==
    savedCount[t] # 0 /\ pc[t] \in ExitPCs \cup {"pulseWait"} /\ timeout[t] # "zero"

\* Nothing but a call of Wait makes a thread wait, and while it is in that call
\* its object and its count stay.
LEMMA StillWaiting ==
  ASSUME TypeInv, NEW t \in Threads, WaitLocals(t), StepOf(t), ~Waits(t)
  PROVE  /\ savedCount'[t] # 0 => savedCount'[t] = savedCount[t] /\ obj'[t] = obj[t]
         /\ Waiting(t)' => Waiting(t)
<1>0. FrameOK /\ LocalsOK(t)
  BY DEF TypeInv, FrameOK
<1> USE DEF FrameOK, LocalsOK, Waiting, WaitLocals, Goto, Leave, frame, ExitPCs
<1>1. CASE EnterStep(t)
  <2>1. CASE InstallMonitor(t) \/ EnterRecursively(t) \/ ConfirmAcquire(t) \/ AcquireAsWaiter(t)
    BY <1>0, <2>1 DEF InstallMonitor, EnterRecursively, ConfirmAcquire, AcquireAsWaiter, EnterSucceeds
  <2>2. CASE LastWaiterAcquires(t)
    BY <1>0, <2>2 DEF LastWaiterAcquires, EnterSucceeds
  <2>3. CASE FindLocked(t) \/ AcknowledgeTimeout(t)
    BY <1>0, <2>3 DEF FindLocked, AcknowledgeTimeout, EnterFails
  <2>4. CASE AllocateMonitor(t) \/ LoseInstall(t) \/ ReadMonitor(t) \/ UndoAcquire(t)
             \/ VacateDyingMonitor(t)
    BY <1>0, <2>4 DEF AllocateMonitor, LoseInstall, ReadMonitor, UndoAcquire, VacateDyingMonitor
  <2>5. CASE AcquireFree(t) \/ JoinReadyList(t) \/ CheckStillInstalled(t) \/ FailAsWaiter(t)
             \/ Awake(t) \/ LastWaiterChecks(t)
    BY <1>0, <2>5 DEF AcquireFree, JoinReadyList, CheckStillInstalled, FailAsWaiter, Awake, LastWaiterChecks
  <2> QED BY <1>1, <2>1, <2>2, <2>3, <2>4, <2>5 DEF EnterStep
<1>2. CASE ExitStep(t)
  <2>1. CASE pc[t] \in ExitPCs /\ ExitReturns(t)
    BY <1>0, <2>1 DEF ExitReturns
  <2>2. CASE ChooseRelease(t) \/ Release(t) \/ Deflate(t) \/ KickWaiters(t) \/ AwaitAcknowledge(t)
    BY <1>0, <2>2 DEF ChooseRelease, Release, Deflate, KickWaiters, AwaitAcknowledge
  <2>3. CASE RecheckReadyList(t) \/ SignalNext(t) \/ ReturnToFreeList(t)
    BY <1>0, <2>1, <2>3 DEF RecheckReadyList, SignalNext, ReturnToFreeList
  <2> QED BY <1>2, <2>2, <2>3 DEF ExitStep
<1>3. CASE OutsideEvent(t)
  BY <1>0, <1>3 DEF OutsideEvent, AbortedInSleep, InterruptedInSleep, TimeOut
<1>4. CASE StopWaiting(t) \/ RestoreCount(t)
  BY <1>0, <1>4 DEF StopWaiting, RestoreCount
<1>5. CASE ManagedCall(t)
  <2>1. PICK o \in Objects :
           \/ \E ms \in EnterTimeouts : CallTryEnter(t, o, ms)
           \/ CallExit(t, o) \/ Pulse(t, o) \/ PulseAll(t, o)
    BY <1>5 DEF ManagedCall, Waits
  <2> QED BY <1>0, <2>1 DEF CallTryEnter, CallExit, Pulse, PulseAll
<1> QED BY <1>1, <1>2, <1>3, <1>4, <1>5 DEF StepOf

\* A thread waiting for a pulse that has not come is on its object's list; that
\* is true from the moment Wait is called, while the Exit inside it still runs.
WaiterListed(t) ==
    Waiting(t) /\ ~signalWaitingThread[t] =>
       /\ monitor[obj[t]] # NoMonitor
       /\ t \in ToSet(threadsWaitingForPulse[monitor[obj[t]]])

WaitInv == LockInv /\ \A t \in Threads : WaitLocals(t) /\ WaiterListed(t)

LEMMA WaiterListedStep ==
  ASSUME WaitInv, LockInv', NEW t \in Threads, StepOf(t), NEW u \in Threads
  PROVE  WaiterListed(u)'
<1>0. /\ HeapOK /\ FrameOK /\ HeapOK' /\ FrameOK' /\ LocalsOK(u) /\ LocalsOK(t) /\ OwnInv(t)
      /\ WaitLocals(t) /\ WaitLocals(u) /\ WaiterListed(u)
  BY DEF WaitInv, LockInv, TypeInv, FrameOK
<1>1. CASE Waits(t)
  <2>1. PICK o \in Objects, ms \in WaitTimeouts : CallTryWait(t, o, ms)
    BY <1>1 DEF Waits
  <2>2. /\ UNCHANGED monitor /\ monitor[o] \in Monitors
        /\ timeout'[t] = ms /\ obj'[t] = o
        /\ \A v \in Threads \ {t} : signalWaitingThread'[v] = signalWaitingThread[v]
        /\ threadsWaitingForPulse' =
              IF ms = "zero" THEN threadsWaitingForPulse
              ELSE [threadsWaitingForPulse EXCEPT ![monitor[o]] = <<t>> \o @]
    BY <1>0, <2>1 DEF CallTryWait, LockedByCurrentThread, HeapOK, FrameOK
  <2>3. \A m \in Monitors : ToSet(<<t>> \o threadsWaitingForPulse[m])
                               = ToSet(threadsWaitingForPulse[m]) \cup {t}
    BY <1>0, LinkedSet DEF HeapOK
  <2>4. ms # "zero" => \A m \in Monitors :
           threadsWaitingForPulse'[m] = IF m = monitor[o] THEN <<t>> \o threadsWaitingForPulse[m]
                                        ELSE threadsWaitingForPulse[m]
    BY <1>0, <2>2 DEF HeapOK
  <2>5. CASE u = t
    <3>1. CASE ms = "zero"
      BY <2>2, <2>5, <3>1 DEF WaiterListed, Waiting
    <3>2. CASE ms # "zero"
      <4>1. t \in ToSet(threadsWaitingForPulse'[monitor[o]])
        BY <2>2, <2>3, <2>4, <3>2
      <4> QED BY <2>2, <2>5, <4>1, NullAssumption DEF WaiterListed
    <3> QED BY <3>1, <3>2
  <2>6. CASE u # t
    <3> SUFFICES ASSUME Waiting(u)', ~signalWaitingThread'[u]
                 PROVE  /\ monitor'[obj'[u]] # NoMonitor
                        /\ u \in ToSet(threadsWaitingForPulse'[monitor'[obj'[u]]])
      BY DEF WaiterListed
    <3>1. obj'[u] = obj[u] /\ Waiting(u) /\ ~signalWaitingThread[u]
      BY <1>0, <2>2, <2>6, OthersKeepLocals DEF Waiting
    <3>2. monitor[obj[u]] \in Monitors /\ u \in ToSet(threadsWaitingForPulse[monitor[obj[u]]])
      BY <1>0, <3>1 DEF WaiterListed, Waiting, LocalsOK, HeapOK, ExitPCs
    <3>3. \A m \in Monitors : u \in ToSet(threadsWaitingForPulse[m])
                                 => u \in ToSet(threadsWaitingForPulse'[m])
      <4>1. CASE ms = "zero"
        BY <2>2, <4>1
      <4>2. CASE ms # "zero"
        BY <2>3, <2>4, <4>2
      <4> QED BY <4>1, <4>2
    <3> QED BY <2>2, <3>1, <3>2, <3>3, NullAssumption
  <2> QED BY <2>5, <2>6
<1>2. CASE ~Waits(t)
  <2> SUFFICES ASSUME Waiting(u)', ~signalWaitingThread'[u]
               PROVE  /\ monitor'[obj'[u]] # NoMonitor
                      /\ u \in ToSet(threadsWaitingForPulse'[monitor'[obj'[u]]])
    BY DEF WaiterListed
  <2>1. Waiting(u) /\ obj'[u] = obj[u] /\ obj[u] \in Objects
    <3>1. CASE u = t
      BY <1>0, <1>2, <3>1, StillWaiting DEF WaitInv, LockInv, Waiting, LocalsOK, ExitPCs
    <3>2. CASE u # t
      BY <1>0, <3>2, OthersKeepLocals DEF Waiting, LocalsOK, ExitPCs
    <3> QED BY <3>1, <3>2
  <2>2. CASE StopWaiting(t) \/ RestoreCount(t)
    <3>1. u # t
      BY <1>0, <2>2 DEF StopWaiting, RestoreCount, Goto, Leave, Waiting, FrameOK, ExitPCs
    <3>2. UNCHANGED monitor /\ signalWaitingThread'[u] = signalWaitingThread[u]
      BY <1>0, <2>2, <3>1 DEF StopWaiting, RestoreCount, lock, HeapOK
    <3>3. monitor[obj[u]] \in Monitors /\ u \in ToSet(threadsWaitingForPulse[monitor[obj[u]]])
      BY <1>0, <2>1, <3>2 DEF WaiterListed, HeapOK
    <3>4. \A m \in Monitors : u \in ToSet(threadsWaitingForPulse[m])
                                 => u \in ToSet(threadsWaitingForPulse'[m])
      <4>1. CASE StopWaiting(t)
        BY <4>1 DEF StopWaiting
      <4>2. CASE RestoreCount(t)
        <5>1. \A m \in Monitors : u \in ToSet(threadsWaitingForPulse[m])
                                     => u \in ToSet(Unlink(threadsWaitingForPulse[m], t))
          BY <1>0, <3>1, UnlinkedOthers DEF HeapOK
        <5> QED BY <1>0, <4>2, <5>1 DEF RestoreCount, HeapOK
      <4> QED BY <2>2, <4>1, <4>2
    <3> QED BY <2>1, <3>2, <3>3, <3>4, NullAssumption
  <2>3. CASE Pulses(t)
    <3>1. PICK o \in Objects : Pulse(t, o) \/ PulseAll(t, o)
      BY <2>3 DEF Pulses
    <3> DEFINE m == monitor[o]
               list == threadsWaitingForPulse[m]
    <3>2. UNCHANGED monitor /\ m \in Monitors /\ list \in Seq(Threads) /\ list # <<>>
      BY <1>0, <3>1 DEF Pulse, PulseAll, lock, LockedByCurrentThread, HeapOK
    <3>3. ~signalWaitingThread[u]
      <4>1. CASE Pulse(t, o)
        BY <1>0, <4>1 DEF Pulse, HeapOK
      <4>2. CASE PulseAll(t, o)
        BY <4>2 DEF PulseAll
      <4> QED BY <3>1, <4>1, <4>2
    <3>4. monitor[obj[u]] \in Monitors /\ u \in ToSet(threadsWaitingForPulse[monitor[obj[u]]])
      BY <1>0, <2>1, <3>3 DEF WaiterListed, HeapOK
    <3>5. u \in ToSet(list) => u \in ToSet(threadsWaitingForPulse'[m])
      <4>1. CASE Pulse(t, o)
        <5>1. Head(list) = u => signalWaitingThread'[u]
          BY <1>0, <4>1 DEF Pulse, HeapOK
        <5>2. threadsWaitingForPulse'[m] = Tail(list)
          BY <1>0, <3>2, <4>1 DEF Pulse, HeapOK
        <5> QED BY <3>2, <5>1, <5>2, TailSet
      <4>2. CASE PulseAll(t, o)
        BY <4>2 DEF PulseAll
      <4> QED BY <3>1, <4>1, <4>2
    <3>6. \A n \in Monitors \ {m} : threadsWaitingForPulse'[n] = threadsWaitingForPulse[n]
      BY <1>0, <3>1 DEF Pulse, PulseAll, HeapOK
    <3> HIDE DEF m, list
    <3>7. list = threadsWaitingForPulse[m]
      BY DEF list
    <3> QED BY <2>1, <3>2, <3>4, <3>5, <3>6, <3>7, NullAssumption
  <2>4. CASE ~(StopWaiting(t) \/ RestoreCount(t) \/ Pulses(t))
    <3>1. UNCHANGED pulse
      BY <1>2, <2>4, PulseSteps DEF pulse
    <3>2. monitor[obj[u]] \in Monitors /\ u \in ToSet(threadsWaitingForPulse[monitor[obj[u]]])
      BY <1>0, <2>1, <3>1 DEF WaiterListed, HeapOK, pulse
    <3>3. monitor'[obj[u]] = monitor[obj[u]]
      <4>1. CASE InstallMonitor(t)
        BY <1>0, <2>1, <3>2, <4>1, NullAssumption DEF InstallMonitor, HeapOK
      <4>2. CASE Deflate(t)
        <5>1. monitor[obj[t]] = mon[t] /\ threadsWaitingForPulse[mon[t]] = <<>>
          BY <1>0, <4>2 DEF Deflate, OwnInv, OwnerInExit, OwningPCs
        <5>2. u \notin ToSet(<<>>)
          BY EmptyList
        <5>3. obj[u] # obj[t]
          BY <3>2, <5>1, <5>2
        <5> QED BY <1>0, <2>1, <4>2, <5>3 DEF Deflate, HeapOK
      <4> QED BY <4>1, <4>2, InflationSteps
    <3> QED BY <2>1, <3>1, <3>2, <3>3, NullAssumption DEF pulse
  <2> QED BY <2>2, <2>3, <2>4
<1> QED BY <1>1, <1>2

LEMMA WaitInvInit == Init => WaitInv
BY LockInvInit, WaitLocalsInit DEF Init, WaitInv, WaitLocalsInv, WaiterListed, Waiting

LEMMA WaitInvNext ==
  ASSUME NoStaleTimeout, NoAbort
  PROVE  WaitInv /\ [Next]_vars => WaitInv'
<1> SUFFICES ASSUME WaitInv, [Next]_vars PROVE WaitInv'
  OBVIOUS
<1>1. LockInv'
  BY LockInvNext DEF WaitInv
<1>2. \A t \in Threads : WaitLocals(t)'
  BY WaitLocalsNext DEF WaitInv, LockInv, WaitLocalsInv
<1>3. CASE Next
  <2>1. PICK t \in Threads : StepOf(t)
    BY <1>3 DEF Next, StepOf
  <2>2. \A u \in Threads : WaiterListed(u)'
    BY <1>1, <2>1, WaiterListedStep
  <2> QED BY <1>1, <1>2, <2>2 DEF WaitInv
<1>4. CASE UNCHANGED vars
  BY <1>1, <1>2, <1>4 DEF vars, lock, pulse, frame, WaitInv, WaiterListed, Waiting
<1> QED BY <1>3, <1>4

LEMMA WaitInvCorrect ==
  ASSUME NoStaleTimeout, NoAbort
  PROVE  Spec => []WaitInv
<1>1. WaitInv /\ [Next]_vars => WaitInv'
  BY WaitInvNext
<1> QED BY <1>1, WaitInvInit, PTL DEF Spec

\* A thread waiting for a pulse that has not come is on the list of the monitor
\* its object carries now, where the next Pulse will find it: interrupts and
\* timeouts of other threads, Exits and recycling never strand it.
THEOREM WaitersCanBePulsedCorrect ==
  ASSUME NoStaleTimeout, NoAbort
  PROVE  Spec => []WaitersCanBePulsed
<1>1. ASSUME WaitInv, NEW t \in Threads, pc[t] = "pulseWait", ~signalWaitingThread[t]
      PROVE  /\ monitor[obj[t]] # NoMonitor
             /\ t \in ToSet(threadsWaitingForPulse[monitor[obj[t]]])
  BY <1>1 DEF WaitInv, WaitLocals, WaiterListed, Waiting
<1>2. WaitInv => WaitersCanBePulsed
  BY <1>1 DEF WaitersCanBePulsed
<1> QED BY <1>2, WaitInvCorrect, PTL

----------------------------------------------------------------------------
(* Who is on a pulse waiting list *)

LEMMA LinkedOnce ==
  ASSUME NEW s \in Seq(Threads), NEW t \in Threads, NoneTwice(s), t \notin ToSet(s)
  PROVE  NoneTwice(<<t>> \o s)
<1> DEFINE r == <<t>> \o s
<1>1. /\ r \in Seq(Threads) /\ Len(r) = Len(s) + 1 /\ r[1] = t
      /\ \A i \in 1 .. Len(s) : r[i + 1] = s[i]
  BY ConcatProperties, LenProperties
<1> HIDE DEF r
<1>2. Len(s) \in Nat
  BY LenProperties
<1>3. ASSUME NEW i \in 2 .. Len(r) PROVE i - 1 \in 1 .. Len(s) /\ r[i] = s[i - 1] /\ r[i] # t
  <2>1. i - 1 \in 1 .. Len(s) /\ (i - 1) + 1 = i
    BY <1>1, <1>2
  <2>2. r[i] = s[i - 1]
    BY <1>1, <2>1
  <2> QED BY <2>1, <2>2, ToSetOfSeq
<1>4. ASSUME NEW i \in 1 .. Len(r), NEW j \in 1 .. Len(r), r[i] = r[j] PROVE i = j
  <2>1. (i = 1 \/ i \in 2 .. Len(r)) /\ (j = 1 \/ j \in 2 .. Len(r))
    BY <1>1, <1>2
  <2>2. i # 1 /\ j # 1 => i - 1 = j - 1
    BY <1>3, <1>4, <2>1 DEF NoneTwice
  <2> QED BY <1>1, <1>3, <1>4, <2>1, <2>2
<1> QED BY <1>4 DEF NoneTwice, r

\* Pulse takes the head of the list off it for good.
LEMMA TailOnce ==
  ASSUME NEW s \in Seq(Threads), s # <<>>, NoneTwice(s)
  PROVE  NoneTwice(Tail(s)) /\ Head(s) \notin ToSet(Tail(s))
<1> DEFINE r == Tail(s)
<1>1. /\ r \in Seq(Threads) /\ Len(r) = Len(s) - 1 /\ Head(s) = s[1]
      /\ \A i \in 1 .. Len(r) : r[i] = s[i + 1]
      /\ Len(s) \in Nat /\ Len(s) # 0
  BY HeadTailProperties, LenProperties, EmptySeq
<1> HIDE DEF r
<1>2. ASSUME NEW i \in 1 .. Len(r), NEW j \in 1 .. Len(r), r[i] = r[j] PROVE i = j
  <2>1. i + 1 \in 1 .. Len(s) /\ j + 1 \in 1 .. Len(s) /\ s[i + 1] = s[j + 1]
    BY <1>1, <1>2
  <2>2. i + 1 = j + 1
    BY <2>1 DEF NoneTwice
  <2> QED BY <2>2
<1>3. ASSUME NEW i \in 1 .. Len(r), r[i] = Head(s) PROVE FALSE
  <2>1. 1 \in 1 .. Len(s) /\ i + 1 \in 1 .. Len(s) /\ s[i + 1] = s[1]
    BY <1>1, <1>3
  <2>2. i + 1 = 1
    BY <2>1 DEF NoneTwice
  <2> QED BY <2>2
<1>4. NoneTwice(r) /\ Head(s) \notin ToSet(r)
  BY <1>1, <1>2, <1>3, ToSetOfSeq DEF NoneTwice
<1> QED BY <1>4 DEF r

OnList(t, m) == t \in ToSet(threadsWaitingForPulse[m])

\* A step of thread t changes the lists of its own monitors only, and puts
\* nobody but itself on one.
LEMMA ListSteps ==
  ASSUME LockInv, NEW t \in Threads, StepOf(t), NEW m \in Monitors, NEW u \in Threads
  PROVE  OnList(u, m)' => OnList(u, m) \/ (u = t /\ Waits(t))
<1>0. HeapOK /\ FrameOK
  BY DEF LockInv, TypeInv
<1>1. CASE UNCHANGED threadsWaitingForPulse
  BY <1>1 DEF OnList
<1>2. CASE Waits(t)
  <2>1. PICK o \in Objects, ms \in WaitTimeouts : CallTryWait(t, o, ms)
    BY <1>2 DEF Waits
  <2>2. \A n \in Monitors : ToSet(<<t>> \o threadsWaitingForPulse[n])
                               = ToSet(threadsWaitingForPulse[n]) \cup {t}
    BY <1>0, LinkedSet DEF HeapOK
  <2>3. \/ threadsWaitingForPulse' = threadsWaitingForPulse
        \/ threadsWaitingForPulse' =
              [threadsWaitingForPulse EXCEPT ![monitor[o]] = <<t>> \o @]
    BY <2>1 DEF CallTryWait
  <2>4. \/ threadsWaitingForPulse'[m] = threadsWaitingForPulse[m]
        \/ threadsWaitingForPulse'[m] = <<t>> \o threadsWaitingForPulse[m]
    BY <1>0, <2>3 DEF HeapOK
  <2>5. u \in ToSet(<<t>> \o threadsWaitingForPulse[m])
           => u \in ToSet(threadsWaitingForPulse[m]) \/ u = t
    BY <2>2
  <2> QED BY <1>2, <2>4, <2>5 DEF OnList
<1>3. CASE RestoreCount(t)
  <2>1. u \in ToSet(Unlink(threadsWaitingForPulse[m], t)) => OnList(u, m)
    <3>1. CASE u # t
      BY <1>0, <3>1, UnlinkedOthers DEF OnList, HeapOK
    <3>2. CASE u = t
      BY <3>2 DEF Unlink, OnList
    <3> QED BY <3>1, <3>2
  <2> QED BY <1>0, <1>3, <2>1 DEF RestoreCount, OnList, HeapOK
<1>4. CASE Pulses(t)
  <2>1. PICK o \in Objects : Pulse(t, o) \/ PulseAll(t, o)
    BY <1>4 DEF Pulses
  <2>2. CASE Pulse(t, o)
    <3>1. monitor[o] \in Monitors /\ threadsWaitingForPulse[monitor[o]] # <<>>
      BY <1>0, <2>2 DEF Pulse, LockedByCurrentThread, HeapOK
    <3>2. u \in ToSet(Tail(threadsWaitingForPulse[monitor[o]])) => OnList(u, monitor[o])
      BY <1>0, <3>1, TailSet DEF OnList, HeapOK
    <3> QED BY <1>0, <2>2, <3>2 DEF Pulse, OnList, HeapOK
  <2>3. CASE PulseAll(t, o)
    BY <1>0, <2>3, EmptyList DEF PulseAll, OnList, HeapOK
  <2> QED BY <2>1, <2>2, <2>3
<1> QED BY <1>1, <1>2, <1>3, <1>4, PulseSteps

\* Whoever is on a list waits for the object that carries the list's monitor,
\* and has not been pulsed.
ListedWaits(t) ==
    \A m \in Monitors : OnList(t, m) =>
       savedCount[t] # 0 /\ monitor[obj[t]] = m /\ ~signalWaitingThread[t]

\* What Enter needs to be within the recursion bound.
EnterDepth(t) ==
    pc[t] \in EnterPCs /\ savedCount[t] = 0 => held[t][obj[t]] < MaxDepth

\* Where waits can end by a pulse only, a thread that locks its object again at
\* the end of Wait is on no list any more.
PulsedOff(t) ==
    WaitTimeouts = {"infinite"} /\ savedCount[t] # 0 /\ pc[t] \in EnterPCs \cup {"restore"} =>
       \A m \in Monitors : ~OnList(t, m)

PromiseInv ==
    /\ WaitInv
    /\ \A m \in Monitors : NoneTwice(threadsWaitingForPulse[m])
    /\ \A t \in Threads : ListedWaits(t) /\ EnterDepth(t) /\ PulsedOff(t)

\* How a thread comes to be entering, or to have entered for Wait.
LEMMA EnteringSteps ==
  ASSUME FrameOK, NEW t \in Threads, WaitLocals(t), StepOf(t),
         pc'[t] \in EnterPCs \cup {"restore"}
  PROVE  \/ /\ pc[t] \in EnterPCs \cup {"restore"} /\ obj'[t] = obj[t]
            /\ held'[t] = held[t] /\ savedCount'[t] = savedCount[t]
            /\ pc'[t] \in EnterPCs => pc[t] \in EnterPCs
         \/ savedCount'[t] # 0 /\ StopWaiting(t)
         \/ savedCount'[t] # 0 /\ pc[t] \in ExitPCs /\ timeout[t] = "zero"
         \/ savedCount'[t] = 0 /\ pc[t] = "idle" /\ held'[t][obj'[t]] < MaxDepth
<1>0. LocalsOK(t)
  BY DEF FrameOK
<1> USE DEF FrameOK, LocalsOK, WaitLocals, Goto, Leave, frame, EnterPCs, ExitPCs
<1>1. CASE EnterStep(t)
  <2>1. CASE InstallMonitor(t) \/ EnterRecursively(t) \/ ConfirmAcquire(t) \/ AcquireAsWaiter(t)
    BY <1>0, <2>1 DEF InstallMonitor, EnterRecursively, ConfirmAcquire, AcquireAsWaiter, EnterSucceeds
  <2>2. CASE LastWaiterAcquires(t)
    BY <1>0, <2>2 DEF LastWaiterAcquires, EnterSucceeds
  <2>3. CASE FindLocked(t) \/ AcknowledgeTimeout(t)
    BY <1>0, <2>3 DEF FindLocked, AcknowledgeTimeout, EnterFails
  <2>4. CASE AllocateMonitor(t) \/ LoseInstall(t) \/ ReadMonitor(t) \/ UndoAcquire(t)
             \/ VacateDyingMonitor(t)
    BY <1>0, <2>4 DEF AllocateMonitor, LoseInstall, ReadMonitor, UndoAcquire, VacateDyingMonitor
  <2>5. CASE AcquireFree(t) \/ JoinReadyList(t) \/ CheckStillInstalled(t) \/ FailAsWaiter(t)
             \/ Awake(t) \/ LastWaiterChecks(t)
    BY <1>0, <2>5 DEF AcquireFree, JoinReadyList, CheckStillInstalled, FailAsWaiter, Awake, LastWaiterChecks
  <2> QED BY <1>1, <2>1, <2>2, <2>3, <2>4, <2>5 DEF EnterStep
<1>2. CASE ExitStep(t)
  <2>1. CASE pc[t] \in ExitPCs /\ ExitReturns(t)
    BY <1>0, <2>1 DEF ExitReturns
  <2>2. CASE ChooseRelease(t) \/ Release(t) \/ Deflate(t) \/ KickWaiters(t) \/ AwaitAcknowledge(t)
    BY <1>0, <2>2 DEF ChooseRelease, Release, Deflate, KickWaiters, AwaitAcknowledge
  <2>3. CASE RecheckReadyList(t) \/ SignalNext(t) \/ ReturnToFreeList(t)
    BY <1>0, <2>1, <2>3 DEF RecheckReadyList, SignalNext, ReturnToFreeList
  <2> QED BY <1>2, <2>2, <2>3 DEF ExitStep
<1>3. CASE OutsideEvent(t)
  BY <1>0, <1>3 DEF OutsideEvent, AbortedInSleep, InterruptedInSleep, TimeOut
<1>4. CASE StopWaiting(t)
  BY <1>0, <1>4 DEF StopWaiting
<1>5. CASE RestoreCount(t)
  BY <1>0, <1>5 DEF RestoreCount
<1>6. CASE ManagedCall(t)
  <2>1. PICK o \in Objects :
           \/ \E ms \in EnterTimeouts : CallTryEnter(t, o, ms)
           \/ \E ms \in WaitTimeouts : CallTryWait(t, o, ms)
           \/ CallExit(t, o) \/ Pulse(t, o) \/ PulseAll(t, o)
    BY <1>6 DEF ManagedCall
  <2>2. CASE \E ms \in EnterTimeouts : CallTryEnter(t, o, ms)
    BY <1>0, <2>2 DEF CallTryEnter
  <2>3. CASE \E ms \in WaitTimeouts : CallTryWait(t, o, ms)
    BY <1>0, <2>3 DEF CallTryWait
  <2>4. CASE CallExit(t, o)
    BY <1>0, <2>4 DEF CallExit
  <2>5. CASE Pulse(t, o) \/ PulseAll(t, o)
    BY <1>0, <2>5 DEF Pulse, PulseAll
  <2> QED BY <2>1, <2>2, <2>3, <2>4, <2>5
<1> QED BY <1>1, <1>2, <1>3, <1>4, <1>5, <1>6 DEF StepOf

\* Outside Wait's call and return, a thread in Wait keeps its object and count.
LEMMA SavedSteps ==
  ASSUME WaitInv, Exceptions = {}, NEW t \in Threads, StepOf(t), NEW u \in Threads,
         ~(u = t /\ (Waits(t) \/ RestoreCount(t)))
  PROVE  savedCount'[u] = savedCount[u] /\ (savedCount[u] # 0 => obj'[u] = obj[u])
<1>0. FrameOK /\ TypeInv /\ WaitLocalsInv /\ WaitLocals(t)
  BY DEF WaitInv, LockInv, TypeInv, WaitLocalsInv
<1>1. CASE u # t
  BY <1>0, <1>1, OthersKeepLocals
<1>2. CASE u = t
  <2>1. savedCount'[t] # 0 => savedCount'[t] = savedCount[t] /\ obj'[t] = obj[t]
    BY <1>0, <1>2, StillWaiting
  <2>2. savedCount'[t] = 0 => savedCount[t] = 0
    BY <1>0, <1>2, WaitEnds
  <2> QED BY <1>2, <2>1, <2>2
<1> QED BY <1>1, <1>2

\* An object whose monitor has waiters is neither inflated nor deflated.
LEMMA CarrierStays ==
  ASSUME LockInv, NEW t \in Threads, StepOf(t), NEW o \in Objects, NEW m \in Monitors,
         monitor[o] = m, threadsWaitingForPulse[m] # <<>>
  PROVE  monitor'[o] = m
<1>0. HeapOK /\ LocalsOK(t) /\ OwnInv(t)
  BY DEF LockInv, TypeInv, FrameOK
<1>1. CASE UNCHANGED monitor
  BY <1>1
<1>2. CASE InstallMonitor(t)
  BY <1>0, <1>2, NullAssumption DEF InstallMonitor, HeapOK
<1>3. CASE Deflate(t)
  <2>1. monitor[obj[t]] = mon[t] /\ threadsWaitingForPulse[mon[t]] = <<>>
    BY <1>0, <1>3 DEF Deflate, OwnInv, OwnerInExit, OwningPCs
  <2>2. o # obj[t]
    BY <2>1
  <2> QED BY <1>0, <1>3, <2>2 DEF Deflate, HeapOK
<1> QED BY <1>1, <1>2, <1>3, InflationSteps

LEMMA HeadListed ==
  ASSUME NEW s \in Seq(Threads), s # <<>>
  PROVE  Head(s) \in ToSet(s)
<1>1. 1 \in 1 .. Len(s) /\ s[1] = Head(s)
  BY EmptySeq, LenProperties
<1> QED BY <1>1, ToSetOfSeq

LEMMA ListedWaitsStep ==
  ASSUME PromiseInv, Exceptions = {}, NEW t \in Threads, StepOf(t), NEW u \in Threads
  PROVE  ListedWaits(u)'
<1>0. /\ HeapOK /\ FrameOK /\ LockInv /\ WaitInv /\ ListedWaits(u)
      /\ \A m \in Monitors : NoneTwice(threadsWaitingForPulse[m])
  BY DEF PromiseInv, WaitInv, LockInv, TypeInv
<1> SUFFICES ASSUME NEW m \in Monitors, OnList(u, m)'
             PROVE  savedCount'[u] # 0 /\ monitor'[obj'[u]] = m /\ ~signalWaitingThread'[u]
  BY DEF ListedWaits
<1>1. CASE u = t /\ Waits(t)
  <2>1. PICK o \in Objects, ms \in WaitTimeouts : CallTryWait(t, o, ms)
    BY <1>1 DEF Waits
  <2>2. monitor[o] \in Monitors /\ ~OnList(t, m)
    BY <1>0, <2>1 DEF CallTryWait, LockedByCurrentThread, HeapOK, OnList
  <2>3. m = monitor[o]
    <3>1. m # monitor[o] => threadsWaitingForPulse'[m] = threadsWaitingForPulse[m]
      BY <1>0, <2>1 DEF CallTryWait, HeapOK
    <3> QED BY <1>1, <2>2, <3>1 DEF OnList
  <2>4. savedCount'[t] = recursiveLockingCount[monitor[o]] /\ obj'[t] = o /\ ~signalWaitingThread'[t]
        /\ monitor' = monitor
    BY <1>0, <2>1 DEF CallTryWait, HeapOK, FrameOK
  <2> QED BY <1>0, <1>1, <2>2, <2>3, <2>4 DEF HeapOK
<1>2. CASE ~(u = t /\ Waits(t))
  <2>1. OnList(u, m) /\ savedCount[u] # 0 /\ monitor[obj[u]] = m /\ ~signalWaitingThread[u]
        /\ threadsWaitingForPulse[m] # <<>> /\ obj[u] \in Objects
    <3>1. OnList(u, m)
      BY <1>0, <1>2, ListSteps
    <3>2. threadsWaitingForPulse[m] # <<>>
      BY <3>1, EmptyList DEF OnList
    <3>3. pc[u] # "idle" /\ LocalsOK(u)
      BY <1>0, <3>1 DEF ListedWaits, LockInv, OwnInv, WaitFrame, FrameOK
    <3> QED BY <1>0, <3>1, <3>2, <3>3 DEF ListedWaits, LocalsOK
  <2>2. ~(u = t /\ RestoreCount(t))
    <3> SUFFICES ASSUME u = t, RestoreCount(t) PROVE FALSE
      OBVIOUS
    <3>1. monitor[obj[t]] = m
      BY <2>1
    <3>2. threadsWaitingForPulse'[m] = Unlink(threadsWaitingForPulse[m], t)
      BY <1>0, <3>1 DEF RestoreCount, HeapOK
    <3>3. t \notin ToSet(Unlink(threadsWaitingForPulse[m], t))
      BY <1>0, UnlinkedGone DEF HeapOK
    <3> QED BY <3>2, <3>3 DEF OnList
  <2>3. savedCount'[u] = savedCount[u] /\ obj'[u] = obj[u]
    BY <1>0, <1>2, <2>1, <2>2, SavedSteps
  <2>4. monitor'[obj[u]] = m
    BY <1>0, <2>1, CarrierStays
  <2>5. ~signalWaitingThread'[u]
    <3>1. CASE UNCHANGED signalWaitingThread
      BY <2>1, <3>1
    <3>2. CASE StopWaiting(t) \/ RestoreCount(t)
      BY <1>0, <2>1, <3>2 DEF StopWaiting, RestoreCount, HeapOK
    <3>3. CASE Waits(t)
      BY <1>0, <2>1, <3>3 DEF Waits, CallTryWait, HeapOK
    <3>4. CASE Pulses(t)
      <4>1. PICK o \in Objects : Pulse(t, o) \/ PulseAll(t, o)
        BY <3>4 DEF Pulses
      <4>2. monitor[o] \in Monitors /\ threadsWaitingForPulse[monitor[o]] # <<>>
        BY <1>0, <4>1 DEF Pulse, PulseAll, LockedByCurrentThread, HeapOK
      <4>3. CASE m # monitor[o]
        <5>1. ~OnList(u, monitor[o])
          BY <1>0, <2>1, <4>2, <4>3 DEF ListedWaits
        <5>2. u # Head(threadsWaitingForPulse[monitor[o]])
          BY <1>0, <4>2, <5>1, HeadListed DEF OnList, HeapOK
        <5> QED BY <1>0, <2>1, <4>1, <5>1, <5>2 DEF Pulse, PulseAll, OnList, HeapOK
      <4>4. CASE m = monitor[o]
        <5>1. CASE Pulse(t, o)
          <6>1. threadsWaitingForPulse'[m] = Tail(threadsWaitingForPulse[m])
            BY <1>0, <4>4, <5>1 DEF Pulse, HeapOK
          <6>2. u # Head(threadsWaitingForPulse[m])
            BY <1>0, <2>1, <6>1, TailOnce DEF OnList, HeapOK
          <6> QED BY <1>0, <2>1, <4>4, <5>1, <6>2 DEF Pulse, HeapOK
        <5>2. CASE PulseAll(t, o)
          BY <1>0, <4>4, <5>2, EmptyList DEF PulseAll, OnList, HeapOK
        <5> QED BY <4>1, <5>1, <5>2
      <4> QED BY <4>3, <4>4
    <3> QED BY <3>1, <3>2, <3>3, <3>4, PulseSteps
  <2> QED BY <2>1, <2>3, <2>4, <2>5
<1> QED BY <1>1, <1>2

LEMMA NoneTwiceStep ==
  ASSUME PromiseInv, NEW t \in Threads, StepOf(t), NEW m \in Monitors
  PROVE  NoneTwice(threadsWaitingForPulse'[m])
<1>0. HeapOK /\ \A n \in Monitors : NoneTwice(threadsWaitingForPulse[n])
  BY DEF PromiseInv, WaitInv, LockInv, TypeInv
<1>1. CASE UNCHANGED threadsWaitingForPulse
  BY <1>0, <1>1
<1>2. CASE Waits(t)
  <2>1. PICK o \in Objects, ms \in WaitTimeouts : CallTryWait(t, o, ms)
    BY <1>2 DEF Waits
  <2>2. NoneTwice(<<t>> \o threadsWaitingForPulse[m])
    BY <1>0, <2>1, LinkedOnce DEF CallTryWait, HeapOK
  <2>3. \/ threadsWaitingForPulse'[m] = threadsWaitingForPulse[m]
        \/ threadsWaitingForPulse'[m] = <<t>> \o threadsWaitingForPulse[m]
    BY <1>0, <2>1 DEF CallTryWait, HeapOK
  <2> QED BY <1>0, <2>2, <2>3
<1>3. CASE RestoreCount(t)
  <2>1. NoneTwice(Unlink(threadsWaitingForPulse[m], t))
    BY <1>0, UnlinkedGone DEF HeapOK
  <2>2. \/ threadsWaitingForPulse'[m] = threadsWaitingForPulse[m]
        \/ threadsWaitingForPulse'[m] = Unlink(threadsWaitingForPulse[m], t)
    BY <1>0, <1>3 DEF RestoreCount, HeapOK
  <2> QED BY <1>0, <2>1, <2>2
<1>4. CASE Pulses(t)
  <2>1. PICK o \in Objects : Pulse(t, o) \/ PulseAll(t, o)
    BY <1>4 DEF Pulses
  <2>2. monitor[o] \in Monitors /\ threadsWaitingForPulse[monitor[o]] # <<>>
    BY <1>0, <2>1 DEF Pulse, PulseAll, LockedByCurrentThread, HeapOK
  <2>3. NoneTwice(Tail(threadsWaitingForPulse[monitor[o]]))
    BY <1>0, <2>2, TailOnce DEF HeapOK
  <2>4. NoneTwice(<<>>)
    BY EmptySeq DEF NoneTwice
  <2>5. \/ threadsWaitingForPulse'[m] = threadsWaitingForPulse[m]
        \/ threadsWaitingForPulse'[m] = Tail(threadsWaitingForPulse[monitor[o]])
        \/ threadsWaitingForPulse'[m] = <<>>
    BY <1>0, <2>1 DEF Pulse, PulseAll, HeapOK
  <2> QED BY <1>0, <2>3, <2>4, <2>5
<1> QED BY <1>1, <1>2, <1>3, <1>4, PulseSteps

LEMMA EnterDepthStep ==
  ASSUME PromiseInv, NEW t \in Threads, StepOf(t), NEW u \in Threads
  PROVE  EnterDepth(u)'
<1>0. FrameOK /\ WaitLocals(t) /\ EnterDepth(u)
  BY DEF PromiseInv, WaitInv, LockInv, TypeInv
<1>1. CASE u # t
  BY <1>0, <1>1, OthersKeepLocals DEF EnterDepth
<1>2. CASE u = t
  BY <1>0, <1>2, EnteringSteps DEF EnterDepth
<1> QED BY <1>1, <1>2

LEMMA PulsedOffStep ==
  ASSUME PromiseInv, Exceptions = {}, NEW t \in Threads, StepOf(t), NEW u \in Threads
  PROVE  PulsedOff(u)'
<1>0. FrameOK /\ LockInv /\ WaitInv /\ WaitLocals(t) /\ PulsedOff(u) /\ ListedWaits(u)
  BY DEF PromiseInv, WaitInv, LockInv, TypeInv
<1> SUFFICES ASSUME WaitTimeouts = {"infinite"}, savedCount'[u] # 0,
                    pc'[u] \in EnterPCs \cup {"restore"}, NEW m \in Monitors, OnList(u, m)'
             PROVE  FALSE
  BY DEF PulsedOff
<1>1. ~(u = t /\ Waits(t))
  BY <1>0 DEF Waits, CallTryWait, Goto, FrameOK, EnterPCs
<1>2. OnList(u, m)
  BY <1>0, <1>1, ListSteps
<1>3. savedCount[u] # 0 /\ ~signalWaitingThread[u]
  BY <1>0, <1>2 DEF ListedWaits
<1>4. pc[u] \notin EnterPCs \cup {"restore"}
  BY <1>0, <1>2, <1>3 DEF PulsedOff
<1>5. u = t
  BY <1>0, <1>4, OthersKeepLocals
<1>6. StopWaiting(t) \/ (pc[t] \in ExitPCs /\ timeout[t] = "zero")
  BY <1>0, <1>4, <1>5, EnteringSteps
<1>7. ~StopWaiting(t)
  BY <1>0, <1>3, <1>5 DEF StopWaiting, WaitLocals
<1>8. ~(pc[t] \in ExitPCs /\ timeout[t] = "zero")
  BY <1>0, <1>3, <1>5 DEF WaitLocals, ExitPCs, EnterPCs
<1> QED BY <1>6, <1>7, <1>8

LEMMA PromiseInvInit == Init => PromiseInv
<1> SUFFICES ASSUME Init PROVE PromiseInv
  OBVIOUS
<1>1. WaitInv
  BY WaitInvInit
<1>2. NoneTwice(<<>>)
  BY EmptySeq DEF NoneTwice
<1>3. \A t \in Threads, m \in Monitors : ~OnList(t, m)
  BY EmptyList DEF Init, OnList
<1> QED BY <1>1, <1>2, <1>3 DEF Init, PromiseInv, ListedWaits, EnterDepth, PulsedOff, EnterPCs

LEMMA PromiseInvNext ==
  ASSUME NoStaleTimeout, Exceptions = {}
  PROVE  PromiseInv /\ [Next]_vars => PromiseInv'
<1> SUFFICES ASSUME PromiseInv, [Next]_vars PROVE PromiseInv'
  OBVIOUS
<1>1. WaitInv'
  <2>1. NoAbort
    BY DEF NoAbort
  <2> QED BY <2>1, WaitInvNext DEF PromiseInv
<1>2. CASE Next
  <2>1. PICK t \in Threads : StepOf(t)
    BY <1>2 DEF Next, StepOf
  <2>2. \A m \in Monitors : NoneTwice(threadsWaitingForPulse'[m])
    BY <2>1, NoneTwiceStep
  <2>3. \A u \in Threads : ListedWaits(u)' /\ EnterDepth(u)' /\ PulsedOff(u)'
    BY <2>1, ListedWaitsStep, EnterDepthStep, PulsedOffStep
  <2> QED BY <1>1, <2>2, <2>3 DEF PromiseInv
<1>3. CASE UNCHANGED vars
  BY <1>1, <1>3 DEF vars, lock, pulse, frame, PromiseInv, ListedWaits, EnterDepth, PulsedOff, OnList
<1> QED BY <1>2, <1>3

LEMMA PromiseInvCorrect ==
  ASSUME NoStaleTimeout, Exceptions = {}
  PROVE  Spec => []PromiseInv
<1>1. PromiseInv /\ [Next]_vars => PromiseInv'
  BY PromiseInvNext
<1> QED BY <1>1, PromiseInvInit, PTL DEF Spec

----------------------------------------------------------------------------
(* Monitor implements ManagedMonitor *)

\* The refinement mapping of Monitor's Promise.
WaitsOn == [t \in Threads |-> IF savedCount[t] = 0 THEN NoObject ELSE obj[t]]
WaitList == [o \in Objects |-> IF monitor[o] = NoMonitor THEN <<>>
                               ELSE threadsWaitingForPulse[monitor[o]]]

\* The caller's Enter is over.
EnterReturns(t) ==
    /\ pc[t] \in EnterPCs /\ savedCount[t] = 0
    /\ held' = [held EXCEPT ![t][obj[t]] = @ + 1]
Exits(t) == \E o \in Objects : CallExit(t, o)

\* How a thread comes to hold an object more or less often.
LEMMA HeldSteps ==
  ASSUME NEW t \in Threads, StepOf(t)
  PROVE  \/ UNCHANGED held \/ EnterReturns(t) \/ Exits(t)
         \/ Waits(t) \/ RestoreCount(t)
<1> USE DEF frame, EnterReturns, EnterPCs
<1>1. CASE EnterStep(t)
  <2>1. CASE InstallMonitor(t) \/ EnterRecursively(t) \/ ConfirmAcquire(t) \/ AcquireAsWaiter(t)
    BY <2>1 DEF InstallMonitor, EnterRecursively, ConfirmAcquire, AcquireAsWaiter, EnterSucceeds
  <2>2. CASE LastWaiterAcquires(t)
    BY <2>2 DEF LastWaiterAcquires, EnterSucceeds
  <2>3. CASE FindLocked(t) \/ AcknowledgeTimeout(t)
    BY <2>3 DEF FindLocked, AcknowledgeTimeout, EnterFails
  <2>4. CASE AllocateMonitor(t) \/ LoseInstall(t) \/ ReadMonitor(t) \/ UndoAcquire(t)
             \/ VacateDyingMonitor(t)
    BY <2>4 DEF AllocateMonitor, LoseInstall, ReadMonitor, UndoAcquire, VacateDyingMonitor
  <2>5. CASE AcquireFree(t) \/ JoinReadyList(t) \/ CheckStillInstalled(t) \/ FailAsWaiter(t)
             \/ Awake(t) \/ LastWaiterChecks(t)
    BY <2>5 DEF AcquireFree, JoinReadyList, CheckStillInstalled, FailAsWaiter, Awake, LastWaiterChecks
  <2> QED BY <1>1, <2>1, <2>2, <2>3, <2>4, <2>5 DEF EnterStep
<1>2. CASE ExitStep(t)
  <2>1. CASE ExitReturns(t)
    BY <2>1 DEF ExitReturns
  <2>2. CASE ChooseRelease(t) \/ Release(t) \/ Deflate(t) \/ KickWaiters(t) \/ AwaitAcknowledge(t)
    BY <2>2 DEF ChooseRelease, Release, Deflate, KickWaiters, AwaitAcknowledge
  <2>3. CASE RecheckReadyList(t) \/ SignalNext(t) \/ ReturnToFreeList(t)
    BY <2>1, <2>3 DEF RecheckReadyList, SignalNext, ReturnToFreeList
  <2> QED BY <1>2, <2>2, <2>3 DEF ExitStep
<1>3. CASE OutsideEvent(t) \/ StopWaiting(t)
  BY <1>3 DEF OutsideEvent, AbortedInSleep, InterruptedInSleep, TimeOut, StopWaiting
<1>4. CASE ManagedCall(t)
  <2>1. PICK o \in Objects :
           \/ \E ms \in EnterTimeouts : CallTryEnter(t, o, ms)
           \/ \E ms \in WaitTimeouts : CallTryWait(t, o, ms)
           \/ CallExit(t, o) \/ Pulse(t, o) \/ PulseAll(t, o)
    BY <1>4 DEF ManagedCall
  <2>2. CASE Pulse(t, o) \/ PulseAll(t, o) \/ \E ms \in EnterTimeouts : CallTryEnter(t, o, ms)
    BY <2>2 DEF Pulse, PulseAll, CallTryEnter
  <2> QED BY <2>1, <2>2 DEF Exits, Waits
<1> QED BY <1>1, <1>2, <1>3, <1>4 DEF StepOf

\* Inflating and deflating an object does not show: its list is empty then.
LEMMA WaitListSteps ==
  ASSUME LockInv, NEW t \in Threads, StepOf(t), UNCHANGED threadsWaitingForPulse
  PROVE  WaitList' = WaitList
<1>0. HeapOK /\ LocalsOK(t) /\ OwnInv(t)
  BY DEF LockInv, TypeInv, FrameOK
<1>1. CASE UNCHANGED monitor
  BY <1>1 DEF WaitList
<1>2. CASE InstallMonitor(t)
  <2>1. threadsWaitingForPulse[mon[t]] = <<>> /\ monitor[obj[t]] = NoMonitor
        /\ monitor' = [monitor EXCEPT ![obj[t]] = mon[t]]
    BY <1>0, <1>2 DEF InstallMonitor, OwnInv, PrivateMonitor, PrivatePCs
  <2> QED BY <1>0, <2>1 DEF WaitList, HeapOK
<1>3. CASE Deflate(t)
  <2>1. threadsWaitingForPulse[mon[t]] = <<>> /\ monitor[obj[t]] = mon[t]
        /\ monitor' = [monitor EXCEPT ![obj[t]] = NoMonitor]
    BY <1>0, <1>3 DEF Deflate, OwnInv, OwnerInExit, OwningPCs
  <2> QED BY <1>0, <2>1 DEF WaitList, HeapOK
<1> QED BY <1>1, <1>2, <1>3, InflationSteps

\* A change to the list of one monitor shows on the object that carries it.
LEMMA WaitListOf ==
  ASSUME LockInv, UNCHANGED monitor, NEW o \in Objects, monitor[o] # NoMonitor, NEW list,
         threadsWaitingForPulse' = [threadsWaitingForPulse EXCEPT ![monitor[o]] = list]
  PROVE  /\ WaitList[o] = threadsWaitingForPulse[monitor[o]]
         /\ WaitList' = [WaitList EXCEPT ![o] = list]
<1>1. HeapOK /\ OneObject
  BY DEF LockInv, TypeInv
<1>2. monitor[o] \in Monitors
  BY <1>1 DEF HeapOK
<1>3. ASSUME NEW p \in Objects
      PROVE  (IF monitor'[p] = NoMonitor THEN <<>> ELSE threadsWaitingForPulse'[monitor'[p]])
                = [WaitList EXCEPT ![o] = list][p]
  <2>1. CASE p = o
    BY <1>1, <1>2, <2>1 DEF WaitList, HeapOK
  <2>2. CASE p # o
    <3>1. monitor[p] # monitor[o]
      BY <2>2 , <1>1 DEF OneObject
    <3> QED BY <1>1, <2>2, <3>1 DEF WaitList, HeapOK
  <2> QED BY <2>1, <2>2
<1>4. WaitList' = [WaitList EXCEPT ![o] = list]
  BY <1>3 DEF WaitList
<1> QED BY <1>4 DEF WaitList

\* The lock is free for the others where a thread holds it.
LEMMA HeldAlone ==
  ASSUME LockInv, NEW t \in Threads, NEW o \in Objects,
         monitor[o] # NoMonitor, owningThreadId[monitor[o]] = t, NEW u \in Threads \ {t}
  PROVE  held[u][o] = 0
<1>1. HeldBy(u) /\ held[u][o] \in Nat
  BY DEF LockInv, OwnInv, TypeInv, FrameOK
<1> QED BY <1>1 DEF HeldBy

\* Both modules cut a thread out of a list in the same way.
LEMMA SameLists ==
  ASSUME NEW list, NEW t
  PROVE  /\ Promise!ToSet(list) = ToSet(list)
         /\ Promise!Without(list, t) = Unlink(list, t)
<1>1. Promise!ToSet(list) = ToSet(list)
  BY DEF ToSet, Promise!ToSet
<1>2. \A i : Promise!RemoveAt(list, i) = RemoveAt(list, i)
  BY DEF RemoveAt, Promise!RemoveAt
<1> QED BY <1>1, <1>2 DEF Promise!Without, Unlink

LEMMA WaitsMapped ==
  ASSUME PromiseInv, NEW t \in Threads, Waits(t)
  PROVE  Promise!Next
<1>0. /\ HeapOK /\ FrameOK /\ LockInv
  BY DEF PromiseInv, WaitInv, LockInv, TypeInv
<1>1. PICK o \in Objects, ms \in WaitTimeouts : CallTryWait(t, o, ms)
  BY DEF Waits
<1>2. held[t][o] > 0 /\ monitor[o] # NoMonitor /\ recursiveLockingCount[monitor[o]] = held[t][o]
  BY <1>0, <1>1, LockedIsHeld DEF CallTryWait, LockedByCurrentThread
<1>3. /\ held' = [held EXCEPT ![t][o] = 0]
      /\ savedCount' = [savedCount EXCEPT ![t] = held[t][o]] /\ held[t][o] # 0
      /\ obj' = [obj EXCEPT ![t] = o]
  BY <1>1, <1>2 DEF CallTryWait
<1>4. WaitsOn' = [WaitsOn EXCEPT ![t] = o]
  <2>1. savedCount'[t] # 0 /\ obj'[t] = o
    BY <1>0, <1>3 DEF FrameOK
  <2>2. \A u \in Threads \ {t} : savedCount'[u] = savedCount[u] /\ obj'[u] = obj[u]
    BY <1>0, <1>3 DEF FrameOK
  <2> QED BY <2>1, <2>2 DEF WaitsOn
<1>5. CASE ms = "zero"
  <2>1. WaitList' = WaitList
    BY <1>1, <1>5 DEF CallTryWait, WaitList
  <2>2. WaitTimeouts # {"infinite"}
    BY <1>5
  <2> QED BY <1>2, <1>3, <1>4, <2>1, <2>2
          DEF Promise!Next, Promise!Wait, WaitsOn, WaitList
<1>6. CASE ms # "zero"
  <2> DEFINE list == <<t>> \o threadsWaitingForPulse[monitor[o]]
  <2>1. threadsWaitingForPulse' = [threadsWaitingForPulse EXCEPT ![monitor[o]] = list]
        /\ monitor' = monitor
    BY <1>1, <1>6 DEF CallTryWait
  <2>2. WaitList[o] = threadsWaitingForPulse[monitor[o]] /\ WaitList' = [WaitList EXCEPT ![o] = list]
    BY <1>0, <1>2, <2>1, WaitListOf
  <2>3. WaitList' = [WaitList EXCEPT ![o] = <<t>> \o @]
    BY <2>2
  <2> QED BY <1>2, <1>3, <1>4, <2>3 DEF Promise!Next, Promise!Wait, WaitsOn, WaitList
<1> QED BY <1>5, <1>6

LEMMA RestoreMapped ==
  ASSUME PromiseInv, Exceptions = {}, NEW t \in Threads, RestoreCount(t)
  PROVE  Promise!Next
<1>0. /\ HeapOK /\ FrameOK /\ LockInv /\ LocalsOK(t) /\ OwnerInWait(t) /\ WaitFrame(t) /\ PulsedOff(t)
  BY DEF PromiseInv, WaitInv, LockInv, TypeInv, FrameOK, OwnInv
<1>1. PICK o \in Objects : o = obj[t]
  BY <1>0 DEF RestoreCount, LocalsOK
<1>2. /\ pc[t] = "restore" /\ savedCount[t] # 0 /\ monitor[o] \in Monitors
      /\ owningThreadId[monitor[o]] = t
  BY <1>0, <1>1 DEF RestoreCount, LocalsOK, OwnerInWait, HeapOK
<1>3. \A u \in Threads : held[u][o] = 0
  BY <1>0, <1>1, <1>2, HeldAlone, NullAssumption DEF WaitFrame
<1>4. WaitsOn[t] = o
  BY <1>1, <1>2 DEF WaitsOn
<1>5. /\ held' = [held EXCEPT ![t][o] = savedCount[t]]
      /\ savedCount' = [savedCount EXCEPT ![t] = 0]
  BY <1>1 DEF RestoreCount, Leave
<1>6. WaitsOn' = [WaitsOn EXCEPT ![t] = NoObject]
  BY <1>0 DEF RestoreCount, Leave, WaitsOn, FrameOK
<1> DEFINE list == Unlink(threadsWaitingForPulse[monitor[o]], t)
<1>7. WaitList[o] = threadsWaitingForPulse[monitor[o]] /\ WaitList' = [WaitList EXCEPT ![o] = list]
  <2>1. threadsWaitingForPulse' = [threadsWaitingForPulse EXCEPT ![monitor[o]] = list]
        /\ monitor' = monitor
    BY <1>1 DEF RestoreCount
  <2> QED BY <1>0, <1>2, <2>1, WaitListOf, NullAssumption
<1>8. list = Promise!Without(WaitList[o], t)
  BY <1>7, SameLists
<1>9. (WaitTimeouts # {"infinite"} \/ Exceptions # {}) \/ t \notin Promise!ToSet(WaitList[o])
  BY <1>0, <1>2, <1>7, SameLists DEF PulsedOff, OnList
<1> HIDE DEF list
<1>10. WaitList' = [WaitList EXCEPT ![o] = Promise!Without(@, t)]
  BY <1>7, <1>8
<1>11. Promise!Return(t)
  BY <1>1, <1>3, <1>4, <1>5, <1>6, <1>9, <1>10, NullAssumption
     DEF Promise!Return, Promise!Unlocked, WaitsOn, WaitList
<1> QED BY <1>11 DEF Promise!Next

LEMMA PulsesMapped ==
  ASSUME PromiseInv, NEW t \in Threads, Pulses(t)
  PROVE  Promise!Next
<1>0. /\ HeapOK /\ FrameOK /\ LockInv
  BY DEF PromiseInv, WaitInv, LockInv, TypeInv
<1>1. PICK o \in Objects : Pulse(t, o) \/ PulseAll(t, o)
  BY DEF Pulses
<1>2. held[t][o] > 0 /\ monitor[o] # NoMonitor
  BY <1>0, <1>1, LockedIsHeld DEF Pulse, PulseAll, LockedByCurrentThread
<1>3. PICK list \in {Tail(threadsWaitingForPulse[monitor[o]]), <<>>} :
         threadsWaitingForPulse' = [threadsWaitingForPulse EXCEPT ![monitor[o]] = list]
  BY <1>1 DEF Pulse, PulseAll
<1>4. threadsWaitingForPulse[monitor[o]] # <<>> /\ UNCHANGED <<monitor, held, savedCount, obj>>
  BY <1>1 DEF Pulse, PulseAll, lock, frame
<1>5. WaitList[o] = threadsWaitingForPulse[monitor[o]] /\ WaitList' = [WaitList EXCEPT ![o] = list]
  BY <1>0, <1>2, <1>3, <1>4, WaitListOf
<1>6. WaitsOn' = WaitsOn
  BY <1>4 DEF WaitsOn
<1>7. Promise!Pulse(t, o)
  BY <1>2, <1>3, <1>4, <1>5, <1>6 DEF Promise!Pulse, WaitsOn, WaitList
<1> QED BY <1>7 DEF Promise!Next

LEMMA StepMapped ==
  ASSUME PromiseInv, LockInv', Exceptions = {}, NEW t \in Threads, StepOf(t)
  PROVE  [Promise!Next]_(Promise!vars)
<1>0. /\ HeapOK /\ FrameOK /\ LockInv /\ WaitInv /\ HeapOK' /\ FrameOK' /\ LocalsOK(t)
      /\ EnterDepth(t)
  BY DEF PromiseInv, WaitInv, LockInv, TypeInv, FrameOK
<1>1. CASE Waits(t) \/ RestoreCount(t) \/ Pulses(t)
  BY <1>1, WaitsMapped, RestoreMapped, PulsesMapped
<1>2. CASE ~(Waits(t) \/ RestoreCount(t) \/ Pulses(t))
  <2>1. WaitList' = WaitList
    BY <1>0, <1>2, PulseSteps, WaitListSteps
  <2>2. \A u \in Threads : savedCount'[u] = savedCount[u] /\ (savedCount[u] # 0 => obj'[u] = obj[u])
    BY <1>0, <1>2, SavedSteps
  <2>3. savedCount' = savedCount
    BY <1>0, <2>2 DEF FrameOK
  <2>4. WaitsOn' = WaitsOn
    BY <2>2 DEF WaitsOn
  <2>5. CASE UNCHANGED held
    BY <2>1, <2>3, <2>4, <2>5 DEF Promise!vars, WaitsOn, WaitList
  <2>6. CASE EnterReturns(t)
    <3>1. PICK o \in Objects : o = obj[t]
      BY <1>0, <2>6 DEF EnterReturns, LocalsOK, EnterPCs
    <3>2. WaitsOn[t] = NoObject /\ held[t][o] < MaxDepth
      BY <1>0, <2>6, <3>1 DEF EnterReturns, EnterDepth, WaitsOn
    <3>3. held' = [held EXCEPT ![t][o] = @ + 1]
      BY <2>6, <3>1 DEF EnterReturns
    <3>4. held'[t][o] > 0
      BY <1>0, <3>3 DEF FrameOK
    <3>5. monitor'[o] # NoMonitor /\ owningThreadId'[monitor'[o]] = t
      BY <3>4 DEF LockInv, OwnInv, HeldBy
    <3>6. ASSUME NEW u \in Threads \ {t} PROVE held[u][o] = 0
      <4>1. HeldBy(u)' /\ held'[u][o] \in Nat
        BY <1>0 DEF LockInv, OwnInv, FrameOK
      <4>2. held'[u][o] = held[u][o]
        BY <1>0, <3>3 DEF FrameOK
      <4> QED BY <3>5, <4>1, <4>2 DEF HeldBy
    <3>7. Promise!Enter(t, o)
      BY <2>1, <2>3, <2>4, <3>2, <3>3, <3>6 DEF Promise!Enter, WaitsOn, WaitList
    <3> QED BY <3>7 DEF Promise!Next
  <2>7. CASE Exits(t)
    <3>1. PICK o \in Objects : CallExit(t, o)
      BY <2>7 DEF Exits
    <3>2. held[t][o] \in Nat \ {0}
      BY <1>0, <3>1, LockedIsHeld DEF CallExit
    <3>3. held[t][o] > 0 /\ held' = [held EXCEPT ![t][o] = @ - 1]
      <4>1. held' = [held EXCEPT ![t][o] = IF @ = 0 THEN 0 ELSE @ - 1]
        BY <3>1 DEF CallExit
      <4>2. held[t][o] > 0 /\ (IF held[t][o] = 0 THEN 0 ELSE held[t][o] - 1) = held[t][o] - 1
        BY <3>2
      <4> QED BY <4>1, <4>2
    <3>4. Promise!Exit(t, o)
      BY <2>1, <2>3, <2>4, <3>3 DEF Promise!Exit, WaitsOn, WaitList
    <3> QED BY <3>4 DEF Promise!Next
  <2> QED BY <1>2, <2>5, <2>6, <2>7, HeldSteps
<1> QED BY <1>1, <1>2

\* The lock that callers see, for any numbers of threads, objects and monitors:
\* whatever inflation, deflation, recycling and wakeups go on underneath, every
\* step is an Enter, Exit, Wait, Pulse or return from Wait of a plain recursive
\* lock with a wait list, or nothing a caller can notice.
THEOREM ImplementsPromiseCorrect ==
  ASSUME NoStaleTimeout, Exceptions = {}
  PROVE  Spec => ImplementsPromise
<1>1. Init => Promise!Init
  <2> SUFFICES ASSUME Init PROVE Promise!Init
    OBVIOUS
  <2>1. /\ held = [t \in Threads |-> [o \in Objects |-> 0]]
        /\ savedCount = [t \in Threads |-> 0]
    BY DEF Init
  <2>2. WaitsOn = [t \in Threads |-> NoObject] /\ WaitList = [o \in Objects |-> <<>>]
    BY DEF Init, WaitsOn, WaitList
  <2> QED BY <2>1, <2>2 DEF Promise!Init, WaitsOn, WaitList
<1>2. PromiseInv /\ PromiseInv' /\ [Next]_vars => [Promise!Next]_(Promise!vars)
  <2> SUFFICES ASSUME PromiseInv, PromiseInv', [Next]_vars
               PROVE  [Promise!Next]_(Promise!vars)
    OBVIOUS
  <2>1. CASE Next
    <3>1. PICK t \in Threads : StepOf(t)
      BY <2>1 DEF Next, StepOf
    <3>2. LockInv'
      BY DEF PromiseInv, WaitInv
    <3> QED BY <3>1, <3>2, StepMapped
  <2>2. CASE UNCHANGED vars
    BY <2>2 DEF vars, lock, pulse, frame, Promise!vars
  <2> QED BY <2>1, <2>2
<1> QED BY <1>1, <1>2, PromiseInvCorrect, PTL DEF Spec, ImplementsPromise, Promise!Spec

============================================================================
