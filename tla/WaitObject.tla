----------------------------- MODULE WaitObject -----------------------------
(***************************************************************************)
(* What os::Semaphore, os::Event and os::Mutex of the il2cpp runtime are   *)
(* made of on POSIX (libil2cpp/os/Generic/WaitObject.cpp): a count behind  *)
(* a lock, and a list of waiting threads that are woken through a          *)
(* semaphore of their own, capped at one.  The same semaphore wakes a      *)
(* thread for a user APC, which may throw out of an interruptible wait.    *)
(*                                                                         *)
(* One object of any type, the threads that wait on it, and anyone who     *)
(* signals it or queues APCs.  The accesses of one critical section of     *)
(* m_Mutex are one step, except where other threads see them in between.   *)
(***************************************************************************)
EXTENDS Integers, SequencesExt

CONSTANTS
    Threads,        \* threads that wait on the object
    NoThread,       \* no owner
    Types,          \* the types of objects considered
    Abandonable,    \* the types that waits may give up: a timeout, an exception
    MaximumValue,   \* m_MaximumValue of the semaphore
    MaxRecursion,   \* bound on m_RecursionCount
    MaxAPCs         \* bound on the length of m_PendingAPCs

AllTypes == {"semaphore", "autoReset", "manualReset", "mutex"}

ASSUME TypesAssumption == Types \subseteq AllTypes /\ Abandonable \subseteq AllTypes
ASSUME NoThreadAssumption == NoThread \notin Threads
ASSUME BoundsAssumption == /\ MaximumValue \in Nat \ {0}
                           /\ MaxRecursion \in Nat \ {0} /\ MaxAPCs \in Nat

VARIABLES
    type,           \* m_Type, fixed by the constructor
    count,          \* m_Count
    lockedBy,       \* who is inside m_Mutex
    waiting,        \* m_WaitingThreads
    owner,          \* MutexImpl::m_OwningThread
    recursion,      \* MutexImpl::m_RecursionCount
    pc, timeout, interruptible,     \* a thread's call of Wait
    token,          \* ThreadImpl::m_ConditionSemaphore
    waitObject,     \* is ThreadImpl::m_CurrentWaitObject this object?
    pendingAPCs,    \* the number of requests in ThreadImpl::m_PendingAPCs
    queuing         \* how far a call of QueueUserAPC for the thread is

object == <<type, count, waiting>>
mutex  == <<owner, recursion>>
call   == <<timeout, interruptible>>
apc    == <<waitObject, pendingAPCs, queuing>>
vars   == <<object, mutex, lockedBy, pc, call, token, apc>>

\* Where thread t is in Wait, "own" being the rest of TryLock.
Inside  == {"apcFirst", "loop", "apcWoken", "untie", "apcLast", "apcTimedOut",
            "take", "throw"}
Outside == {"idle", "apcUpFront", "lock", "asleep", "relock", "relockTimedOut", "own"}

Goto(t, label) == pc' = [pc EXCEPT ![t] = label]
\* On from a step of Wait that leaves the arguments alone; returning forgets them.
Continue(t, label) ==
    /\ Goto(t, label)
    /\ timeout' = [timeout EXCEPT ![t] = IF label = "idle" THEN "zero" ELSE @]
    /\ interruptible' = [interruptible EXCEPT ![t] = @ /\ label # "idle"]
Acquire(t) == lockedBy = NoThread /\ lockedBy' = t
Release == lockedBy' = NoThread

CanGiveUp == type \in Abandonable

\* Mutant: the last thread in line stays where it is.
PopTooMuch(list, t) ==
    IF t \in ToSet(list) THEN SubSeq(list, 1, Len(list) - 1) ELSE list
\* PopThreadFromWaitersList: dynamic_array::erase_swap_back of the thread.
Pop(list, t) ==
    IF t \notin ToSet(list) THEN list
    ELSE LET i == CHOOSE i \in DOMAIN list : list[i] = t
         IN  [j \in 1 .. Len(list) - 1 |-> IF j = i THEN Last(list) ELSE list[j]]

\* Mutant: WakeupThreads breaks before it releases.
WakeupNobody(i) == UNCHANGED token
\* WakeupThreads: the first thread in the list, the last, or all of them.  A
\* thread that has its token already gets no second one.
Wakeup(i) ==
    token' = IF waiting = <<>> THEN token ELSE [token EXCEPT ![waiting[i]] = 1]
WakeupOneThread == Wakeup(1)
WakeupLastThread == Wakeup(Len(waiting))
WakeupAllThreads ==
    token' = [t \in Threads |-> IF t \in ToSet(waiting) THEN 1 ELSE token[t]]

----------------------------------------------------------------------------
(* Wait *)

\* A thread calls Wait, on a mutex through TryLock.
CallWait(t, ms, alertable) ==
    /\ pc[t] = "idle" /\ (type = "mutex" => owner # t)
    /\ ms = "timed" => CanGiveUp
    /\ timeout' = [timeout EXCEPT ![t] = ms]
    /\ interruptible' = [interruptible EXCEPT ![t] = alertable]
    /\ Goto(t, IF alertable THEN "apcUpFront" ELSE "lock")
    /\ UNCHANGED <<object, mutex, lockedBy, token, apc>>

\* Mutant: an interruptible thread goes to sleep without a second look.
NoSecondLook(t) == "loop"
\* A thread that is about to wait says so before it looks for APCs once more.
SecondLook(t) == IF interruptible[t] THEN "apcFirst" ELSE "loop"

\* Take the lock and look at the count: done, out of time, or to wait.
StartWait(t) ==
    /\ pc[t] = "lock" /\ lockedBy = NoThread
    /\ \/ count > 0 /\ lockedBy' = t /\ Continue(t, "take") /\ UNCHANGED waitObject
       \/ /\ count = 0 /\ timeout[t] = "zero" /\ Continue(t, "idle")
          /\ UNCHANGED <<lockedBy, waitObject>>
       \/ /\ count = 0 /\ timeout[t] # "zero" /\ lockedBy' = t
          /\ waitObject' = [waitObject EXCEPT ![t] = interruptible[t]]
          /\ Continue(t, SecondLook(t))
    /\ UNCHANGED <<object, mutex, token, pendingAPCs, queuing>>

\* CheckForUserAPCAndHandle: an APC comes off the queue before it is called,
\* and the call may throw.
CheckForUserAPC(t) ==
    /\ pc[t] \in {"apcUpFront", "apcFirst", "apcWoken", "apcLast", "apcTimedOut"}
    /\ \/ /\ pendingAPCs[t] = 0
          /\ Continue(t, CASE pc[t] = "apcUpFront" -> "lock"
                         [] pc[t] \in {"apcFirst", "apcWoken"} -> "loop"
                         [] pc[t] = "apcLast" -> "take"
                         [] pc[t] = "apcTimedOut" -> "idle")
          /\ lockedBy' = IF pc[t] = "apcTimedOut" THEN NoThread ELSE lockedBy
          /\ UNCHANGED pendingAPCs
       \/ /\ pendingAPCs[t] > 0
          /\ pendingAPCs' = [pendingAPCs EXCEPT ![t] = @ - 1]
          /\ \/ UNCHANGED <<pc, call>>
             \/ CanGiveUp /\ Continue(t, IF pc[t] = "apcUpFront" THEN "idle" ELSE "throw")
          /\ UNCHANGED lockedBy
    /\ UNCHANGED <<object, mutex, token, waitObject, queuing>>

\* ConditionWait up to the thread's own semaphore, or out of the loop.
LoopWhileUnsignalled(t) ==
    /\ pc[t] = "loop"
    /\ \/ /\ count = 0
          /\ waiting' = Append(waiting, t)
          /\ Release /\ Continue(t, "asleep")
       \/ /\ count > 0 /\ Continue(t, IF interruptible[t] THEN "untie" ELSE "take")
          /\ UNCHANGED <<waiting, lockedBy>>
    /\ UNCHANGED <<type, count, mutex, token, apc>>

AcquireSemaphore(t) ==
    /\ pc[t] = "asleep" /\ token[t] = 1
    /\ token' = [token EXCEPT ![t] = 0]
    /\ Continue(t, "relock")
    /\ UNCHANGED <<object, mutex, lockedBy, apc>>

\* TryTimedAcquireSemaphore runs out of time.
TimeOut(t) ==
    /\ pc[t] = "asleep" /\ token[t] = 0 /\ timeout[t] = "timed"
    /\ Continue(t, "relockTimedOut")
    /\ UNCHANGED <<object, mutex, lockedBy, token, apc>>

\* The rest of ConditionWait or ConditionTimedWait.  Out of time the thread
\* does not look at the count again.
Relock(t) ==
    /\ \/ /\ pc[t] = "relock" /\ Acquire(t)
          /\ Goto(t, IF interruptible[t] THEN "apcWoken" ELSE "loop")
       \/ /\ pc[t] = "relockTimedOut" /\ interruptible[t] /\ Acquire(t)
          /\ Goto(t, "untie")
       \/ /\ pc[t] = "relockTimedOut" /\ ~interruptible[t]
          /\ lockedBy = NoThread /\ Goto(t, "idle") /\ UNCHANGED lockedBy
    /\ waiting' = Pop(waiting, t)
    /\ timeout' = [timeout EXCEPT ![t] = IF pc[t] = "relockTimedOut" THEN "zero" ELSE @]
    /\ UNCHANGED <<type, count, mutex, interruptible, token, apc>>

\* The wait is over: from here on APCs do not try to wake the thread.
Untie(t) ==
    /\ pc[t] = "untie"
    /\ waitObject' = [waitObject EXCEPT ![t] = FALSE]
    /\ Continue(t, IF timeout[t] = "zero" THEN "apcTimedOut" ELSE "apcLast")
    /\ UNCHANGED <<object, mutex, lockedBy, token, pendingAPCs, queuing>>

\* The exception leaves Wait.
Throw(t) ==
    /\ pc[t] = "throw"
    /\ waitObject' = [waitObject EXCEPT ![t] = FALSE]
    /\ Release /\ Continue(t, "idle")
    /\ UNCHANGED <<object, mutex, token, pendingAPCs, queuing>>

\* Mutant: a semaphore taken once more than it was posted is not passed on.
TakeAlone(t) ==
    /\ pc[t] = "take"
    /\ count' = CASE type = "manualReset" -> count
                  [] type = "semaphore"   -> count - 1
                  [] OTHER                -> 0
    /\ UNCHANGED token
    /\ Release /\ Continue(t, IF type = "mutex" THEN "own" ELSE "idle")
    /\ UNCHANGED <<type, waiting, mutex, apc>>
\* The object is signalled: acquire it, and pass on what is left of a semaphore.
Take(t) ==
    /\ pc[t] = "take"
    /\ count' = CASE type = "manualReset" -> count
                  [] type = "semaphore"   -> count - 1
                  [] OTHER                -> 0
    /\ IF type = "semaphore" /\ count > 1 THEN WakeupOneThread ELSE UNCHANGED token
    /\ Release /\ Continue(t, IF type = "mutex" THEN "own" ELSE "idle")
    /\ UNCHANGED <<type, waiting, mutex, apc>>

----------------------------------------------------------------------------
(* Semaphore, event and mutex *)

Post(releaseCount, lifo) ==
    /\ type = "semaphore" /\ lockedBy = NoThread
    /\ count + releaseCount <= MaximumValue
    /\ count' = count + releaseCount
    /\ IF lifo THEN WakeupLastThread ELSE WakeupOneThread
    /\ UNCHANGED <<type, waiting, mutex, lockedBy, pc, call, apc>>

\* Mutant: Set wakes like Post does.
SetForOne ==
    /\ type \in {"autoReset", "manualReset"} /\ lockedBy = NoThread
    /\ count' = 1
    /\ WakeupOneThread
    /\ UNCHANGED <<type, waiting, mutex, lockedBy, pc, call, apc>>
Set ==
    /\ type \in {"autoReset", "manualReset"} /\ lockedBy = NoThread
    /\ count' = 1
    /\ WakeupAllThreads
    /\ UNCHANGED <<type, waiting, mutex, lockedBy, pc, call, apc>>
Reset ==
    /\ type \in {"autoReset", "manualReset"} /\ lockedBy = NoThread
    /\ count' = 0
    /\ UNCHANGED <<type, waiting, mutex, lockedBy, pc, call, token, apc>>

\* TryLock after a successful Wait.
Own(t) ==
    /\ pc[t] = "own"
    /\ owner' = t /\ recursion' = 1
    /\ Continue(t, "idle")
    /\ UNCHANGED <<object, lockedBy, token, apc>>
LockAgain(t) ==
    /\ type = "mutex" /\ pc[t] = "idle" /\ owner = t /\ recursion < MaxRecursion
    /\ recursion' = recursion + 1
    /\ UNCHANGED <<object, owner, lockedBy, pc, call, token, apc>>
\* Mutant: every Unlock unlocks.
UnlockAtOnce(t) ==
    /\ type = "mutex" /\ pc[t] = "idle" /\ owner = t /\ lockedBy = NoThread
    /\ recursion' = recursion - 1 /\ count' = 1
    /\ owner' = IF recursion = 1 THEN NoThread ELSE owner
    /\ WakeupOneThread
    /\ UNCHANGED <<type, waiting, lockedBy, pc, call, apc>>
Unlock(t) ==
    /\ type = "mutex" /\ pc[t] = "idle" /\ owner = t
    /\ recursion' = recursion - 1
    /\ \/ recursion > 1 /\ UNCHANGED <<count, owner, token>>
       \/ /\ recursion = 1 /\ lockedBy = NoThread
          /\ count' = 1 /\ owner' = NoThread
          /\ WakeupOneThread
    /\ UNCHANGED <<type, waiting, lockedBy, pc, call, apc>>

----------------------------------------------------------------------------
(* QueueUserAPC.  RequestInterrupt and RequestAbort serialise the calls for   *)
(* one thread with its synch_cs.                                              *)

QueueUserAPC(t) ==
    /\ queuing[t] = "no" /\ pendingAPCs[t] < MaxAPCs
    /\ pendingAPCs' = [pendingAPCs EXCEPT ![t] = @ + 1]
    /\ queuing' = [queuing EXCEPT ![t] = "queued"]
    /\ UNCHANGED <<object, mutex, lockedBy, pc, call, token, waitObject>>
ReadWaitObject(t) ==
    /\ queuing[t] = "queued"
    /\ queuing' = [queuing EXCEPT ![t] = IF waitObject[t] THEN "release" ELSE "no"]
    /\ UNCHANGED <<object, mutex, lockedBy, pc, call, token, waitObject, pendingAPCs>>
ReleaseTarget(t) ==
    /\ queuing[t] = "release"
    /\ token' = [token EXCEPT ![t] = 1]
    /\ queuing' = [queuing EXCEPT ![t] = "no"]
    /\ UNCHANGED <<object, mutex, lockedBy, pc, call, waitObject, pendingAPCs>>

----------------------------------------------------------------------------
\* A thread may bring along a token that an earlier wait did not use up.
Init ==
    /\ type \in Types
    /\ count \in CASE type = "mutex" -> {1}
                   [] type = "semaphore" -> {0}
                   [] OTHER -> {0, 1}
    /\ lockedBy = NoThread /\ owner = NoThread /\ recursion = 0
    /\ waiting = <<>>
    /\ pc = [t \in Threads |-> "idle"]
    /\ timeout = [t \in Threads |-> "zero"]
    /\ interruptible = [t \in Threads |-> FALSE]
    /\ token \in [Threads -> {0, 1}]
    /\ waitObject = [t \in Threads |-> FALSE]
    /\ pendingAPCs = [t \in Threads |-> 0]
    /\ queuing = [t \in Threads |-> "no"]

WaitStep(t) ==
    \/ StartWait(t) \/ CheckForUserAPC(t) \/ LoopWhileUnsignalled(t) \/ AcquireSemaphore(t)
    \/ Relock(t) \/ Untie(t) \/ Throw(t) \/ Take(t) \/ Own(t)
QueueStep(t) == ReadWaitObject(t) \/ ReleaseTarget(t)

Next ==
    \/ \E t \in Threads :
          \/ \E ms \in {"zero", "timed", "infinite"}, alertable \in BOOLEAN : CallWait(t, ms, alertable)
          \/ WaitStep(t) \/ TimeOut(t) \/ LockAgain(t) \/ Unlock(t)
          \/ QueueUserAPC(t) \/ QueueStep(t)
    \/ \E releaseCount \in 1 .. MaximumValue, lifo \in BOOLEAN : Post(releaseCount, lifo)
    \/ Set \/ Reset

Spec == Init /\ [][Next]_vars

----------------------------------------------------------------------------
(* Properties *)

\* Types; nobody is on the waiting list twice, and whoever is in a critical
\* section of Wait holds m_Mutex, alone, timeouts and APCs notwithstanding.
TypeOK ==
    /\ type \in Types
    /\ count \in 0 .. MaximumValue \cup {1}
    /\ lockedBy \in Threads \cup {NoThread} /\ owner \in Threads \cup {NoThread}
    /\ recursion \in 0 .. MaxRecursion
    /\ waiting \in Seq(Threads) /\ IsInjective(waiting)
    /\ pc \in [Threads -> Inside \cup Outside]
    /\ \A t \in Threads : pc[t] \in Inside \ {"apcUpFront"} <=> lockedBy = t
    /\ timeout \in [Threads -> {"zero", "timed", "infinite"}]
    /\ interruptible \in [Threads -> BOOLEAN] /\ waitObject \in [Threads -> BOOLEAN]
    /\ token \in [Threads -> {0, 1}]
    /\ pendingAPCs \in [Threads -> 0 .. MaxAPCs]
    /\ queuing \in [Threads -> {"no", "queued", "release"}]

\* No thread sleeps on a signalled object (a posted semaphore, a set event, an
\* unlocked mutex) unless it is about to wake up, or another thread is awake
\* that will acquire the object and wake the next in line.
NoLostWakeup ==
    \A t \in Threads :
       count > 0 /\ pc[t] = "asleep" =>
          \E u \in Threads :
             \/ pc[u] = "asleep" /\ token[u] = 1
             \/ pc[u] \in {"relock", "apcWoken", "loop", "take"}
             \/ pc[u] \in {"untie", "apcLast"} /\ timeout[u] # "zero"

\* A mutex is free, or one thread has it, whatever timeouts, interrupts and
\* recursion went before.
OneOwner ==
    type = "mutex" =>
       /\ (count = 1) = (owner = NoThread /\ \A t \in Threads : pc[t] # "own")
       /\ \A t, u \in Threads : pc[t] = "own" => pc[u] # "own" \/ u = t
       /\ owner # NoThread => recursion > 0 /\ \A t \in Threads : pc[t] # "own"

\* An APC that was queued for a thread in an interruptible wait does not wait
\* for the object to be signalled: either the thread is about to wake up, or
\* QueueUserAPC has yet to look at what it waits on.
NoMissedAPC ==
    \A t \in Threads :
       pc[t] = "asleep" /\ interruptible[t] /\ pendingAPCs[t] > 0 =>
          token[t] = 1 \/ queuing[t] # "no"

\* Fairness: the scheduler runs threads in Wait and in QueueUserAPC, a thread
\* gets a lock that becomes free again and again, and APCs do not come as fast
\* as they are handled.  Nobody need signal anything, and no timeout expire.
QueueIsEmpty(t) == pendingAPCs[t] = 0 /\ CheckForUserAPC(t)
FairSpec ==
    /\ Spec
    /\ \A t \in Threads :
          /\ WF_vars(WaitStep(t)) /\ WF_vars(QueueStep(t))
          /\ SF_vars(QueueIsEmpty(t)) /\ SF_vars(Relock(t))

\* A signalled object with sleeping threads is acquired or reset, or the
\* threads wake up.
SignalReachesSleepers ==
    \A t \in Threads : pc[t] = "asleep" /\ count > 0 ~> pc[t] # "asleep" \/ count = 0

\* An APC gets through to a thread in an interruptible wait.
APCIsHandled ==
    \A t \in Threads :
       pc[t] = "asleep" /\ interruptible[t] /\ pendingAPCs[t] > 0 ~> pc[t] # "asleep"

============================================================================
