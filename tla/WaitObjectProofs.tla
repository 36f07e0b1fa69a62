--------------------------- MODULE WaitObjectProofs ---------------------------
(***************************************************************************)
(* Theorems about wait objects: m_Mutex excludes and the list of waiting   *)
(* threads is sound, a mutex has one owner, no APC is missed and no signal *)
(* is lost, for any set of threads and any bounds.                         *)
(***************************************************************************)
EXTENDS WaitObject, TLAPS

PCs == Inside \cup Outside

----------------------------------------------------------------------------
\* The parts of type correctness

\* The variables that a step assigns on their own.
Values ==
    /\ type \in Types
    /\ count \in 0 .. MaximumValue \cup {1}
    /\ lockedBy \in Threads \cup {NoThread} /\ owner \in Threads \cup {NoThread}
    /\ recursion \in 0 .. MaxRecursion
    /\ pc \in [Threads -> PCs]
    /\ timeout \in [Threads -> {"zero", "timed", "infinite"}]
    /\ interruptible \in [Threads -> BOOLEAN] /\ waitObject \in [Threads -> BOOLEAN]
    /\ token \in [Threads -> {0, 1}]
    /\ pendingAPCs \in [Threads -> 0 .. MaxAPCs]
    /\ queuing \in [Threads -> {"no", "queued", "release"}]

\* m_Mutex excludes.
Lock == \A t \in Threads : pc[t] \in Inside <=> lockedBy = t

\* The threads on the list are between the two halves of ConditionWait.
Queues == {"asleep", "relock", "relockTimedOut"}
Line ==
    /\ waiting \in Seq(Threads) /\ IsInjective(waiting)
    /\ \A i \in DOMAIN waiting : pc[waiting[i]] \in Queues

\* A wait in the loop is not out of time, and one that goes to take the object
\* has seen it signalled, which nobody changes as long as it holds m_Mutex.
Signalled ==
    \A t \in Threads :
        /\ pc[t] \in {"apcFirst", "loop", "apcWoken", "asleep", "relock", "apcLast"}
               => timeout[t] # "zero"
        /\ pc[t] = "take" \/ (pc[t] \in {"untie", "apcLast"} /\ timeout[t] # "zero")
               => count > 0

WaitInv == Values /\ Lock /\ Line /\ Signalled

\* The parts make up TypeOK.
LEMMA PartsAreTypeOK == WaitInv => TypeOK
  BY DEF WaitInv, Values, Lock, Line, TypeOK, PCs, Inside

----------------------------------------------------------------------------
\* The list of waiting threads

\* PopThreadFromWaitersList leaves a list without repetitions of the other
\* threads.
LEMMA PopKeeps ==
    ASSUME NEW list \in Seq(Threads), IsInjective(list), NEW t \in Threads
    PROVE  /\ Pop(list, t) \in Seq(Threads) /\ IsInjective(Pop(list, t))
           /\ \A j \in DOMAIN Pop(list, t) :
                  Pop(list, t)[j] # t /\ \E i \in DOMAIN list : Pop(list, t)[j] = list[i]
  <1>1. CASE t \notin ToSet(list)
    <2>1. Pop(list, t) = list
      BY <1>1 DEF Pop
    <2>2. \A i \in DOMAIN list : list[i] # t
      BY <1>1 DEF ToSet
    <2> QED BY <2>1, <2>2
  <1>2. CASE t \in ToSet(list)
    <2> DEFINE k == CHOOSE i \in DOMAIN list : list[i] = t
               n == Len(list)
               new == [j \in 1 .. n - 1 |-> IF j = k THEN list[n] ELSE list[j]]
    <2>1. \E i \in DOMAIN list : list[i] = t
      BY <1>2 DEF ToSet
    <2>2. k \in DOMAIN list /\ list[k] = t
      BY <2>1
    <2>3. Pop(list, t) = new
      BY <1>2 DEF Pop, Last
    <2> HIDE DEF k
    <2>4. n \in Nat \ {0} /\ k \in 1 .. n /\ \A i \in 1 .. n : list[i] \in Threads
      BY <2>2
    <2>5. new \in Seq(Threads) /\ DOMAIN new = 1 .. n - 1
      BY <2>4
    <2>6. \A i, j \in 1 .. n : list[i] = list[j] => i = j
      BY DEF IsInjective
    <2>7. \A j \in 1 .. n - 1 : new[j] = list[IF j = k THEN n ELSE j]
      BY <2>4
    <2>8. \A i, j \in 1 .. n - 1 : new[i] = new[j] => i = j
      BY <2>4, <2>6, <2>7
    <2>9. \A j \in 1 .. n - 1 : new[j] # t /\ \E i \in 1 .. n : new[j] = list[i]
      <3> SUFFICES ASSUME NEW j \in 1 .. n - 1
                   PROVE  new[j] # t /\ \E i \in 1 .. n : new[j] = list[i]
        OBVIOUS
      <3> DEFINE m == IF j = k THEN n ELSE j
      <3>1. m \in 1 .. n /\ m # k /\ new[j] = list[m]
        BY <2>4, <2>7
      <3>2. list[m] # list[k]
        BY <2>4, <2>6, <3>1
      <3> QED BY <2>2, <3>1, <3>2
    <2> QED BY <2>3, <2>5, <2>8, <2>9 DEF IsInjective
  <1> QED BY <1>1, <1>2

----------------------------------------------------------------------------
\* Type correctness

\* Waking the threads in line leaves every token at 0 or 1.
LEMMA WakeupsKeepTokens ==
    ASSUME token \in [Threads -> {0, 1}], waiting \in Seq(Threads),
           WakeupOneThread \/ WakeupLastThread \/ WakeupAllThreads
    PROVE  token' \in [Threads -> {0, 1}]
  <1>1. waiting # <<>> => waiting[1] \in Threads /\ waiting[Len(waiting)] \in Threads
    <2> SUFFICES ASSUME waiting # <<>>
                 PROVE  waiting[1] \in Threads /\ waiting[Len(waiting)] \in Threads
      OBVIOUS
    <2>1. Len(waiting) \in Nat \ {0}
      OBVIOUS
    <2> QED BY <2>1
  <1>2. CASE WakeupAllThreads
    BY <1>2 DEF WakeupAllThreads
  <1>3. CASE WakeupOneThread \/ WakeupLastThread
    BY <1>1, <1>3 DEF WakeupOneThread, WakeupLastThread, Wakeup
  <1> QED BY <1>2, <1>3

\* Going on in Wait leaves the program counters and the arguments well typed.
LEMMA ContinueKeepsTypes ==
    ASSUME NEW t \in Threads, NEW label \in PCs, Continue(t, label), Values
    PROVE  /\ pc' \in [Threads -> PCs]
           /\ timeout' \in [Threads -> {"zero", "timed", "infinite"}]
           /\ interruptible' \in [Threads -> BOOLEAN]
  <1>1. pc' \in [Threads -> PCs]
    BY DEF Continue, Goto, Values
  <1>2. timeout' \in [Threads -> {"zero", "timed", "infinite"}]
    BY DEF Continue, Values
  <1>3. interruptible' \in [Threads -> BOOLEAN]
    BY Zenon DEF Continue, Values
  <1> QED BY <1>1, <1>2, <1>3

\* Every step keeps the values.
LEMMA ValuesPreserved == ASSUME WaitInv, [Next]_vars PROVE Values'
  <1> USE BoundsAssumption, NoThreadAssumption
      DEF WaitInv, Values, PCs, Inside, Outside, object, mutex, call, apc
  <1>1. ASSUME NEW t \in Threads, NEW ms \in {"zero", "timed", "infinite"}, NEW alertable \in BOOLEAN, CallWait(t, ms, alertable) PROVE Values'
    BY <1>1 DEF CallWait, Goto, Line, Signalled
  <1>2. ASSUME NEW t \in Threads, StartWait(t) PROVE Values'
    <2>1. PICK label \in {"take", "idle", "apcFirst", "loop"} : Continue(t, label)
      BY <1>2 DEF StartWait, SecondLook
    <2>2. /\ pc' \in [Threads -> PCs]
          /\ timeout' \in [Threads -> {"zero", "timed", "infinite"}]
          /\ interruptible' \in [Threads -> BOOLEAN]
      BY <2>1, ContinueKeepsTypes DEF PCs, Inside, Outside
    <2>3. lockedBy' \in Threads \cup {NoThread} /\ waitObject' \in [Threads -> BOOLEAN]
      BY <1>2 DEF StartWait
    <2> QED BY <1>2, <2>2, <2>3 DEF StartWait
  <1>3. ASSUME NEW t \in Threads, CheckForUserAPC(t) PROVE Values'
    <2>1. \/ pc' = pc /\ timeout' = timeout /\ interruptible' = interruptible
          \/ \E label \in {"lock", "loop", "take", "idle", "throw"} : Continue(t, label)
      BY <1>3 DEF CheckForUserAPC
    <2>2. /\ pc' \in [Threads -> PCs]
          /\ timeout' \in [Threads -> {"zero", "timed", "infinite"}]
          /\ interruptible' \in [Threads -> BOOLEAN]
      BY <2>1, ContinueKeepsTypes DEF PCs, Inside, Outside
    <2>3. lockedBy' \in Threads \cup {NoThread} /\ pendingAPCs' \in [Threads -> 0 .. MaxAPCs]
      BY <1>3 DEF CheckForUserAPC
    <2> QED BY <1>3, <2>2, <2>3 DEF CheckForUserAPC
  <1>4. ASSUME NEW t \in Threads, LoopWhileUnsignalled(t) PROVE Values'
    BY <1>4 DEF LoopWhileUnsignalled, Continue, Goto, Release, Line, Signalled
  <1>5. ASSUME NEW t \in Threads, AcquireSemaphore(t) PROVE Values'
    BY <1>5 DEF AcquireSemaphore, Continue, Goto, Line, Signalled
  <1>6. ASSUME NEW t \in Threads, Relock(t) PROVE Values'
    BY <1>6 DEF Relock, Goto, Acquire, Line, Signalled
  <1>7. ASSUME NEW t \in Threads, Untie(t) PROVE Values'
    BY <1>7 DEF Untie, Continue, Goto, Line, Signalled
  <1>8. ASSUME NEW t \in Threads, Throw(t) PROVE Values'
    BY <1>8 DEF Throw, Continue, Goto, Release, Line, Signalled
  <1>9. ASSUME NEW t \in Threads, Take(t) PROVE Values'
    <2>1. Continue(t, IF type = "mutex" THEN "own" ELSE "idle")
      BY <1>9 DEF Take
    <2>2. /\ pc' \in [Threads -> PCs]
          /\ timeout' \in [Threads -> {"zero", "timed", "infinite"}]
          /\ interruptible' \in [Threads -> BOOLEAN]
      BY <2>1, ContinueKeepsTypes DEF PCs, Inside, Outside
    <2>3. token' \in [Threads -> {0, 1}]
      BY <1>9, WakeupsKeepTokens DEF Take, Line
    <2>4. count > 0
      BY <1>9 DEF Take, Signalled
    <2>5. count' \in 0 .. MaximumValue \cup {1}
      BY <1>9, <2>4 DEF Take
    <2>6. lockedBy' = NoThread
      BY <1>9 DEF Take, Release
    <2> QED BY <1>9, <2>2, <2>3, <2>5, <2>6 DEF Take
  <1>10. ASSUME NEW t \in Threads, Own(t) PROVE Values'
    BY <1>10 DEF Own, Continue, Goto, Line, Signalled
  <1>11. ASSUME NEW t \in Threads, TimeOut(t) PROVE Values'
    BY <1>11 DEF TimeOut, Continue, Goto, Line, Signalled
  <1>12. ASSUME NEW t \in Threads, LockAgain(t) PROVE Values'
    BY <1>12 DEF LockAgain, Line, Signalled
  <1>13. ASSUME NEW t \in Threads, Unlock(t) PROVE Values'
    BY SMTT(30), <1>13 DEF Unlock, WakeupOneThread, WakeupLastThread, WakeupAllThreads, Wakeup, Line, Signalled
  <1>14. ASSUME NEW t \in Threads, QueueUserAPC(t) PROVE Values'
    BY <1>14 DEF QueueUserAPC, Line, Signalled
  <1>15. ASSUME NEW t \in Threads, ReadWaitObject(t) PROVE Values'
    BY <1>15 DEF ReadWaitObject, Line, Signalled
  <1>16. ASSUME NEW t \in Threads, ReleaseTarget(t) PROVE Values'
    BY <1>16 DEF ReleaseTarget, Line, Signalled
  <1>17. ASSUME NEW releaseCount \in 1 .. MaximumValue, NEW lifo \in BOOLEAN, Post(releaseCount, lifo) PROVE Values'
    <2>1. token' \in [Threads -> {0, 1}]
      BY <1>17, WakeupsKeepTokens DEF Post, Line
    <2>2. count' \in 0 .. MaximumValue
      BY <1>17 DEF Post
    <2> QED BY <1>17, <2>1, <2>2 DEF Post
  <1>18. CASE Set
    BY <1>18 DEF Set, WakeupOneThread, WakeupLastThread, WakeupAllThreads, Wakeup, Line, Signalled
  <1>19. CASE Reset
    BY <1>19 DEF Reset, Line, Signalled
  <1>20. CASE UNCHANGED vars
    BY <1>20 DEF vars, Line, Signalled
  <1> QED
    BY <1>1, <1>2, <1>3, <1>4, <1>5, <1>6, <1>7, <1>8, <1>9, <1>10, <1>11, <1>12, <1>13, <1>14, <1>15, <1>16, <1>17, <1>18, <1>19, <1>20
    DEF Next, WaitStep, QueueStep

\* Every step keeps m_Mutex exclusive.
LEMMA LockPreserved == ASSUME WaitInv, [Next]_vars PROVE Lock'
  <1> USE NoThreadAssumption
      DEF WaitInv, Values, PCs, Inside, Outside, Lock, object, mutex, call, apc
  <1>1. ASSUME NEW t \in Threads, NEW ms \in {"zero", "timed", "infinite"}, NEW alertable \in BOOLEAN, CallWait(t, ms, alertable) PROVE Lock'
    BY <1>1 DEF CallWait, Goto
  <1>2. ASSUME NEW t \in Threads, StartWait(t) PROVE Lock'
    BY <1>2 DEF StartWait, Continue, Goto, SecondLook
  <1>3. ASSUME NEW t \in Threads, CheckForUserAPC(t) PROVE Lock'
    BY <1>3 DEF CheckForUserAPC, Continue, Goto
  <1>4. ASSUME NEW t \in Threads, LoopWhileUnsignalled(t) PROVE Lock'
    BY <1>4 DEF LoopWhileUnsignalled, Continue, Goto, Release
  <1>5. ASSUME NEW t \in Threads, AcquireSemaphore(t) PROVE Lock'
    BY <1>5 DEF AcquireSemaphore, Continue, Goto
  <1>6. ASSUME NEW t \in Threads, Relock(t) PROVE Lock'
    BY <1>6 DEF Relock, Goto, Acquire
  <1>7. ASSUME NEW t \in Threads, Untie(t) PROVE Lock'
    BY <1>7 DEF Untie, Continue, Goto
  <1>8. ASSUME NEW t \in Threads, Throw(t) PROVE Lock'
    BY <1>8 DEF Throw, Continue, Goto, Release
  <1>9. ASSUME NEW t \in Threads, Take(t) PROVE Lock'
    BY <1>9 DEF Take, Continue, Goto, Release
  <1>10. ASSUME NEW t \in Threads, Own(t) PROVE Lock'
    BY <1>10 DEF Own, Continue, Goto
  <1>11. ASSUME NEW t \in Threads, TimeOut(t) PROVE Lock'
    BY <1>11 DEF TimeOut, Continue, Goto
  <1>12. ASSUME NEW t \in Threads, LockAgain(t) PROVE Lock'
    BY <1>12 DEF LockAgain
  <1>13. ASSUME NEW t \in Threads, Unlock(t) PROVE Lock'
    BY <1>13 DEF Unlock
  <1>14. ASSUME NEW t \in Threads, QueueUserAPC(t) PROVE Lock'
    BY <1>14 DEF QueueUserAPC
  <1>15. ASSUME NEW t \in Threads, ReadWaitObject(t) PROVE Lock'
    BY <1>15 DEF ReadWaitObject
  <1>16. ASSUME NEW t \in Threads, ReleaseTarget(t) PROVE Lock'
    BY <1>16 DEF ReleaseTarget
  <1>17. ASSUME NEW releaseCount \in 1 .. MaximumValue, NEW lifo \in BOOLEAN, Post(releaseCount, lifo) PROVE Lock'
    BY <1>17 DEF Post
  <1>18. CASE Set
    BY <1>18 DEF Set
  <1>19. CASE Reset
    BY <1>19 DEF Reset
  <1>20. CASE UNCHANGED vars
    BY <1>20 DEF vars
  <1> QED
    BY <1>1, <1>2, <1>3, <1>4, <1>5, <1>6, <1>7, <1>8, <1>9, <1>10, <1>11, <1>12, <1>13, <1>14, <1>15, <1>16, <1>17, <1>18, <1>19, <1>20
    DEF Next, WaitStep, QueueStep

\* Every step keeps the list sound.
LEMMA LinePreserved == ASSUME WaitInv, [Next]_vars PROVE Line'
  <1> USE DEF WaitInv, Values, Line, Queues, object, mutex, call, apc
  <1>1. ASSUME NEW t \in Threads, NEW ms \in {"zero", "timed", "infinite"}, NEW alertable \in BOOLEAN, CallWait(t, ms, alertable) PROVE Line'
    BY <1>1 DEF CallWait, Goto
  <1>2. ASSUME NEW t \in Threads, StartWait(t) PROVE Line'
    BY <1>2 DEF StartWait, Continue, Goto, SecondLook
  <1>3. ASSUME NEW t \in Threads, CheckForUserAPC(t) PROVE Line'
    BY <1>3 DEF CheckForUserAPC, Continue, Goto
  <1>4. ASSUME NEW t \in Threads, LoopWhileUnsignalled(t) PROVE Line'
    <2>0. \A i \in DOMAIN waiting : waiting[i] \in Threads
      OBVIOUS
    <2>1. CASE waiting' = Append(waiting, t) /\ pc' = [pc EXCEPT ![t] = "asleep"]
      <3>1. \A i \in DOMAIN waiting : waiting[i] # t
        BY <1>4 DEF LoopWhileUnsignalled
      <3>2. /\ waiting' \in Seq(Threads) /\ DOMAIN waiting' = 1 .. Len(waiting) + 1
            /\ waiting'[Len(waiting) + 1] = t
            /\ \A i \in 1 .. Len(waiting) : waiting'[i] = waiting[i]
        BY <2>1
      <3>3. \A i, j \in DOMAIN waiting' : waiting'[i] = waiting'[j] => i = j
        <4>1. \A i, j \in 1 .. Len(waiting) : waiting[i] = waiting[j] => i = j
          BY DEF IsInjective
        <4>0. DOMAIN waiting = 1 .. Len(waiting)
          OBVIOUS
        <4>2. \A i \in 1 .. Len(waiting) : waiting'[i] # t
          <5> TAKE i \in 1 .. Len(waiting)
          <5>1. waiting'[i] = waiting[i]
            BY <3>2
          <5>2. waiting[i] # t
            BY <3>1, <4>0
          <5> QED BY <5>1, <5>2
        <4>3. \A i \in DOMAIN waiting' : i \in 1 .. Len(waiting) \/ i = Len(waiting) + 1
          BY <3>2
        <4> QED BY <3>2, <4>1, <4>2, <4>3
      <3>4. IsInjective(waiting')
        BY <3>3 DEF IsInjective
      <3>5. \A i \in DOMAIN waiting' : pc'[waiting'[i]] \in Queues
        BY <2>0, <2>1, <3>1, <3>2
      <3> QED BY <3>2, <3>4, <3>5
    <2>2. CASE waiting' = waiting /\ \E label : pc' = [pc EXCEPT ![t] = label]
      <3>1. \A i \in DOMAIN waiting : waiting[i] # t
        BY <1>4 DEF LoopWhileUnsignalled
      <3> QED BY <2>0, <2>2, <3>1
    <2> QED BY <1>4, <2>1, <2>2 DEF LoopWhileUnsignalled, Continue, Goto
  <1>5. ASSUME NEW t \in Threads, AcquireSemaphore(t) PROVE Line'
    BY <1>5 DEF AcquireSemaphore, Continue, Goto
  <1>6. ASSUME NEW t \in Threads, Relock(t) PROVE Line'
    <2>1. /\ waiting' \in Seq(Threads) /\ IsInjective(waiting')
          /\ \A j \in DOMAIN waiting' :
                 waiting'[j] # t /\ \E i \in DOMAIN waiting : waiting'[j] = waiting[i]
      BY <1>6, PopKeeps DEF Relock
    <2>2. \A s \in Threads \ {t} : pc'[s] = pc[s]
      BY <1>6 DEF Relock, Goto
    <2>3. \A j \in DOMAIN waiting' : waiting'[j] \in Threads
      BY <2>1
    <2> QED BY <2>1, <2>2, <2>3
  <1>7. ASSUME NEW t \in Threads, Untie(t) PROVE Line'
    BY <1>7 DEF Untie, Continue, Goto
  <1>8. ASSUME NEW t \in Threads, Throw(t) PROVE Line'
    BY <1>8 DEF Throw, Continue, Goto, Release
  <1>9. ASSUME NEW t \in Threads, Take(t) PROVE Line'
    BY <1>9 DEF Take, Continue, Goto, Release
  <1>10. ASSUME NEW t \in Threads, Own(t) PROVE Line'
    BY <1>10 DEF Own, Continue, Goto
  <1>11. ASSUME NEW t \in Threads, TimeOut(t) PROVE Line'
    BY <1>11 DEF TimeOut, Continue, Goto
  <1>12. ASSUME NEW t \in Threads, LockAgain(t) PROVE Line'
    BY <1>12 DEF LockAgain
  <1>13. ASSUME NEW t \in Threads, Unlock(t) PROVE Line'
    BY <1>13 DEF Unlock
  <1>14. ASSUME NEW t \in Threads, QueueUserAPC(t) PROVE Line'
    BY <1>14 DEF QueueUserAPC
  <1>15. ASSUME NEW t \in Threads, ReadWaitObject(t) PROVE Line'
    BY <1>15 DEF ReadWaitObject
  <1>16. ASSUME NEW t \in Threads, ReleaseTarget(t) PROVE Line'
    BY <1>16 DEF ReleaseTarget
  <1>17. ASSUME NEW releaseCount \in 1 .. MaximumValue, NEW lifo \in BOOLEAN, Post(releaseCount, lifo) PROVE Line'
    BY <1>17 DEF Post
  <1>18. CASE Set
    BY <1>18 DEF Set
  <1>19. CASE Reset
    BY <1>19 DEF Reset
  <1>20. CASE UNCHANGED vars
    BY <1>20 DEF vars
  <1> QED
    BY <1>1, <1>2, <1>3, <1>4, <1>5, <1>6, <1>7, <1>8, <1>9, <1>10, <1>11, <1>12, <1>13, <1>14, <1>15, <1>16, <1>17, <1>18, <1>19, <1>20
    DEF Next, WaitStep, QueueStep

\* Every step keeps the object signalled for whoever goes to take it.
LEMMA SignalledPreserved == ASSUME WaitInv, [Next]_vars PROVE Signalled'
  <1> USE NoThreadAssumption, BoundsAssumption
      DEF WaitInv, Values, PCs, Inside, Outside, Lock, Signalled, object, mutex, call, apc
  <1>1. ASSUME NEW t \in Threads, NEW ms \in {"zero", "timed", "infinite"}, NEW alertable \in BOOLEAN, CallWait(t, ms, alertable) PROVE Signalled'
    BY <1>1 DEF CallWait, Goto
  <1>2. ASSUME NEW t \in Threads, StartWait(t) PROVE Signalled'
    BY <1>2 DEF StartWait, Continue, Goto, SecondLook
  <1>3. ASSUME NEW t \in Threads, CheckForUserAPC(t) PROVE Signalled'
    BY <1>3 DEF CheckForUserAPC, Continue, Goto
  <1>4. ASSUME NEW t \in Threads, LoopWhileUnsignalled(t) PROVE Signalled'
    <2>1. CASE /\ count = 0 /\ Continue(t, "asleep")
      <3>1. timeout[t] # "zero"
        BY <1>4 DEF LoopWhileUnsignalled
      <3> QED BY <1>4, <2>1, <3>1 DEF LoopWhileUnsignalled, Continue, Goto
    <2>2. CASE count > 0 /\ Continue(t, IF interruptible[t] THEN "untie" ELSE "take")
      BY <1>4, <2>2 DEF LoopWhileUnsignalled, Continue, Goto
    <2> QED BY <1>4, <2>1, <2>2 DEF LoopWhileUnsignalled
  <1>5. ASSUME NEW t \in Threads, AcquireSemaphore(t) PROVE Signalled'
    BY <1>5 DEF AcquireSemaphore, Continue, Goto
  <1>6. ASSUME NEW t \in Threads, Relock(t) PROVE Signalled'
    BY <1>6 DEF Relock, Goto, Acquire
  <1>7. ASSUME NEW t \in Threads, Untie(t) PROVE Signalled'
    BY <1>7 DEF Untie, Continue, Goto
  <1>8. ASSUME NEW t \in Threads, Throw(t) PROVE Signalled'
    BY <1>8 DEF Throw, Continue, Goto, Release
  <1>9. ASSUME NEW t \in Threads, Take(t) PROVE Signalled'
    BY <1>9 DEF Take, Continue, Goto, Release
  <1>10. ASSUME NEW t \in Threads, Own(t) PROVE Signalled'
    BY <1>10 DEF Own, Continue, Goto
  <1>11. ASSUME NEW t \in Threads, TimeOut(t) PROVE Signalled'
    BY <1>11 DEF TimeOut, Continue, Goto
  <1>12. ASSUME NEW t \in Threads, LockAgain(t) PROVE Signalled'
    BY <1>12 DEF LockAgain
  <1>13. ASSUME NEW t \in Threads, Unlock(t) PROVE Signalled'
    BY <1>13 DEF Unlock
  <1>14. ASSUME NEW t \in Threads, QueueUserAPC(t) PROVE Signalled'
    BY <1>14 DEF QueueUserAPC
  <1>15. ASSUME NEW t \in Threads, ReadWaitObject(t) PROVE Signalled'
    BY <1>15 DEF ReadWaitObject
  <1>16. ASSUME NEW t \in Threads, ReleaseTarget(t) PROVE Signalled'
    BY <1>16 DEF ReleaseTarget
  <1>17. ASSUME NEW releaseCount \in 1 .. MaximumValue, NEW lifo \in BOOLEAN, Post(releaseCount, lifo) PROVE Signalled'
    BY <1>17 DEF Post
  <1>18. CASE Set
    BY <1>18 DEF Set
  <1>19. CASE Reset
    BY <1>19 DEF Reset
  <1>20. CASE UNCHANGED vars
    BY <1>20 DEF vars
  <1> QED
    BY <1>1, <1>2, <1>3, <1>4, <1>5, <1>6, <1>7, <1>8, <1>9, <1>10, <1>11, <1>12, <1>13, <1>14, <1>15, <1>16, <1>17, <1>18, <1>19, <1>20
    DEF Next, WaitStep, QueueStep

\* The initial states are correct.
LEMMA InitialWaitInv == Init => WaitInv
  <1> SUFFICES ASSUME Init PROVE WaitInv
    OBVIOUS
  <1>1. Values
    BY BoundsAssumption DEF Init, Values, PCs, Outside
  <1>2. Line
    BY DEF Init, Line, IsInjective
  <1>3. Lock /\ Signalled
    BY NoThreadAssumption DEF Init, Lock, Signalled, Inside
  <1> QED BY <1>1, <1>2, <1>3 DEF WaitInv

\* The invariant holds for any set of threads.
LEMMA WaitInvHolds == Spec => []WaitInv
  <1>1. WaitInv /\ [Next]_vars => WaitInv'
    BY ValuesPreserved, LockPreserved, LinePreserved, SignalledPreserved DEF WaitInv
  <1> QED BY <1>1, InitialWaitInv, PTL DEF Spec

\* Type correctness, for any set of threads: m_Mutex excludes, and nobody is on
\* the list of waiting threads twice, whatever the order in which waits time
\* out, are woken and are left by exceptions (WaitObject::Wait).
THEOREM TypesAreCorrect == Spec => []TypeOK
  BY WaitInvHolds, PartsAreTypeOK, PTL

----------------------------------------------------------------------------
\* The owner of a mutex

\* A mutex counts no further than one.
Owned == (type = "mutex" => count \in {0, 1}) /\ OneOwner

\* A step that leaves the mutex and the threads about to own it alone.
LEMMA OwnedFrame ==
    ASSUME Owned, UNCHANGED <<type, count, owner, recursion>>,
           \A s \in Threads : (pc'[s] = "own") = (pc[s] = "own")
    PROVE  Owned'
  BY DEF Owned, OneOwner

\* Every step keeps it: a thread takes the mutex only while its count is one,
\* and then no thread has it.
LEMMA OwnedPreserved == ASSUME WaitInv, Owned, [Next]_vars PROVE Owned'
  <1> USE DEF WaitInv, Values, object, mutex, call, apc
  <1>1. ASSUME NEW t \in Threads, NEW ms \in {"zero", "timed", "infinite"}, NEW alertable \in BOOLEAN, CallWait(t, ms, alertable) PROVE Owned'
    BY <1>1, OwnedFrame DEF CallWait, Goto
  <1>2. ASSUME NEW t \in Threads, StartWait(t) PROVE Owned'
    BY <1>2, OwnedFrame DEF StartWait, Continue, Goto, SecondLook
  <1>3. ASSUME NEW t \in Threads, CheckForUserAPC(t) PROVE Owned'
    <2>1. \A s \in Threads : (pc'[s] = "own") = (pc[s] = "own")
      BY <1>3 DEF CheckForUserAPC, Continue, Goto
    <2> QED BY <1>3, <2>1, OwnedFrame DEF CheckForUserAPC
  <1>4. ASSUME NEW t \in Threads, LoopWhileUnsignalled(t) PROVE Owned'
    BY <1>4, OwnedFrame DEF LoopWhileUnsignalled, Continue, Goto, Release
  <1>5. ASSUME NEW t \in Threads, AcquireSemaphore(t) PROVE Owned'
    BY <1>5, OwnedFrame DEF AcquireSemaphore, Continue, Goto
  <1>6. ASSUME NEW t \in Threads, Relock(t) PROVE Owned'
    BY <1>6, OwnedFrame DEF Relock, Goto, Acquire
  <1>7. ASSUME NEW t \in Threads, Untie(t) PROVE Owned'
    BY <1>7, OwnedFrame DEF Untie, Continue, Goto
  <1>8. ASSUME NEW t \in Threads, Throw(t) PROVE Owned'
    BY <1>8, OwnedFrame DEF Throw, Continue, Goto, Release
  <1>9. ASSUME NEW t \in Threads, Take(t) PROVE Owned'
    <2>1. CASE type # "mutex"
      BY <1>9, <2>1 DEF Take, Owned, OneOwner
    <2>2. CASE type = "mutex"
      <3>1. count = 1
        BY <1>9, <2>2 DEF Take, Signalled, Owned
      <3>2. owner = NoThread /\ \A s \in Threads : pc[s] # "own"
        BY <2>2, <3>1 DEF Owned, OneOwner
      <3>3. type' = "mutex" /\ count' = 0 /\ owner' = NoThread /\ pc' = [pc EXCEPT ![t] = "own"]
        BY <1>9, <2>2, <3>2 DEF Take, Continue, Goto
      <3>4. pc'[t] = "own" /\ \A s \in Threads \ {t} : pc'[s] # "own"
        BY <3>2, <3>3
      <3> QED BY <3>3, <3>4 DEF Owned, OneOwner
    <2> QED BY <2>1, <2>2
  <1>10. ASSUME NEW t \in Threads, Own(t) PROVE Owned'
    <2>1. CASE type # "mutex"
      BY <1>10, <2>1 DEF Own, Owned, OneOwner
    <2>2. CASE type = "mutex"
      <3>1. count = 0 /\ \A s \in Threads \ {t} : pc[s] # "own"
        BY <1>10, <2>2 DEF Own, Owned, OneOwner
      <3>2. /\ type' = "mutex" /\ count' = 0 /\ owner' = t /\ recursion' = 1
            /\ \A s \in Threads : pc'[s] # "own"
        BY <1>10, <2>2, <3>1 DEF Own, Continue, Goto
      <3> QED BY <3>2, NoThreadAssumption DEF Owned, OneOwner
    <2> QED BY <2>1, <2>2
  <1>11. ASSUME NEW t \in Threads, TimeOut(t) PROVE Owned'
    BY <1>11, OwnedFrame DEF TimeOut, Continue, Goto
  <1>12. ASSUME NEW t \in Threads, LockAgain(t) PROVE Owned'
    BY <1>12 DEF LockAgain, Owned, OneOwner
  <1>13. ASSUME NEW t \in Threads, Unlock(t) PROVE Owned'
    BY <1>13, NoThreadAssumption DEF Unlock, Owned, OneOwner
  <1>14. ASSUME NEW t \in Threads, QueueUserAPC(t) PROVE Owned'
    BY <1>14, OwnedFrame DEF QueueUserAPC
  <1>15. ASSUME NEW t \in Threads, ReadWaitObject(t) PROVE Owned'
    BY <1>15, OwnedFrame DEF ReadWaitObject
  <1>16. ASSUME NEW t \in Threads, ReleaseTarget(t) PROVE Owned'
    BY <1>16, OwnedFrame DEF ReleaseTarget
  <1>17. ASSUME NEW releaseCount \in 1 .. MaximumValue, NEW lifo \in BOOLEAN, Post(releaseCount, lifo) PROVE Owned'
    BY <1>17 DEF Post, Owned, OneOwner
  <1>18. CASE Set
    BY <1>18 DEF Set, Owned, OneOwner
  <1>19. CASE Reset
    BY <1>19 DEF Reset, Owned, OneOwner
  <1>20. CASE UNCHANGED vars
    BY <1>20, OwnedFrame DEF vars
  <1> QED
    BY <1>1, <1>2, <1>3, <1>4, <1>5, <1>6, <1>7, <1>8, <1>9, <1>10, <1>11, <1>12, <1>13, <1>14, <1>15, <1>16, <1>17, <1>18, <1>19, <1>20
    DEF Next, WaitStep, QueueStep

\* A mutex is free or has one owner, for any set of threads and any depth of
\* recursion (MutexImpl).
THEOREM MutexHasOneOwner == Spec => []OneOwner
  <1>1. Init => Owned
    BY DEF Init, Owned, OneOwner
  <1>2. WaitInv /\ Owned /\ [Next]_vars => Owned'
    BY OwnedPreserved
  <1>3. Owned => OneOwner
    BY DEF Owned
  <1> QED BY <1>1, <1>2, <1>3, WaitInvHolds, PTL DEF Spec

----------------------------------------------------------------------------
\* User APCs

\* A thread in an interruptible wait can be found there, and before it sleeps
\* it has seen its queue empty or somebody is about to wake it.
Reachable ==
    \A t \in Threads : interruptible[t] =>
        /\ pc[t] \in {"apcFirst", "loop", "asleep", "relock", "relockTimedOut",
                      "apcWoken", "untie"} => waitObject[t]
        /\ pc[t] \in {"loop", "asleep"} /\ pendingAPCs[t] > 0
               => token[t] = 1 \/ queuing[t] # "no"

\* A step that only wakes threads.
LEMMA ReachableFrame ==
    ASSUME Reachable, UNCHANGED <<pc, interruptible, waitObject, pendingAPCs, queuing>>,
           \A s \in Threads : token[s] = 1 => token'[s] = 1
    PROVE  Reachable'
  BY DEF Reachable

\* Waking takes no token away.
LEMMA WakeupsTakeNoToken ==
    ASSUME token \in [Threads -> {0, 1}],
           WakeupOneThread \/ WakeupLastThread \/ WakeupAllThreads \/ UNCHANGED token
    PROVE  \A s \in Threads : token[s] = 1 => token'[s] = 1
  BY DEF WakeupOneThread, WakeupLastThread, WakeupAllThreads, Wakeup

\* Every step keeps it.  QueueUserAPC queues before it reads what the thread
\* waits on, and the thread says what it waits on before it looks at its queue.
LEMMA ReachablePreserved == ASSUME WaitInv, Reachable, [Next]_vars PROVE Reachable'
  <1> USE DEF WaitInv, Values, object, mutex, call, apc
  <1>1. ASSUME NEW t \in Threads, NEW ms \in {"zero", "timed", "infinite"}, NEW alertable \in BOOLEAN, CallWait(t, ms, alertable) PROVE Reachable'
    BY <1>1 DEF CallWait, Goto, Reachable
  <1>2. ASSUME NEW t \in Threads, StartWait(t) PROVE Reachable'
    BY <1>2 DEF StartWait, Continue, Goto, SecondLook, Reachable
  <1>3. ASSUME NEW t \in Threads, CheckForUserAPC(t) PROVE Reachable'
    BY <1>3 DEF CheckForUserAPC, Continue, Goto, Reachable
  <1>4. ASSUME NEW t \in Threads, LoopWhileUnsignalled(t) PROVE Reachable'
    BY SMTT(30), <1>4 DEF LoopWhileUnsignalled, Continue, Goto, Release, Reachable
  <1>5. ASSUME NEW t \in Threads, AcquireSemaphore(t) PROVE Reachable'
    BY <1>5 DEF AcquireSemaphore, Continue, Goto, Reachable
  <1>6. ASSUME NEW t \in Threads, Relock(t) PROVE Reachable'
    BY <1>6 DEF Relock, Goto, Acquire, Reachable
  <1>7. ASSUME NEW t \in Threads, Untie(t) PROVE Reachable'
    BY <1>7 DEF Untie, Continue, Goto, Reachable
  <1>8. ASSUME NEW t \in Threads, Throw(t) PROVE Reachable'
    BY <1>8 DEF Throw, Continue, Goto, Release, Reachable
  <1>9. ASSUME NEW t \in Threads, Take(t) PROVE Reachable'
    <2>1. \A s \in Threads : token[s] = 1 => token'[s] = 1
      BY <1>9, WakeupsTakeNoToken DEF Take
    <2>2. /\ \A s \in Threads \ {t} : pc'[s] = pc[s] /\ interruptible'[s] = interruptible[s]
          /\ pc'[t] \in {"own", "idle"}
      BY <1>9 DEF Take, Continue, Goto
    <2>3. UNCHANGED <<waitObject, pendingAPCs, queuing>>
      BY <1>9 DEF Take
    <2> QED BY <2>1, <2>2, <2>3 DEF Reachable
  <1>10. ASSUME NEW t \in Threads, Own(t) PROVE Reachable'
    BY <1>10 DEF Own, Continue, Goto, Reachable
  <1>11. ASSUME NEW t \in Threads, TimeOut(t) PROVE Reachable'
    BY <1>11 DEF TimeOut, Continue, Goto, Reachable
  <1>12. ASSUME NEW t \in Threads, LockAgain(t) PROVE Reachable'
    BY <1>12 DEF LockAgain, Reachable
  <1>13. ASSUME NEW t \in Threads, Unlock(t) PROVE Reachable'
    BY <1>13, ReachableFrame, WakeupsTakeNoToken DEF Unlock
  <1>14. ASSUME NEW t \in Threads, QueueUserAPC(t) PROVE Reachable'
    BY <1>14 DEF QueueUserAPC, Reachable
  <1>15. ASSUME NEW t \in Threads, ReadWaitObject(t) PROVE Reachable'
    BY <1>15 DEF ReadWaitObject, Reachable
  <1>16. ASSUME NEW t \in Threads, ReleaseTarget(t) PROVE Reachable'
    BY <1>16 DEF ReleaseTarget, Reachable
  <1>17. ASSUME NEW releaseCount \in 1 .. MaximumValue, NEW lifo \in BOOLEAN, Post(releaseCount, lifo) PROVE Reachable'
    BY <1>17, ReachableFrame, WakeupsTakeNoToken DEF Post
  <1>18. CASE Set
    BY <1>18, ReachableFrame, WakeupsTakeNoToken DEF Set
  <1>19. CASE Reset
    BY <1>19 DEF Reset, Reachable
  <1>20. CASE UNCHANGED vars
    BY <1>20 DEF vars, Reachable
  <1> QED
    BY <1>1, <1>2, <1>3, <1>4, <1>5, <1>6, <1>7, <1>8, <1>9, <1>10, <1>11, <1>12, <1>13, <1>14, <1>15, <1>16, <1>17, <1>18, <1>19, <1>20
    DEF Next, WaitStep, QueueStep

\* No APC that is queued for a thread in an interruptible wait is missed, for
\* any set of threads and any number of APCs (WaitObject::Wait, QueueUserAPC).
THEOREM APCsAreSeen == Spec => []NoMissedAPC
  <1>1. Init => Reachable
    BY DEF Init, Reachable
  <1>2. WaitInv /\ Reachable /\ [Next]_vars => Reachable'
    BY ReachablePreserved
  <1>3. Reachable => NoMissedAPC
    BY DEF Reachable, NoMissedAPC
  <1> QED BY <1>1, <1>2, <1>3, WaitInvHolds, PTL DEF Spec

----------------------------------------------------------------------------
\* Signals

Events == {"autoReset", "manualReset"}

\* Whoever sleeps is in line, and only waits that may be given up time out.
InLine ==
    \A t \in Threads :
        /\ pc[t] \in Queues => t \in ToSet(waiting)
        /\ timeout[t] = "timed" \/ pc[t] = "relockTimedOut" => CanGiveUp

\* PopThreadFromWaitersList leaves the other threads in line.
LEMMA PopLosesNobodyElse ==
    ASSUME NEW list \in Seq(Threads), NEW t \in Threads, NEW s \in ToSet(list), s # t
    PROVE  s \in ToSet(Pop(list, t))
  <1>1. CASE t \notin ToSet(list)
    BY <1>1 DEF Pop
  <1>2. CASE t \in ToSet(list)
    <2> DEFINE k == CHOOSE i \in DOMAIN list : list[i] = t
               n == Len(list)
               new == [j \in 1 .. n - 1 |-> IF j = k THEN list[n] ELSE list[j]]
    <2>1. \E i \in DOMAIN list : list[i] = t
      BY <1>2 DEF ToSet
    <2>2. k \in 1 .. n /\ list[k] = t /\ n \in Nat
      BY <2>1
    <2>3. Pop(list, t) = new
      BY <1>2 DEF Pop, Last
    <2> HIDE DEF k
    <2>4. PICK i \in 1 .. n : list[i] = s
      BY DEF ToSet
    <2> DEFINE j == IF i = n THEN k ELSE i
    <2>5. j \in 1 .. n - 1 /\ new[j] = s
      BY <2>2, <2>4
    <2>6. DOMAIN new = 1 .. n - 1
      OBVIOUS
    <2> QED BY <2>3, <2>5, <2>6 DEF ToSet
  <1> QED BY <1>1, <1>2

\* Every step keeps it.
LEMMA InLinePreserved == ASSUME WaitInv, InLine, [Next]_vars PROVE InLine'
  <1> USE DEF WaitInv, Values, InLine, Queues, CanGiveUp, object, mutex, call, apc
  <1>1. ASSUME NEW t \in Threads, NEW ms \in {"zero", "timed", "infinite"}, NEW alertable \in BOOLEAN, CallWait(t, ms, alertable) PROVE InLine'
    BY <1>1 DEF CallWait, Goto
  <1>2. ASSUME NEW t \in Threads, StartWait(t) PROVE InLine'
    BY <1>2 DEF StartWait, Continue, Goto, SecondLook
  <1>3. ASSUME NEW t \in Threads, CheckForUserAPC(t) PROVE InLine'
    BY <1>3 DEF CheckForUserAPC, Continue, Goto
  <1>4. ASSUME NEW t \in Threads, LoopWhileUnsignalled(t) PROVE InLine'
    <2>1. \A s \in ToSet(waiting) : s \in ToSet(waiting')
      <3>1. CASE waiting' = Append(waiting, t)
        <4>1. /\ DOMAIN waiting' = 1 .. Len(waiting) + 1 /\ Len(waiting) \in Nat
              /\ \A i \in 1 .. Len(waiting) : waiting'[i] = waiting[i]
          BY <3>1 DEF Line
        <4>2. \A i \in DOMAIN waiting : i \in DOMAIN waiting' /\ waiting[i] = waiting'[i]
          <5>1. DOMAIN waiting = 1 .. Len(waiting)
            BY DEF Line
          <5>2. 1 .. Len(waiting) \subseteq 1 .. Len(waiting) + 1
            BY <4>1
          <5> QED BY <4>1, <5>1, <5>2
        <4> SUFFICES ASSUME NEW s \in ToSet(waiting) PROVE s \in ToSet(waiting')
          OBVIOUS
        <4>3. PICK i \in DOMAIN waiting : s = waiting[i]
          BY DEF ToSet
        <4>4. i \in DOMAIN waiting' /\ waiting'[i] = s
          BY <4>2, <4>3
        <4> QED BY <4>4 DEF ToSet
      <3> QED BY <1>4, <3>1 DEF LoopWhileUnsignalled
    <2>2. CASE count = 0 /\ waiting' = Append(waiting, t)
      <3>1. Len(waiting) + 1 \in DOMAIN waiting' /\ waiting'[Len(waiting) + 1] = t
        BY <2>2 DEF Line
      <3>2. t \in ToSet(waiting')
        BY <3>1 DEF ToSet
      <3>3. \A s \in Threads \ {t} : pc'[s] = pc[s] /\ timeout'[s] = timeout[s]
        BY <1>4 DEF LoopWhileUnsignalled, Continue, Goto
      <3>4. pc'[t] # "relockTimedOut" /\ (timeout'[t] = "timed" => timeout[t] = "timed") /\ type' = type
        BY <1>4 DEF LoopWhileUnsignalled, Continue, Goto
      <3> QED BY <2>1, <3>2, <3>3, <3>4
    <2>3. CASE count > 0
      BY <1>4, <2>1, <2>3 DEF LoopWhileUnsignalled, Continue, Goto
    <2> QED BY <1>4, <2>2, <2>3 DEF LoopWhileUnsignalled
  <1>5. ASSUME NEW t \in Threads, AcquireSemaphore(t) PROVE InLine'
    BY <1>5 DEF AcquireSemaphore, Continue, Goto
  <1>6. ASSUME NEW t \in Threads, Relock(t) PROVE InLine'
    <2>1. \A s \in ToSet(waiting) \ {t} : s \in ToSet(waiting')
      BY <1>6, PopLosesNobodyElse DEF Relock, Line
    <2>2. \A s \in Threads \ {t} : pc'[s] = pc[s] /\ timeout'[s] = timeout[s]
      BY <1>6 DEF Relock, Goto
    <2>3. /\ pc'[t] \in {"apcWoken", "loop", "untie", "idle"} /\ type' = type
          /\ timeout'[t] = "timed" => timeout[t] = "timed"
      BY <1>6 DEF Relock, Goto
    <2> QED BY <2>1, <2>2, <2>3
  <1>7. ASSUME NEW t \in Threads, Untie(t) PROVE InLine'
    BY <1>7 DEF Untie, Continue, Goto
  <1>8. ASSUME NEW t \in Threads, Throw(t) PROVE InLine'
    BY <1>8 DEF Throw, Continue, Goto, Release
  <1>9. ASSUME NEW t \in Threads, Take(t) PROVE InLine'
    BY <1>9 DEF Take, Continue, Goto, Release
  <1>10. ASSUME NEW t \in Threads, Own(t) PROVE InLine'
    BY <1>10 DEF Own, Continue, Goto
  <1>11. ASSUME NEW t \in Threads, TimeOut(t) PROVE InLine'
    BY <1>11 DEF TimeOut, Continue, Goto
  <1>12. ASSUME NEW t \in Threads, LockAgain(t) PROVE InLine'
    BY <1>12 DEF LockAgain
  <1>13. ASSUME NEW t \in Threads, Unlock(t) PROVE InLine'
    BY <1>13 DEF Unlock
  <1>14. ASSUME NEW t \in Threads, QueueUserAPC(t) PROVE InLine'
    BY <1>14 DEF QueueUserAPC
  <1>15. ASSUME NEW t \in Threads, ReadWaitObject(t) PROVE InLine'
    BY <1>15 DEF ReadWaitObject
  <1>16. ASSUME NEW t \in Threads, ReleaseTarget(t) PROVE InLine'
    BY <1>16 DEF ReleaseTarget
  <1>17. ASSUME NEW releaseCount \in 1 .. MaximumValue, NEW lifo \in BOOLEAN, Post(releaseCount, lifo) PROVE InLine'
    BY <1>17 DEF Post
  <1>18. CASE Set
    BY <1>18 DEF Set
  <1>19. CASE Reset
    BY <1>19 DEF Reset
  <1>20. CASE UNCHANGED vars
    BY <1>20 DEF vars
  <1> QED
    BY <1>1, <1>2, <1>3, <1>4, <1>5, <1>6, <1>7, <1>8, <1>9, <1>10, <1>11, <1>12, <1>13, <1>14, <1>15, <1>16, <1>17, <1>18, <1>19, <1>20
    DEF Next, WaitStep, QueueStep

\* A set event gave a token to everyone who sleeps.
EventWokeAll ==
    type \in Events =>
        \A t \in Threads : count > 0 /\ pc[t] = "asleep" => token[t] = 1

\* Every step keeps it: Set wakes everyone in line, and nobody goes to sleep on
\* a set event.
LEMMA EventWokeAllPreserved ==
    ASSUME WaitInv, InLine, EventWokeAll, [Next]_vars PROVE EventWokeAll'
  <1> USE DEF WaitInv, Values, EventWokeAll, Events, object, mutex, call, apc
  <1>1. ASSUME NEW t \in Threads, NEW ms \in {"zero", "timed", "infinite"}, NEW alertable \in BOOLEAN, CallWait(t, ms, alertable) PROVE EventWokeAll'
    BY <1>1 DEF CallWait, Goto
  <1>2. ASSUME NEW t \in Threads, StartWait(t) PROVE EventWokeAll'
    <2>1. /\ UNCHANGED <<type, count, token>>
          /\ \A s \in Threads : pc'[s] = "asleep" => pc[s] = "asleep"
      BY <1>2 DEF StartWait, Continue, Goto, SecondLook
    <2> QED BY <2>1
  <1>3. ASSUME NEW t \in Threads, CheckForUserAPC(t) PROVE EventWokeAll'
    <2>1. /\ UNCHANGED <<type, count, token>>
          /\ \A s \in Threads : pc'[s] = "asleep" => pc[s] = "asleep"
      BY <1>3 DEF CheckForUserAPC, Continue, Goto
    <2> QED BY <2>1
  <1>4. ASSUME NEW t \in Threads, LoopWhileUnsignalled(t) PROVE EventWokeAll'
    BY <1>4 DEF LoopWhileUnsignalled, Continue, Goto, Release
  <1>5. ASSUME NEW t \in Threads, AcquireSemaphore(t) PROVE EventWokeAll'
    BY <1>5 DEF AcquireSemaphore, Continue, Goto
  <1>6. ASSUME NEW t \in Threads, Relock(t) PROVE EventWokeAll'
    BY <1>6 DEF Relock, Goto, Acquire
  <1>7. ASSUME NEW t \in Threads, Untie(t) PROVE EventWokeAll'
    BY <1>7 DEF Untie, Continue, Goto
  <1>8. ASSUME NEW t \in Threads, Throw(t) PROVE EventWokeAll'
    BY <1>8 DEF Throw, Continue, Goto, Release
  <1>9. ASSUME NEW t \in Threads, Take(t) PROVE EventWokeAll'
    <2>1. \A s \in Threads : pc'[s] = "asleep" => pc[s] = "asleep"
      BY <1>9 DEF Take, Continue, Goto
    <2>2. type \in Events => count > 0 /\ UNCHANGED token
      BY <1>9 DEF Take, Signalled, Events
    <2>3. type' = type
      BY <1>9 DEF Take
    <2> QED BY <2>1, <2>2, <2>3
  <1>10. ASSUME NEW t \in Threads, Own(t) PROVE EventWokeAll'
    BY <1>10 DEF Own, Continue, Goto
  <1>11. ASSUME NEW t \in Threads, TimeOut(t) PROVE EventWokeAll'
    BY <1>11 DEF TimeOut, Continue, Goto
  <1>12. ASSUME NEW t \in Threads, LockAgain(t) PROVE EventWokeAll'
    BY <1>12 DEF LockAgain
  <1>13. ASSUME NEW t \in Threads, Unlock(t) PROVE EventWokeAll'
    BY <1>13 DEF Unlock
  <1>14. ASSUME NEW t \in Threads, QueueUserAPC(t) PROVE EventWokeAll'
    BY <1>14 DEF QueueUserAPC
  <1>15. ASSUME NEW t \in Threads, ReadWaitObject(t) PROVE EventWokeAll'
    BY <1>15 DEF ReadWaitObject
  <1>16. ASSUME NEW t \in Threads, ReleaseTarget(t) PROVE EventWokeAll'
    BY <1>16 DEF ReleaseTarget
  <1>17. ASSUME NEW releaseCount \in 1 .. MaximumValue, NEW lifo \in BOOLEAN, Post(releaseCount, lifo) PROVE EventWokeAll'
    BY <1>17 DEF Post
  <1>18. CASE Set
    <2>1. type' = type /\ pc' = pc /\ WakeupAllThreads
      BY <1>18 DEF Set
    <2>2. \A s \in Threads : pc[s] = "asleep" => s \in ToSet(waiting)
      BY DEF InLine, Queues
    <2>3. \A s \in Threads : s \in ToSet(waiting) => token'[s] = 1
      BY <2>1 DEF WakeupAllThreads
    <2> QED BY <2>1, <2>2, <2>3
  <1>19. CASE Reset
    BY <1>19 DEF Reset
  <1>20. CASE UNCHANGED vars
    BY <1>20 DEF vars
  <1> QED
    BY <1>1, <1>2, <1>3, <1>4, <1>5, <1>6, <1>7, <1>8, <1>9, <1>10, <1>11, <1>12, <1>13, <1>14, <1>15, <1>16, <1>17, <1>18, <1>19, <1>20
    DEF Next, WaitStep, QueueStep

\* Thread u is about to acquire the object.
Awake(u) ==
    \/ pc[u] = "asleep" /\ token[u] = 1
    \/ pc[u] \in {"relock", "apcWoken", "loop", "take"}
    \/ pc[u] \in {"untie", "apcLast"} /\ timeout[u] # "zero"

\* While a semaphore or a mutex is signalled, somebody is awake for those asleep.
SomebodyAwake ==
    type \notin Events /\ count > 0 /\ (\E t \in Threads : pc[t] = "asleep") =>
        \E u \in Threads : Awake(u)

\* A step after which those who were awake still are, and nobody new sleeps.
LEMMA AwakeFrame ==
    ASSUME SomebodyAwake, UNCHANGED <<type, count>>,
           \A s \in Threads : pc'[s] = "asleep" => pc[s] = "asleep",
           \A s \in Threads : Awake(s) => Awake(s)'
    PROVE  SomebodyAwake'
  <1> SUFFICES ASSUME type' \notin Events, count' > 0,
                      NEW t \in Threads, pc'[t] = "asleep"
               PROVE  \E u \in Threads : Awake(u)'
    BY DEF SomebodyAwake
  <1>1. PICK u \in Threads : Awake(u)
    BY DEF SomebodyAwake
  <1> QED BY <1>1

\* A step that wakes one thread in line, and leaves those in line where they
\* are: one of them is awake, as none of them is on its way out of its wait.
LEMMA WakeupIsHeard ==
    ASSUME Abandonable \subseteq Events, WaitInv, InLine, type' = type,
           \A s \in Threads : pc[s] \in Queues \/ pc'[s] = "asleep" => pc'[s] = pc[s],
           WakeupOneThread \/ WakeupLastThread
    PROVE  SomebodyAwake'
  <1> SUFFICES ASSUME type \notin Events, NEW t \in Threads, pc'[t] = "asleep"
               PROVE  \E u \in Threads : Awake(u)'
    BY DEF SomebodyAwake
  <1>1. t \in ToSet(waiting)
    BY DEF InLine, Queues
  <1>2. waiting # <<>> /\ Len(waiting) \in Nat \ {0} /\ waiting \in Seq(Threads)
    BY <1>1 DEF ToSet, WaitInv, Line
  <1>3. PICK i \in DOMAIN waiting : token' = [token EXCEPT ![waiting[i]] = 1]
    BY <1>2 DEF WakeupOneThread, WakeupLastThread, Wakeup
  <1>4. PICK w \in Threads : w = waiting[i]
    BY <1>2
  <1>5. pc[w] \in Queues \ {"relockTimedOut"}
    BY <1>4 DEF WaitInv, Line, InLine, CanGiveUp
  <1>6. token'[w] = 1
    BY <1>3, <1>4 DEF WaitInv, Values
  <1>7. pc'[w] \in {"asleep", "relock"}
    BY <1>5 DEF Queues
  <1>8. Awake(w)'
    BY <1>6, <1>7 DEF Awake
  <1> QED BY <1>8

\* Every step keeps it: whoever signals wakes one, and whoever takes one of
\* several releases wakes the next.
LEMMA SomebodyAwakePreserved ==
    ASSUME Abandonable \subseteq Events, WaitInv, InLine, SomebodyAwake, [Next]_vars
    PROVE  SomebodyAwake'
  <1> USE DEF WaitInv, Values, object, mutex, call, apc
  <1>1. ASSUME NEW t \in Threads, NEW ms \in {"zero", "timed", "infinite"}, NEW alertable \in BOOLEAN, CallWait(t, ms, alertable) PROVE SomebodyAwake'
    <2>1. UNCHANGED <<type, count>> /\ \A s \in Threads : pc'[s] = "asleep" => pc[s] = "asleep"
      BY <1>1 DEF CallWait, Goto
    <2>2. \A s \in Threads : Awake(s) => Awake(s)'
      BY <1>1 DEF CallWait, Goto, Awake
    <2> QED BY <2>1, <2>2, AwakeFrame
  <1>2. ASSUME NEW t \in Threads, StartWait(t) PROVE SomebodyAwake'
    <2>1. UNCHANGED <<type, count>> /\ \A s \in Threads : pc'[s] = "asleep" => pc[s] = "asleep"
      BY <1>2 DEF StartWait, Continue, Goto, SecondLook
    <2>2. \A s \in Threads : Awake(s) => Awake(s)'
      BY <1>2 DEF StartWait, Continue, Goto, SecondLook, Awake
    <2> QED BY <2>1, <2>2, AwakeFrame
  <1>3. ASSUME NEW t \in Threads, CheckForUserAPC(t) PROVE SomebodyAwake'
    <2>1. UNCHANGED <<type, count>> /\ \A s \in Threads : pc'[s] = "asleep" => pc[s] = "asleep"
      BY <1>3 DEF CheckForUserAPC, Continue, Goto
    <2>2. CASE CanGiveUp
      BY <2>1, <2>2 DEF CanGiveUp, SomebodyAwake
    <2>3. CASE ~CanGiveUp
      <3>1. \A s \in Threads : Awake(s) => Awake(s)'
        BY <1>3, <2>3 DEF CheckForUserAPC, Continue, Goto, Awake
      <3> QED BY <2>1, <3>1, AwakeFrame
    <2> QED BY <2>2, <2>3
  <1>4. ASSUME NEW t \in Threads, LoopWhileUnsignalled(t) PROVE SomebodyAwake'
    <2>1. CASE count = 0
      BY <1>4, <2>1 DEF LoopWhileUnsignalled, SomebodyAwake
    <2>2. CASE count > 0
      <3>1. UNCHANGED <<type, count>> /\ \A s \in Threads : pc'[s] = "asleep" => pc[s] = "asleep"
        BY <1>4, <2>2 DEF LoopWhileUnsignalled, Continue, Goto
      <3>2. \A s \in Threads : Awake(s) => Awake(s)'
        BY <1>4, <2>2 DEF LoopWhileUnsignalled, Continue, Goto, Awake, Signalled
      <3> QED BY <3>1, <3>2, AwakeFrame
    <2> QED BY <1>4, <2>1, <2>2 DEF LoopWhileUnsignalled
  <1>5. ASSUME NEW t \in Threads, AcquireSemaphore(t) PROVE SomebodyAwake'
    <2>1. UNCHANGED <<type, count>> /\ \A s \in Threads : pc'[s] = "asleep" => pc[s] = "asleep"
      BY <1>5 DEF AcquireSemaphore, Continue, Goto
    <2>2. \A s \in Threads : Awake(s) => Awake(s)'
      BY <1>5 DEF AcquireSemaphore, Continue, Goto, Awake
    <2> QED BY <2>1, <2>2, AwakeFrame
  <1>6. ASSUME NEW t \in Threads, Relock(t) PROVE SomebodyAwake'
    <2>1. UNCHANGED <<type, count>> /\ \A s \in Threads : pc'[s] = "asleep" => pc[s] = "asleep"
      BY <1>6 DEF Relock, Goto, Acquire
    <2>2. \A s \in Threads : Awake(s) => Awake(s)'
      BY <1>6 DEF Relock, Goto, Acquire, Awake
    <2> QED BY <2>1, <2>2, AwakeFrame
  <1>7. ASSUME NEW t \in Threads, Untie(t) PROVE SomebodyAwake'
    <2>1. UNCHANGED <<type, count>> /\ \A s \in Threads : pc'[s] = "asleep" => pc[s] = "asleep"
      BY <1>7 DEF Untie, Continue, Goto
    <2>2. \A s \in Threads : Awake(s) => Awake(s)'
      BY <1>7 DEF Untie, Continue, Goto, Awake
    <2> QED BY <2>1, <2>2, AwakeFrame
  <1>8. ASSUME NEW t \in Threads, Throw(t) PROVE SomebodyAwake'
    <2>1. UNCHANGED <<type, count>> /\ \A s \in Threads : pc'[s] = "asleep" => pc[s] = "asleep"
      BY <1>8 DEF Throw, Continue, Goto, Release
    <2>2. \A s \in Threads : Awake(s) => Awake(s)'
      BY <1>8 DEF Throw, Continue, Goto, Release, Awake
    <2> QED BY <2>1, <2>2, AwakeFrame
  <1>9. ASSUME NEW t \in Threads, Take(t) PROVE SomebodyAwake'
    <2>1. CASE type = "semaphore" /\ count > 1
      <3>1. \A s \in Threads : pc[s] \in Queues \/ pc'[s] = "asleep" => pc'[s] = pc[s]
        BY <1>9 DEF Take, Continue, Goto, Queues
      <3> QED BY <1>9, <2>1, <3>1, WakeupIsHeard DEF Take
    <2>2. CASE ~(type = "semaphore" /\ count > 1)
      <3>1. type \in Events \/ ~(count' > 0)
        BY <1>9, <2>2, TypesAssumption DEF Take, Signalled, AllTypes, Events
      <3> QED BY <1>9, <3>1 DEF Take, SomebodyAwake
    <2> QED BY <2>1, <2>2
  <1>10. ASSUME NEW t \in Threads, Own(t) PROVE SomebodyAwake'
    <2>1. UNCHANGED <<type, count>> /\ \A s \in Threads : pc'[s] = "asleep" => pc[s] = "asleep"
      BY <1>10 DEF Own, Continue, Goto
    <2>2. \A s \in Threads : Awake(s) => Awake(s)'
      BY <1>10 DEF Own, Continue, Goto, Awake
    <2> QED BY <2>1, <2>2, AwakeFrame
  <1>11. ASSUME NEW t \in Threads, TimeOut(t) PROVE SomebodyAwake'
    <2>1. UNCHANGED <<type, count>> /\ \A s \in Threads : pc'[s] = "asleep" => pc[s] = "asleep"
      BY <1>11 DEF TimeOut, Continue, Goto
    <2>2. \A s \in Threads : Awake(s) => Awake(s)'
      BY <1>11 DEF TimeOut, Continue, Goto, Awake
    <2> QED BY <2>1, <2>2, AwakeFrame
  <1>12. ASSUME NEW t \in Threads, LockAgain(t) PROVE SomebodyAwake'
    <2>1. UNCHANGED <<type, count>> /\ \A s \in Threads : pc'[s] = "asleep" => pc[s] = "asleep"
      BY <1>12 DEF LockAgain
    <2>2. \A s \in Threads : Awake(s) => Awake(s)'
      BY <1>12 DEF LockAgain, Awake
    <2> QED BY <2>1, <2>2, AwakeFrame
  <1>13. ASSUME NEW t \in Threads, Unlock(t) PROVE SomebodyAwake'
    <2>1. CASE recursion > 1 /\ UNCHANGED <<count, owner, token>>
      <3>1. \A s \in Threads : Awake(s) => Awake(s)'
        BY <1>13, <2>1 DEF Unlock, Awake
      <3> QED BY <1>13, <2>1, <3>1, AwakeFrame DEF Unlock
    <2>2. CASE WakeupOneThread
      BY <1>13, <2>2, WakeupIsHeard DEF Unlock
    <2> QED BY <1>13, <2>1, <2>2 DEF Unlock
  <1>14. ASSUME NEW t \in Threads, QueueUserAPC(t) PROVE SomebodyAwake'
    <2>1. UNCHANGED <<type, count>> /\ \A s \in Threads : pc'[s] = "asleep" => pc[s] = "asleep"
      BY <1>14 DEF QueueUserAPC
    <2>2. \A s \in Threads : Awake(s) => Awake(s)'
      BY <1>14 DEF QueueUserAPC, Awake
    <2> QED BY <2>1, <2>2, AwakeFrame
  <1>15. ASSUME NEW t \in Threads, ReadWaitObject(t) PROVE SomebodyAwake'
    <2>1. UNCHANGED <<type, count>> /\ \A s \in Threads : pc'[s] = "asleep" => pc[s] = "asleep"
      BY <1>15 DEF ReadWaitObject
    <2>2. \A s \in Threads : Awake(s) => Awake(s)'
      BY <1>15 DEF ReadWaitObject, Awake
    <2> QED BY <2>1, <2>2, AwakeFrame
  <1>16. ASSUME NEW t \in Threads, ReleaseTarget(t) PROVE SomebodyAwake'
    <2>1. UNCHANGED <<type, count>> /\ \A s \in Threads : pc'[s] = "asleep" => pc[s] = "asleep"
      BY <1>16 DEF ReleaseTarget
    <2>2. \A s \in Threads : Awake(s) => Awake(s)'
      BY <1>16 DEF ReleaseTarget, Awake
    <2> QED BY <2>1, <2>2, AwakeFrame
  <1>17. ASSUME NEW releaseCount \in 1 .. MaximumValue, NEW lifo \in BOOLEAN, Post(releaseCount, lifo) PROVE SomebodyAwake'
    BY <1>17, WakeupIsHeard DEF Post
  <1>18. CASE Set
    BY <1>18 DEF Set, Events, SomebodyAwake
  <1>19. CASE Reset
    BY <1>19 DEF Reset, Events, SomebodyAwake
  <1>20. CASE UNCHANGED vars
    <2>1. UNCHANGED <<type, count>> /\ \A s \in Threads : pc'[s] = "asleep" => pc[s] = "asleep"
      BY <1>20 DEF vars
    <2>2. \A s \in Threads : Awake(s) => Awake(s)'
      BY <1>20 DEF vars, Awake
    <2> QED BY <2>1, <2>2, AwakeFrame
  <1> QED
    BY <1>1, <1>2, <1>3, <1>4, <1>5, <1>6, <1>7, <1>8, <1>9, <1>10, <1>11, <1>12, <1>13, <1>14, <1>15, <1>16, <1>17, <1>18, <1>19, <1>20
    DEF Next, WaitStep, QueueStep

\* No signal is lost, for any set of threads: on events whatever is given up,
\* on semaphores and mutexes if no wait on them times out or is left by an
\* exception (WaitObject::Wait, Post, Set, Unlock).
THEOREM SignalsAreNotLost ==
    ASSUME Abandonable \subseteq Events PROVE Spec => []NoLostWakeup
  <1> DEFINE Inv == InLine /\ EventWokeAll /\ SomebodyAwake
  <1>1. Init => Inv
    BY DEF Init, InLine, EventWokeAll, SomebodyAwake, Queues
  <1>2. WaitInv /\ Inv /\ [Next]_vars => Inv'
    BY InLinePreserved, EventWokeAllPreserved, SomebodyAwakePreserved
  <1>3. Inv => NoLostWakeup
    BY DEF EventWokeAll, SomebodyAwake, Awake, NoLostWakeup
  <1> QED BY <1>1, <1>2, <1>3, WaitInvHolds, PTL DEF Spec
=============================================================================
