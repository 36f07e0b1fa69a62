------------------------- MODULE ManagedThreadsProofs -------------------------
(***************************************************************************)
(* Theorems about managed threads: the list of attached threads is exact   *)
(* through the shutdown, every running thread has its static fields, and   *)
(* only an unmarked wait loses an interrupt, for any sets of threads.      *)
(***************************************************************************)
EXTENDS ManagedThreads, TLAPS

APCs == {"interrupt", "abort", "terminate"}

----------------------------------------------------------------------------
\* Type correctness

\* Every step keeps the types.
LEMMA TypePreserved == ASSUME TypeOK, [Next]_vars PROVE TypeOK'
  <1> USE BoundsAssumption, ThreadsAssumption DEF TypeOK, Others, Threads
  <1>1. ASSUME NEW t \in Others, Start(t) PROVE TypeOK'
    BY <1>1 DEF Start, Move, Queue, lists, statics, states, shutdown, PCs, AttachedPCs
  <1>2. ASSUME NEW t \in Others, Wait(t) PROVE TypeOK'
    BY <1>2 DEF Wait, Move, Queue, lists, statics, states, shutdown, PCs, AttachedPCs
  <1>3. ASSUME NEW t \in Others, BareWait(t) PROVE TypeOK'
    BY <1>3 DEF BareWait, Move, Queue, lists, statics, states, shutdown, PCs, AttachedPCs
  <1>4. ASSUME NEW t \in Others, WaitOneThrows(t) PROVE TypeOK'
    BY <1>4 DEF WaitOneThrows, Move, Queue, lists, statics, states, shutdown, PCs, AttachedPCs
  <1>5. ASSUME NEW t \in Others, ResetAbort(t) PROVE TypeOK'
    BY <1>5 DEF ResetAbort, Move, Queue, lists, statics, states, shutdown, PCs, AttachedPCs
  <1>6. ASSUME NEW t \in Others, JobDone(t) PROVE TypeOK'
    BY <1>6 DEF JobDone, Move, Queue, lists, statics, states, shutdown, PCs, AttachedPCs
  <1>7. ASSUME NEW t \in Others, WakeUp(t) PROVE TypeOK'
    BY <1>7 DEF WakeUp, Move, Queue, lists, statics, states, shutdown, PCs, AttachedPCs
  <1>8. ASSUME NEW t \in Others, HandleInterrupt(t) PROVE TypeOK'
    <2>1. apcs[t] \in Seq(APCs) /\ apcs[t] # <<>> /\ apcs' = [apcs EXCEPT ![t] = Tail(@)]
      BY <1>8 DEF HandleInterrupt, APCs
    <2>2. apcs' \in [Threads -> Seq(APCs)]
      BY <2>1 DEF APCs
    <2>3. pc' \in [Threads -> PCs]
      BY <1>8 DEF HandleInterrupt, PCs, AttachedPCs
    <2>4. /\ interruption_requested' \in [Threads -> BOOLEAN]
          /\ wait_sleep_join' \in [Threads -> BOOLEAN]
      BY <1>8, ZenonT(60) DEF HandleInterrupt
    <2>5. swallowed' \in [Threads -> BOOLEAN]
      BY <1>8, ZenonT(60) DEF HandleInterrupt
    <2> QED BY <1>8, <2>2, <2>3, <2>4, <2>5 DEF HandleInterrupt, lists, statics, shutdown, APCs
  <1>9. ASSUME NEW t \in Others, HandleAbort(t) PROVE TypeOK'
    <2>1. apcs[t] \in Seq(APCs) /\ apcs[t] # <<>> /\ apcs' = [apcs EXCEPT ![t] = Tail(@)]
      BY <1>9 DEF HandleAbort, APCs
    <2>2. apcs' \in [Threads -> Seq(APCs)]
      BY <2>1 DEF APCs
    <2>3. pc' \in [Threads -> PCs]
      BY <1>9 DEF HandleAbort, PCs, AttachedPCs
    <2>4. wait_sleep_join' \in [Threads -> BOOLEAN]
      <3>1. wait_sleep_join[t] \in BOOLEAN
        OBVIOUS
      <3>2. \/ wait_sleep_join' = wait_sleep_join
            \/ \E mark \in BOOLEAN : wait_sleep_join' = [wait_sleep_join EXCEPT ![t] = mark]
        BY <1>9, <3>1, Zenon DEF HandleAbort
      <3> QED BY <3>2
    <2> QED BY <1>9, <2>2, <2>3, <2>4 DEF HandleAbort, lists, statics, shutdown, APCs
  <1>10. ASSUME NEW t \in Others, HandleTerminate(t) PROVE TypeOK'
    BY <1>10 DEF HandleTerminate, Move, Queue, lists, statics, states, shutdown, PCs, AttachedPCs
  <1>11. ASSUME NEW t \in Threads, Register(t) PROVE TypeOK'
    BY <1>11 DEF Register, Move, Queue, lists, statics, states, shutdown, PCs, AttachedPCs
  <1>12. ASSUME NEW t \in Threads, TurnAway(t) PROVE TypeOK'
    BY <1>12 DEF TurnAway, Move, Queue, lists, statics, states, shutdown, PCs, AttachedPCs
  <1>13. ASSUME NEW t \in Threads, AllocateStaticDataForCurrentThread(t) PROVE TypeOK'
    BY <1>13 DEF AllocateStaticDataForCurrentThread, Move, Queue, lists, statics, states, shutdown, PCs, AttachedPCs
  <1>14. ASSUME NEW t \in Threads, Resync(t) PROVE TypeOK'
    <2>1. apcs' \in [Threads -> Seq(APCs)]
      <3>1. apcs \in [Threads -> Seq(APCs)] /\ Append(apcs[t], "interrupt") \in Seq(APCs)
        BY DEF APCs
      <3>2. apcs' = [apcs EXCEPT ![t] = Append(@, "interrupt")] \/ apcs' = apcs
        BY <1>14 DEF Resync, Queue
      <3>3. CASE apcs' = [apcs EXCEPT ![t] = Append(@, "interrupt")]
        <4>1. \A s \in Seq(APCs) : [apcs EXCEPT ![t] = s] \in [Threads -> Seq(APCs)]
          BY <3>1
        <4> QED BY <3>1, <3>3, <4>1
      <3> QED BY <3>1, <3>2, <3>3
    <2>2. pc' \in [Threads -> PCs]
      BY <1>14 DEF Resync, Move, PCs, AttachedPCs
    <2> QED BY <1>14, <2>1, <2>2 DEF Resync, lists, statics, states, shutdown, APCs
  <1>15. ASSUME NEW t \in Threads, FreeCurrentThreadStaticData(t) PROVE TypeOK'
    BY <1>15 DEF FreeCurrentThreadStaticData, Move, Queue, lists, statics, states, shutdown, PCs, AttachedPCs
  <1>16. ASSUME NEW t \in Threads, Unregister(t) PROVE TypeOK'
    BY <1>16 DEF Unregister, Move, Queue, lists, statics, states, shutdown, PCs, AttachedPCs
  <1>17. ASSUME NEW t \in Threads, SetExited(t) PROVE TypeOK'
    BY <1>17 DEF SetExited, Move, Queue, lists, statics, states, shutdown, PCs, AttachedPCs
  <1>18. ASSUME NEW t \in Threads, End(t) PROVE TypeOK'
    BY <1>18 DEF End, Move, Queue, lists, statics, states, shutdown, PCs, AttachedPCs
  <1>19. ASSUME NEW t \in Threads, QueueTerminate(t) PROVE TypeOK'
    BY <1>19 DEF QueueTerminate, Move, Queue, lists, statics, states, shutdown, PCs, AttachedPCs
  <1>20. ASSUME NEW t \in Targets, RequestInterrupt(t) PROVE TypeOK'
    BY <1>20 DEF RequestInterrupt, Move, Queue, lists, statics, states, shutdown, PCs, AttachedPCs
  <1>21. ASSUME NEW t \in Targets, RequestAbort(t) PROVE TypeOK'
    BY <1>21 DEF RequestAbort, Abort, Queue, lists, statics, states, shutdown, PCs, AttachedPCs
  <1>22. ASSUME NEW t \in Internal, Stop(t) PROVE TypeOK'
    BY <1>22 DEF Stop, Abort, Queue, lists, statics, states, shutdown, PCs, AttachedPCs
  <1>23. CASE AllocThreadStaticData
    BY <1>23 DEF AllocThreadStaticData, Move, Queue, lists, statics, states, shutdown, PCs, AttachedPCs
  <1>24. CASE BlockNewThreads
    BY <1>24 DEF BlockNewThreads, Move, Queue, lists, statics, states, shutdown, PCs, AttachedPCs
  <1>25. CASE StopReturns
    BY <1>25 DEF StopReturns, Move, Queue, lists, statics, states, shutdown, PCs, AttachedPCs
  <1>26. CASE AllQueued
    BY <1>26 DEF AllQueued, Move, Queue, lists, statics, states, shutdown, PCs, AttachedPCs
  <1>27. CASE Joined
    BY <1>27 DEF Joined, Move, Queue, lists, statics, states, shutdown, PCs, AttachedPCs
  <1>28. CASE AskAgain
    BY <1>28 DEF AskAgain, Move, Queue, lists, statics, states, shutdown, PCs, AttachedPCs
  <1>29. CASE PutBack
    BY <1>29 DEF PutBack, Move, Queue, lists, statics, states, shutdown, PCs, AttachedPCs
  <1>30. CASE Uninitialize
    BY <1>30 DEF Uninitialize, Move, Queue, lists, statics, states, shutdown, PCs, AttachedPCs
  <1>31. CASE UNCHANGED vars
    BY <1>31 DEF vars, lists, statics, states, shutdown
  <1> QED
    BY <1>1, <1>2, <1>3, <1>4, <1>5, <1>6, <1>7, <1>8, <1>9, <1>10, <1>11, <1>12, <1>13, <1>14, <1>15, <1>16, <1>17, <1>18, <1>19, <1>20, <1>21, <1>22, <1>23, <1>24, <1>25, <1>26, <1>27, <1>28, <1>29, <1>30, <1>31 DEF Next, Living, Managed, HandleAPC, Runtime, MainStep

\* Every variable keeps its type, for any sets of threads (vm/Thread.cpp).
THEOREM TypesAreCorrect == Spec => []TypeOK
  <1>1. ASSUME Init PROVE TypeOK
    <2>1. sizes \in 0 .. MaxStatics /\ background \subseteq Internal /\ exited \subseteq Threads
      BY <1>1, BoundsAssumption DEF Init
    <2>2. static_data \in [Threads -> {NoData} \cup SUBSET (0 .. MaxStatics - 1)]
      BY <1>1 DEF Init
    <2>3. pc \in [Threads -> PCs] /\ attached \subseteq Threads
      BY <1>1 DEF Init, PCs, AttachedPCs, Threads
    <2>4. /\ apcs \in [Threads -> Seq({"interrupt", "abort", "terminate"})]
          /\ active \in Seq(Others) /\ copy \subseteq Threads
      BY <1>1 DEF Init
    <2> QED BY <1>1, <2>1, <2>2, <2>3, <2>4 DEF Init, TypeOK
  <1> QED BY <1>1, TypePreserved, PTL DEF Spec

----------------------------------------------------------------------------
\* The list of attached threads through the shutdown

Terminating == phase \in {"queue", "join"}
Over == phase \in {"done", "uninitialized"}
Joining(t) == \E i \in DOMAIN active : active[i] = t

\* Main and the finalizer thread stay until they are told; new threads are
\* blocked from the copy on; whoever is still attached is in the copy or is
\* being joined, and afterwards nobody is.
LifeInv ==
    /\ AttachedExactly
    /\ \A t \in exited : pc[t] = "ended"
    /\ pc[Main] = IF phase = "uninitialized" THEN "ended" ELSE "managed"
    /\ ~Over => pc[Finalizer] = "managed"
    /\ Terminating \/ Over => blocked
    /\ Terminating => \A t \in Others : pc[t] \in AttachedPCs => t \in copy \/ Joining(t)
    /\ phase = "join" => copy = {}
    /\ Over => \A t \in Others : pc[t] \notin AttachedPCs

\* Every step keeps the list exact.
LEMMA LifePreserved == ASSUME TypeOK, LifeInv, [Next]_vars PROVE LifeInv'
  <1> USE ThreadsAssumption
  <1>1. ASSUME NEW t \in Others, Start(t) PROVE LifeInv'
    BY <1>1 DEF Start, Move, TypeOK, LifeInv, AttachedExactly, Terminating, Over, Joining, PCs, AttachedPCs, Others, Threads, lists, statics, states, shutdown
  <1>2. ASSUME NEW t \in Others, Wait(t) PROVE LifeInv'
    BY <1>2 DEF Wait, Move, TypeOK, LifeInv, AttachedExactly, Terminating, Over, Joining, PCs, AttachedPCs, Others, Threads, lists, statics, states, shutdown
  <1>3. ASSUME NEW t \in Others, BareWait(t) PROVE LifeInv'
    BY <1>3 DEF BareWait, Move, TypeOK, LifeInv, AttachedExactly, Terminating, Over, Joining, PCs, AttachedPCs, Others, Threads, lists, statics, states, shutdown
  <1>4. ASSUME NEW t \in Others, WaitOneThrows(t) PROVE LifeInv'
    BY <1>4 DEF WaitOneThrows, Move, TypeOK, LifeInv, AttachedExactly, Terminating, Over, Joining, PCs, AttachedPCs, Others, Threads, lists, statics, states, shutdown
  <1>5. ASSUME NEW t \in Others, ResetAbort(t) PROVE LifeInv'
    BY <1>5 DEF ResetAbort, Move, TypeOK, LifeInv, AttachedExactly, Terminating, Over, Joining, PCs, AttachedPCs, Others, Threads, lists, statics, states, shutdown
  <1>6. ASSUME NEW t \in Others, JobDone(t) PROVE LifeInv'
    BY <1>6 DEF JobDone, RunsManaged, Move, TypeOK, LifeInv, AttachedExactly, Terminating, Over, Joining, PCs, AttachedPCs, Others, Threads, lists, statics, states, shutdown
  <1>7. ASSUME NEW t \in Others, WakeUp(t) PROVE LifeInv'
    BY <1>7 DEF WakeUp, Waits, Move, TypeOK, LifeInv, AttachedExactly, Terminating, Over, Joining, PCs, AttachedPCs, Others, Threads, lists, statics, states, shutdown
  <1>8. ASSUME NEW t \in Others, HandleInterrupt(t) PROVE LifeInv'
    <2>1. pc' = pc \/ (pc[t] \in {"wait", "bareWait"} /\ pc' = [pc EXCEPT ![t] = "managed"])
      BY <1>8 DEF HandleInterrupt, Waits
    <2>2. UNCHANGED <<lists, exited, shutdown>>
      BY <1>8 DEF HandleInterrupt
    <2> QED BY <2>1, <2>2 DEF TypeOK, LifeInv, AttachedExactly, Terminating, Over, Joining, PCs, AttachedPCs, Others, Threads, lists, statics, states, shutdown
  <1>9. ASSUME NEW t \in Others, HandleAbort(t) PROVE LifeInv'
    BY <1>9 DEF HandleAbort, Waits, Move, TypeOK, LifeInv, AttachedExactly, Terminating, Over, Joining, PCs, AttachedPCs, Others, Threads, lists, statics, states, shutdown
  <1>10. ASSUME NEW t \in Others, HandleTerminate(t) PROVE LifeInv'
    BY <1>10 DEF HandleTerminate, Waits, Move, TypeOK, LifeInv, AttachedExactly, Terminating, Over, Joining, PCs, AttachedPCs, Others, Threads, lists, statics, states, shutdown
  <1>11. ASSUME NEW t \in Threads, Register(t) PROVE LifeInv'
    BY <1>11 DEF Register, Move, TypeOK, LifeInv, AttachedExactly, Terminating, Over, Joining, PCs, AttachedPCs, Others, Threads, lists, statics, states, shutdown
  <1>12. ASSUME NEW t \in Threads, TurnAway(t) PROVE LifeInv'
    BY SMTT(30), <1>12 DEF TurnAway, Move, TypeOK, LifeInv, AttachedExactly, Terminating, Over, Joining, PCs, AttachedPCs, Others, Threads, lists, statics, states, shutdown
  <1>13. ASSUME NEW t \in Threads, AllocateStaticDataForCurrentThread(t) PROVE LifeInv'
    BY <1>13 DEF AllocateStaticDataForCurrentThread, Move, TypeOK, LifeInv, AttachedExactly, Terminating, Over, Joining, PCs, AttachedPCs, Others, Threads, lists, statics, states, shutdown
  <1>14. ASSUME NEW t \in Threads, Resync(t) PROVE LifeInv'
    BY <1>14 DEF Resync, Queue, Move, TypeOK, LifeInv, AttachedExactly, Terminating, Over, Joining, PCs, AttachedPCs, Others, Threads, lists, statics, states, shutdown
  <1>15. ASSUME NEW t \in Threads, FreeCurrentThreadStaticData(t) PROVE LifeInv'
    BY <1>15 DEF FreeCurrentThreadStaticData, Move, TypeOK, LifeInv, AttachedExactly, Terminating, Over, Joining, PCs, AttachedPCs, Others, Threads, lists, statics, states, shutdown
  <1>16. ASSUME NEW t \in Threads, Unregister(t) PROVE LifeInv'
    BY <1>16 DEF Unregister, Move, TypeOK, LifeInv, AttachedExactly, Terminating, Over, Joining, PCs, AttachedPCs, Others, Threads, lists, statics, states, shutdown
  <1>17. ASSUME NEW t \in Threads, SetExited(t) PROVE LifeInv'
    BY <1>17 DEF SetExited, Move, TypeOK, LifeInv, AttachedExactly, Terminating, Over, Joining, PCs, AttachedPCs, Others, Threads, lists, statics, states, shutdown
  <1>18. ASSUME NEW t \in Threads, End(t) PROVE LifeInv'
    BY <1>18 DEF End, Move, TypeOK, LifeInv, AttachedExactly, Terminating, Over, Joining, PCs, AttachedPCs, Others, Threads, lists, statics, states, shutdown
  <1>19. ASSUME NEW t \in Threads, QueueTerminate(t) PROVE LifeInv'
    <2>1. \A s \in Others : Joining(s) => Joining(s)'
      <3> SUFFICES ASSUME NEW s \in Others, NEW i \in DOMAIN active, active[i] = s PROVE Joining(s)'
        BY DEF Joining
      <3>1. active' = <<t>> \o active /\ active \in Seq(Others) /\ t \in Others
        BY <1>19 DEF QueueTerminate, TypeOK, Others
      <3>2. i + 1 \in DOMAIN active' /\ active'[i + 1] = s
        BY <3>1
      <3> QED BY <3>2 DEF Joining
    <2>2. Joining(t)'
      <3>1. active' = <<t>> \o active /\ active \in Seq(Others) /\ t \in Others
        BY <1>19 DEF QueueTerminate, TypeOK, Others
      <3>2. 1 \in DOMAIN active' /\ active'[1] = t
        BY <3>1
      <3> QED BY <3>2 DEF Joining
    <2> USE DEF QueueTerminate, lists, statics, states
    <2>3. Terminating' => \A s \in Others : pc'[s] \in AttachedPCs => s \in copy' \/ Joining(s)'
      BY <1>19, <2>1, <2>2 DEF LifeInv, Terminating
    <2> QED BY <1>19, <2>3 DEF LifeInv, AttachedExactly, Terminating, Over
  <1>20. ASSUME NEW t \in Targets, RequestInterrupt(t) PROVE LifeInv'
    BY <1>20 DEF RequestInterrupt, Move, TypeOK, LifeInv, AttachedExactly, Terminating, Over, Joining, PCs, AttachedPCs, Others, Threads, lists, statics, states, shutdown
  <1>21. ASSUME NEW t \in Targets, RequestAbort(t) PROVE LifeInv'
    BY <1>21 DEF RequestAbort, Abort, Queue, Move, TypeOK, LifeInv, AttachedExactly, Terminating, Over, Joining, PCs, AttachedPCs, Others, Threads, lists, statics, states, shutdown
  <1>22. ASSUME NEW t \in Internal, Stop(t) PROVE LifeInv'
    BY <1>22 DEF Stop, Abort, Queue, Move, TypeOK, LifeInv, AttachedExactly, Terminating, Over, Joining, PCs, AttachedPCs, Others, Threads, lists, statics, states, shutdown
  <1>23. CASE AllocThreadStaticData
    BY <1>23 DEF AllocThreadStaticData, Move, TypeOK, LifeInv, AttachedExactly, Terminating, Over, Joining, PCs, AttachedPCs, Others, Threads, lists, statics, states, shutdown
  <1>24. CASE BlockNewThreads
    BY <1>24 DEF BlockNewThreads, Move, TypeOK, LifeInv, AttachedExactly, Terminating, Over, Joining, PCs, AttachedPCs, Others, Threads, lists, statics, states, shutdown
  <1>25. CASE StopReturns
    BY <1>25 DEF StopReturns, Stopping, Move, TypeOK, LifeInv, AttachedExactly, Terminating, Over, Joining, PCs, AttachedPCs, Others, Threads, lists, statics, states, shutdown
  <1>26. CASE AllQueued
    BY <1>26 DEF AllQueued, Move, TypeOK, LifeInv, AttachedExactly, Terminating, Over, Joining, PCs, AttachedPCs, Others, Threads, lists, statics, states, shutdown
  <1>27. CASE Joined
    <2>1. \A s \in Others : Joining(s) /\ s # Head(active) => Joining(s)'
      <3> SUFFICES ASSUME NEW s \in Others, NEW i \in DOMAIN active, active[i] = s, s # Head(active)
                   PROVE  Joining(s)'
        BY DEF Joining
      <3>1. active' = Tail(active) /\ active \in Seq(Others) /\ active # <<>>
        BY <1>27 DEF Joined, TypeOK
      <3>2. i \in 2 .. Len(active)
        BY <3>1
      <3>3. i - 1 \in DOMAIN active' /\ active'[i - 1] = s
        BY <3>1, <3>2
      <3> QED BY <3>3 DEF Joining
    <2> USE DEF Joined, lists, statics, states
    <2>2. pc[Head(active)] \notin AttachedPCs
      BY <1>27 DEF LifeInv, AttachedPCs
    <2>3. Terminating' => \A s \in Others : pc'[s] \in AttachedPCs => s \in copy' \/ Joining(s)'
      BY <1>27, <2>1, <2>2 DEF LifeInv, Terminating
    <2> QED BY <1>27, <2>3 DEF LifeInv, AttachedExactly, Terminating, Over
  <1>28. CASE AskAgain
    BY <1>28 DEF AskAgain, Move, TypeOK, LifeInv, AttachedExactly, Terminating, Over, Joining, PCs, AttachedPCs, Others, Threads, lists, statics, states, shutdown
  <1>29. CASE PutBack
    BY <1>29 DEF PutBack, Move, TypeOK, LifeInv, AttachedExactly, Terminating, Over, Joining, PCs, AttachedPCs, Others, Threads, lists, statics, states, shutdown
  <1>30. CASE Uninitialize
    BY <1>30 DEF Uninitialize, Move, TypeOK, LifeInv, AttachedExactly, Terminating, Over, Joining, PCs, AttachedPCs, Others, Threads, lists, statics, states, shutdown
  <1>31. CASE UNCHANGED vars
    BY <1>31 DEF vars, TypeOK, LifeInv, AttachedExactly, Terminating, Over, Joining, PCs, AttachedPCs, Others, Threads, lists, statics, states, shutdown
  <1> QED
    BY <1>1, <1>2, <1>3, <1>4, <1>5, <1>6, <1>7, <1>8, <1>9, <1>10, <1>11, <1>12, <1>13, <1>14, <1>15, <1>16, <1>17, <1>18, <1>19, <1>20, <1>21, <1>22, <1>23, <1>24, <1>25, <1>26, <1>27, <1>28, <1>29, <1>30, <1>31 DEF Next, Living, Managed, HandleAPC, Runtime, MainStep

\* Nobody but Main and the finalizer thread survives AbortAllThreads on the list,
\* nobody gets on it afterwards, and Unregister finds its thread
\* (AbortAllThreads, Register, Unregister).
THEOREM ListIsExact == Spec => []AttachedExactly
  <1>1. Init => LifeInv
    BY ThreadsAssumption
    DEF Init, LifeInv, AttachedExactly, Terminating, Over, AttachedPCs, Threads
  <1>2. LifeInv => AttachedExactly
    BY DEF LifeInv
  <1> QED BY <1>1, <1>2, TypesAreCorrect, LifePreserved, PTL DEF Spec
----------------------------------------------------------------------------
\* Storage for thread static fields

Running == {"resync", "managed", "wait", "bareWait", "free"}
\* A thread has every field from the allocation of its table to its release, and
\* no table before and between the release and Unregister.
StaticInv ==
    \A t \in Threads :
        /\ pc[t] \in Running => static_data[t] = 0 .. sizes - 1
        /\ pc[t] \in {"unstarted", "register", "statics", "unreg"} => static_data[t] = NoData

\* Every step keeps the fields allocated; a new field is added to the tables
\* of the threads that have one, which are attached.
LEMMA StaticsPreserved ==
    ASSUME TypeOK, AttachedExactly, StaticInv, [Next]_vars PROVE StaticInv'
  <1> USE ThreadsAssumption DEF StaticInv, Running
  <1>0. pc \in [Threads -> PCs] /\ static_data \in [Threads -> {NoData} \cup SUBSET (0 .. MaxStatics - 1)]
    BY DEF TypeOK
  <1> USE <1>0
  <1>1. ASSUME NEW t \in Others, Start(t) PROVE StaticInv'
    BY <1>1 DEF Start, Move, Others, Threads, lists, statics, states, shutdown
  <1>2. ASSUME NEW t \in Others, Wait(t) PROVE StaticInv'
    BY <1>2 DEF Wait, Move, Others, Threads, lists, statics, states, shutdown
  <1>3. ASSUME NEW t \in Others, BareWait(t) PROVE StaticInv'
    BY <1>3 DEF BareWait, Move, Others, Threads, lists, statics, states, shutdown
  <1>4. ASSUME NEW t \in Others, WaitOneThrows(t) PROVE StaticInv'
    BY <1>4 DEF WaitOneThrows, RunsManaged, Move, Others, Threads, lists, statics, states, shutdown
  <1>5. ASSUME NEW t \in Others, ResetAbort(t) PROVE StaticInv'
    BY <1>5 DEF ResetAbort, RunsManaged, Move, Others, Threads, lists, statics, states, shutdown
  <1>6. ASSUME NEW t \in Others, JobDone(t) PROVE StaticInv'
    BY <1>6 DEF JobDone, RunsManaged, Move, Others, Threads, lists, statics, states, shutdown
  <1>7. ASSUME NEW t \in Others, WakeUp(t) PROVE StaticInv'
    BY <1>7 DEF WakeUp, Waits, Move, Others, Threads, lists, statics, states, shutdown
  <1>8. ASSUME NEW t \in Others, HandleInterrupt(t) PROVE StaticInv'
    <2>1. pc' = pc \/ (pc[t] \in {"wait", "bareWait"} /\ pc' = [pc EXCEPT ![t] = "managed"])
      BY <1>8 DEF HandleInterrupt, Waits
    <2>2. UNCHANGED statics
      BY <1>8 DEF HandleInterrupt
    <2> QED BY <2>1, <2>2 DEF Others, Threads, statics
  <1>9. ASSUME NEW t \in Others, HandleAbort(t) PROVE StaticInv'
    BY <1>9 DEF HandleAbort, Waits, Move, Others, Threads, lists, statics, states, shutdown
  <1>10. ASSUME NEW t \in Others, HandleTerminate(t) PROVE StaticInv'
    BY <1>10 DEF HandleTerminate, Waits, Move, Others, Threads, lists, statics, states, shutdown
  <1>11. ASSUME NEW t \in Threads, Register(t) PROVE StaticInv'
    BY <1>11 DEF Register, Move, Others, Threads, lists, statics, states, shutdown
  <1>12. ASSUME NEW t \in Threads, TurnAway(t) PROVE StaticInv'
    BY <1>12 DEF TurnAway, Move, Others, Threads, lists, statics, states, shutdown
  <1>13. ASSUME NEW t \in Threads, AllocateStaticDataForCurrentThread(t) PROVE StaticInv'
    BY <1>13 DEF AllocateStaticDataForCurrentThread, Move, Others, Threads, lists, statics, states, shutdown
  <1>14. ASSUME NEW t \in Threads, Resync(t) PROVE StaticInv'
    BY <1>14 DEF Resync, Queue, Move, Others, Threads, lists, statics, states, shutdown
  <1>15. ASSUME NEW t \in Threads, FreeCurrentThreadStaticData(t) PROVE StaticInv'
    BY <1>15 DEF FreeCurrentThreadStaticData, Move, Others, Threads, lists, statics, states, shutdown
  <1>16. ASSUME NEW t \in Threads, Unregister(t) PROVE StaticInv'
    BY <1>16 DEF Unregister, Move, Others, Threads, lists, statics, states, shutdown
  <1>17. ASSUME NEW t \in Threads, SetExited(t) PROVE StaticInv'
    BY <1>17 DEF SetExited, Move, Others, Threads, lists, statics, states, shutdown
  <1>18. ASSUME NEW t \in Threads, End(t) PROVE StaticInv'
    BY <1>18 DEF End, Move, Others, Threads, lists, statics, states, shutdown
  <1>19. ASSUME NEW t \in Threads, QueueTerminate(t) PROVE StaticInv'
    BY <1>19 DEF QueueTerminate, Queue, Move, Others, Threads, lists, statics, states, shutdown
  <1>20. ASSUME NEW t \in Targets, RequestInterrupt(t) PROVE StaticInv'
    BY <1>20 DEF RequestInterrupt, Queue, Move, Others, Threads, lists, statics, states, shutdown
  <1>21. ASSUME NEW t \in Targets, RequestAbort(t) PROVE StaticInv'
    BY <1>21 DEF RequestAbort, Abort, Queue, Move, Others, Threads, lists, statics, states, shutdown
  <1>22. ASSUME NEW t \in Internal, Stop(t) PROVE StaticInv'
    BY <1>22 DEF Stop, Abort, Queue, Move, Others, Threads, lists, statics, states, shutdown
  <1>23. CASE AllocThreadStaticData
    <2>1. sizes \in Nat /\ sizes' = sizes + 1 /\ pc' = pc
      BY <1>23, BoundsAssumption DEF AllocThreadStaticData, TypeOK
    <2>2. 0 .. sizes - 1 \in SUBSET (0 .. MaxStatics - 1)
      BY <2>1, BoundsAssumption DEF TypeOK
    <2>3. 0 .. sizes - 1 # NoData
      BY <2>2, BoundsAssumption
    <2>4. (0 .. sizes - 1) \cup {sizes} = 0 .. sizes' - 1
      BY <2>1
    <2>5. \A t \in Threads : pc[t] \in Running => t \in attached
      BY DEF AttachedExactly, AttachedPCs
    <2>6. static_data' = [t \in Threads |->
              IF t \in attached /\ static_data[t] # NoData THEN static_data[t] \cup {sizes}
              ELSE static_data[t]]
      BY <1>23 DEF AllocThreadStaticData
    <2>7. ASSUME NEW t \in Threads, pc[t] \in Running PROVE static_data'[t] = 0 .. sizes' - 1
      BY <2>3, <2>4, <2>5, <2>6, <2>7
    <2>8. ASSUME NEW t \in Threads, static_data[t] = NoData PROVE static_data'[t] = NoData
      BY <2>6, <2>8
    <2> QED BY <2>1, <2>7, <2>8
  <1>24. CASE BlockNewThreads
    BY <1>24 DEF BlockNewThreads, Move, Others, Threads, lists, statics, states, shutdown
  <1>25. CASE StopReturns
    BY <1>25 DEF StopReturns, Move, Others, Threads, lists, statics, states, shutdown
  <1>26. CASE AllQueued
    BY <1>26 DEF AllQueued, Move, Others, Threads, lists, statics, states, shutdown
  <1>27. CASE Joined
    BY <1>27 DEF Joined, Move, Others, Threads, lists, statics, states, shutdown
  <1>28. CASE AskAgain
    BY <1>28 DEF AskAgain, Queue, Move, Others, Threads, lists, statics, states, shutdown
  <1>29. CASE PutBack
    BY <1>29 DEF PutBack, Move, Others, Threads, lists, statics, states, shutdown
  <1>30. CASE Uninitialize
    BY <1>30 DEF Uninitialize, Move, Others, Threads, lists, statics, states, shutdown
  <1>31. CASE UNCHANGED vars
    BY <1>31 DEF vars, lists, statics, states, shutdown, Move, Others, Threads, lists, statics, states, shutdown
  <1> QED
    BY <1>1, <1>2, <1>3, <1>4, <1>5, <1>6, <1>7, <1>8, <1>9, <1>10, <1>11, <1>12, <1>13, <1>14, <1>15, <1>16, <1>17, <1>18, <1>19, <1>20, <1>21, <1>22, <1>23, <1>24, <1>25, <1>26, <1>27, <1>28, <1>29, <1>30, <1>31
    DEF Next, Living, Managed, HandleAPC, Runtime, MainStep

\* Whenever the runtime adds a thread static field, and however many threads
\* start and end meanwhile, every thread on the list has the storage that
\* GetThreadStaticData reads without a lock, unless it is still at Register or
\* already at Unregister (AllocThreadStaticData).
THEOREM StaticsAlwaysAllocated == Spec => []StaticsAreAllocated
  <1>1. Init => StaticInv
    <2> SUFFICES ASSUME Init PROVE StaticInv
      OBVIOUS
    <2>1. 0 .. sizes - 1 = {}
      BY DEF Init
    <2> QED BY <2>1, ThreadsAssumption DEF Init, StaticInv, Running, Threads
  <1>2. StaticInv /\ AttachedExactly => StaticsAreAllocated
    BY DEF StaticInv, AttachedExactly, StaticsAreAllocated, AttachedPCs, Running
  <1> QED BY <1>1, <1>2, ListIsExact, TypesAreCorrect, StaticsPreserved, PTL DEF Spec

----------------------------------------------------------------------------
\* Interrupts

\* A marked wait is the only one in which an interrupt throws.
InterruptInv ==
    /\ InterruptPending
    /\ \A t \in Threads : pc[t] = "wait" => wait_sleep_join[t]

\* Queueing an APC keeps those that are queued.
LEMMA AppendKeeps ==
    ASSUME NEW q \in Seq(APCs), NEW apc \in APCs
    PROVE  /\ Append(q, apc) \in Seq(APCs)
           /\ \E i \in DOMAIN Append(q, apc) : Append(q, apc)[i] = apc
           /\ \A a : (\E i \in DOMAIN q : q[i] = a) =>
                  \E i \in DOMAIN Append(q, apc) : Append(q, apc)[i] = a
  <1>1. Append(q, apc) \in Seq(APCs) /\ DOMAIN Append(q, apc) = 1 .. Len(q) + 1
    OBVIOUS
  <1>2. Len(q) + 1 \in DOMAIN Append(q, apc) /\ Append(q, apc)[Len(q) + 1] = apc
    BY <1>1
  <1>3. \A i \in DOMAIN q : i \in DOMAIN Append(q, apc) /\ Append(q, apc)[i] = q[i]
    BY <1>1
  <1> QED BY <1>1, <1>2, <1>3

\* Taking the first APC keeps every one that differs from it.
LEMMA TailKeeps ==
    ASSUME NEW q \in Seq(APCs), q # <<>>, NEW a, a # Head(q), \E i \in DOMAIN q : q[i] = a
    PROVE  \E i \in DOMAIN Tail(q) : Tail(q)[i] = a
  <1>1. PICK i \in DOMAIN q : q[i] = a
    OBVIOUS
  <1>2. i \in 2 .. Len(q)
    BY <1>1
  <1>3. i - 1 \in DOMAIN Tail(q) /\ Tail(q)[i - 1] = a
    BY <1>1, <1>2
  <1> QED BY <1>3

\* QueueUserAPC keeps what is queued for every thread.
LEMMA QueueKeeps ==
    ASSUME TypeOK, NEW t \in Threads, NEW apc \in APCs, Queue(t, apc)
    PROVE  Queued(t, apc)' /\ \A s \in Threads : \A a : Queued(s, a) => Queued(s, a)'
  <1>1. apcs \in [Threads -> Seq(APCs)]
    BY DEF TypeOK, APCs
  <1>2. apcs'[t] = Append(apcs[t], apc) /\ \A s \in Threads \ {t} : apcs'[s] = apcs[s]
    BY <1>1 DEF Queue
  <1>3. apcs[t] \in Seq(APCs)
    BY <1>1
  <1>4. /\ \E i \in DOMAIN apcs'[t] : apcs'[t][i] = apc
        /\ \A a : (\E i \in DOMAIN apcs[t] : apcs[t][i] = a) =>
               \E i \in DOMAIN apcs'[t] : apcs'[t][i] = a
    <2> DEFINE q == apcs[t]
               r == Append(q, apc)
    <2>1. /\ \E i \in DOMAIN r : r[i] = apc
          /\ \A a : (\E i \in DOMAIN q : q[i] = a) => \E i \in DOMAIN r : r[i] = a
      BY <1>3, AppendKeeps
    <2>2. apcs'[t] = r
      BY <1>2
    <2> HIDE DEF r
    <2> QED BY <2>1, <2>2, Zenon
  <1>5. ASSUME NEW s \in Threads, NEW a, Queued(s, a) PROVE Queued(s, a)'
    BY <1>2, <1>4, <1>5, Zenon DEF Queued
  <1> QED BY <1>4, <1>5 DEF Queued

\* A wait that handles its first APC keeps the other ones.
LEMMA HandleKeeps ==
    ASSUME TypeOK, NEW t \in Threads, apcs[t] # <<>>, apcs' = [apcs EXCEPT ![t] = Tail(@)]
    PROVE  \A s \in Threads : \A a : Queued(s, a) /\ (s = t => a # Head(apcs[t])) => Queued(s, a)'
  <1>1. apcs \in [Threads -> Seq(APCs)]
    BY DEF TypeOK, APCs
  <1>2. apcs'[t] = Tail(apcs[t]) /\ \A s \in Threads \ {t} : apcs'[s] = apcs[s]
    BY <1>1
  <1>3. apcs[t] \in Seq(APCs)
    BY <1>1
  <1>4. \A a : a # Head(apcs[t]) /\ (\E i \in DOMAIN apcs[t] : apcs[t][i] = a) =>
               \E i \in DOMAIN apcs'[t] : apcs'[t][i] = a
    <2> DEFINE q == apcs[t]
               r == Tail(q)
    <2>1. \A a : a # Head(q) /\ (\E i \in DOMAIN q : q[i] = a) => \E i \in DOMAIN r : r[i] = a
      BY <1>3, TailKeeps
    <2>2. apcs'[t] = r
      BY <1>2
    <2> HIDE DEF r
    <2> QED BY <2>1, <2>2, Zenon
  <1>5. ASSUME NEW s \in Threads, NEW a, Queued(s, a), s = t => a # Head(apcs[t])
        PROVE  Queued(s, a)'
    BY <1>2, <1>4, <1>5, ZenonT(60) DEF Queued
  <1> QED BY <1>5

\* Every step keeps an undelivered interrupt queued.
LEMMA InterruptPreserved == ASSUME TypeOK, InterruptInv, [Next]_vars PROVE InterruptInv'
  <1> USE ThreadsAssumption DEF InterruptInv, InterruptPending
  <1>0. /\ pc \in [Threads -> PCs]
        /\ interruption_requested \in [Threads -> BOOLEAN]
        /\ swallowed \in [Threads -> BOOLEAN] /\ wait_sleep_join \in [Threads -> BOOLEAN]
    BY DEF TypeOK
  <1> USE <1>0
  <1>1. ASSUME NEW t \in Others, Start(t) PROVE InterruptInv'
    BY <1>1 DEF Start, Move, Queued, Others, Threads, lists, statics, states, shutdown
  <1>2. ASSUME NEW t \in Others, Wait(t) PROVE InterruptInv'
    BY <1>2 DEF Wait, Move, Queued, Others, Threads, lists, statics, states, shutdown
  <1>3. ASSUME NEW t \in Others, BareWait(t) PROVE InterruptInv'
    BY <1>3 DEF BareWait, Move, Queued, Others, Threads, lists, statics, states, shutdown
  <1>4. ASSUME NEW t \in Others, WaitOneThrows(t) PROVE InterruptInv'
    BY <1>4 DEF WaitOneThrows, RunsManaged, Move, Queued, Others, Threads, lists, statics, states, shutdown
  <1>5. ASSUME NEW t \in Others, ResetAbort(t) PROVE InterruptInv'
    BY <1>5 DEF ResetAbort, RunsManaged, Move, Queued, Others, Threads, lists, statics, states, shutdown
  <1>6. ASSUME NEW t \in Others, JobDone(t) PROVE InterruptInv'
    BY <1>6 DEF JobDone, RunsManaged, Move, Queued, Others, Threads, lists, statics, states, shutdown
  <1>7. ASSUME NEW t \in Others, WakeUp(t) PROVE InterruptInv'
    BY <1>7 DEF WakeUp, Waits, Move, Queued, Others, Threads, lists, statics, states, shutdown
  <1>8. ASSUME NEW t \in Others, HandleInterrupt(t) PROVE InterruptInv'
    <2>1. /\ t \in Threads /\ apcs[t] # <<>> /\ Head(apcs[t]) = "interrupt"
          /\ apcs' = [apcs EXCEPT ![t] = Tail(@)]
      BY <1>8 DEF HandleInterrupt, Others
    <2>2. \A s \in Threads \ {t} : Queued(s, "interrupt") => Queued(s, "interrupt")'
      BY <2>1, HandleKeeps
    <2>3. CASE interruption_requested[t] /\ wait_sleep_join[t]
      <3>1. /\ pc' = [pc EXCEPT ![t] = "managed"]
            /\ interruption_requested' = [interruption_requested EXCEPT ![t] = FALSE]
            /\ wait_sleep_join' = [wait_sleep_join EXCEPT ![t] = FALSE]
            /\ swallowed' = swallowed
        BY <1>8, <2>3 DEF HandleInterrupt
      <3> QED BY <2>1, <2>2, <3>1
    <2>4. CASE ~(interruption_requested[t] /\ wait_sleep_join[t])
      <3>1. /\ UNCHANGED <<pc, interruption_requested, wait_sleep_join>>
            /\ swallowed' = [swallowed EXCEPT
                   ![t] = @ \/ (interruption_requested[t] /\ pc[t] = "bareWait")]
        BY <1>8, <2>4 DEF HandleInterrupt
      <3>2. interruption_requested[t] => pc[t] = "bareWait"
        BY <1>8, <2>1, <2>4 DEF HandleInterrupt, Waits
      <3>3. interruption_requested[t] => swallowed'[t]
        BY <2>1, <3>1, <3>2, Zenon
      <3>4. \A s \in Threads \ {t} : swallowed'[s] = swallowed[s]
        BY <2>1, <3>1, Zenon
      <3> QED BY <2>2, <3>1, <3>3, <3>4
    <2> QED BY <2>3, <2>4
  <1>9. ASSUME NEW t \in Others, HandleAbort(t) PROVE InterruptInv'
    <2>1. /\ t \in Threads /\ apcs[t] # <<>> /\ Head(apcs[t]) = "abort"
          /\ apcs' = [apcs EXCEPT ![t] = Tail(@)]
          /\ UNCHANGED <<interruption_requested, swallowed>>
      BY <1>9 DEF HandleAbort, Others, states
    <2>2. \A s \in Threads : Queued(s, "interrupt") => Queued(s, "interrupt")'
      BY <2>1, HandleKeeps
    <2>3. \A s \in Threads : pc'[s] = "wait" => pc[s] = "wait" /\ wait_sleep_join'[s] = wait_sleep_join[s]
      BY <1>9, <2>1 DEF HandleAbort, states
    <2> QED BY <2>1, <2>2, <2>3
  <1>10. ASSUME NEW t \in Others, HandleTerminate(t) PROVE InterruptInv'
    <2>1. /\ t \in Threads /\ apcs[t] # <<>> /\ Head(apcs[t]) = "terminate"
          /\ apcs' = [apcs EXCEPT ![t] = Tail(@)]
          /\ UNCHANGED <<interruption_requested, swallowed>>
      BY <1>10 DEF HandleTerminate, Others, states
    <2>2. \A s \in Threads : Queued(s, "interrupt") => Queued(s, "interrupt")'
      BY <2>1, HandleKeeps
    <2>3. \A s \in Threads : pc'[s] = "wait" => pc[s] = "wait" /\ wait_sleep_join'[s] = wait_sleep_join[s]
      BY <1>10, <2>1 DEF HandleTerminate, states
    <2> QED BY <2>1, <2>2, <2>3
  <1>11. ASSUME NEW t \in Threads, Register(t) PROVE InterruptInv'
    BY <1>11 DEF Register, Move, Queued, Others, Threads, lists, statics, states, shutdown
  <1>12. ASSUME NEW t \in Threads, TurnAway(t) PROVE InterruptInv'
    BY <1>12 DEF TurnAway, Move, Queued, Others, Threads, lists, statics, states, shutdown
  <1>13. ASSUME NEW t \in Threads, AllocateStaticDataForCurrentThread(t) PROVE InterruptInv'
    BY <1>13 DEF AllocateStaticDataForCurrentThread, Move, Queued, Others, Threads, lists, statics, states, shutdown
  <1>14. ASSUME NEW t \in Threads, Resync(t) PROVE InterruptInv'
    <2>1. UNCHANGED states /\ Move(t, "resync", "managed")
      BY <1>14 DEF Resync
    <2>2. \A s \in Threads : \A a : Queued(s, a) => Queued(s, a)'
      <3>1. CASE interruption_requested[t]
        BY <1>14, <3>1, QueueKeeps DEF Resync, APCs
      <3>2. CASE ~interruption_requested[t]
        BY <1>14, <3>2 DEF Resync, Queued
      <3> QED BY <3>1, <3>2
    <2> QED BY <2>1, <2>2 DEF Move, states
  <1>15. ASSUME NEW t \in Threads, FreeCurrentThreadStaticData(t) PROVE InterruptInv'
    BY <1>15 DEF FreeCurrentThreadStaticData, Move, Queued, Others, Threads, lists, statics, states, shutdown
  <1>16. ASSUME NEW t \in Threads, Unregister(t) PROVE InterruptInv'
    BY <1>16 DEF Unregister, Move, Queued, Others, Threads, lists, statics, states, shutdown
  <1>17. ASSUME NEW t \in Threads, SetExited(t) PROVE InterruptInv'
    BY <1>17 DEF SetExited, Move, Queued, Others, Threads, lists, statics, states, shutdown
  <1>18. ASSUME NEW t \in Threads, End(t) PROVE InterruptInv'
    BY <1>18 DEF End, Move, Queued, Others, Threads, lists, statics, states, shutdown
  <1>19. ASSUME NEW t \in Threads, QueueTerminate(t) PROVE InterruptInv'
    <2>1. t \in Threads /\ Queue(t, "terminate") /\ UNCHANGED <<pc, interruption_requested, wait_sleep_join, swallowed>>
      BY <1>19 DEF QueueTerminate, Others, Threads, states
    <2>2. \A s \in Threads : \A a : Queued(s, a) => Queued(s, a)'
      BY <2>1, QueueKeeps DEF APCs
    <2> QED BY <2>1, <2>2
  <1>20. ASSUME NEW t \in Targets, RequestInterrupt(t) PROVE InterruptInv'
    <2>1. t \in Threads /\ Queue(t, "interrupt") /\ UNCHANGED <<pc, wait_sleep_join>>
      BY <1>20 DEF RequestInterrupt, Threads
    <2>2. Queued(t, "interrupt")' /\ \A s \in Threads : \A a : Queued(s, a) => Queued(s, a)'
      BY <2>1, QueueKeeps DEF APCs
    <2>3. \A s \in Threads \ {t} : UNCHANGED <<interruption_requested[s], swallowed[s]>>
      BY <1>20 DEF RequestInterrupt
    <2> QED BY <2>1, <2>2, <2>3
  <1>21. ASSUME NEW t \in Targets, RequestAbort(t) PROVE InterruptInv'
    <2>1. t \in Threads /\ Queue(t, "abort") /\ UNCHANGED <<pc, interruption_requested, wait_sleep_join, swallowed>>
      BY <1>21 DEF RequestAbort, Abort, Others, Threads, states
    <2>2. \A s \in Threads : \A a : Queued(s, a) => Queued(s, a)'
      BY <2>1, QueueKeeps DEF APCs
    <2> QED BY <2>1, <2>2
  <1>22. ASSUME NEW t \in Internal, Stop(t) PROVE InterruptInv'
    <2>1. t \in Threads /\ Queue(t, "abort") /\ UNCHANGED <<pc, interruption_requested, wait_sleep_join, swallowed>>
      BY <1>22 DEF Stop, Abort, Others, Threads, states
    <2>2. \A s \in Threads : \A a : Queued(s, a) => Queued(s, a)'
      BY <2>1, QueueKeeps DEF APCs
    <2> QED BY <2>1, <2>2
  <1>23. CASE AllocThreadStaticData
    BY <1>23 DEF AllocThreadStaticData, Move, Queued, Others, Threads, lists, statics, states, shutdown
  <1>24. CASE BlockNewThreads
    BY <1>24 DEF BlockNewThreads, Move, Queued, Others, Threads, lists, statics, states, shutdown
  <1>25. CASE StopReturns
    BY <1>25 DEF StopReturns, Move, Queued, Others, Threads, lists, statics, states, shutdown
  <1>26. CASE AllQueued
    BY <1>26 DEF AllQueued, Move, Queued, Others, Threads, lists, statics, states, shutdown
  <1>27. CASE Joined
    BY <1>27 DEF Joined, Move, Queued, Others, Threads, lists, statics, states, shutdown
  <1>28. CASE AskAgain
    <2>1. Head(active) \in Threads
      BY <1>28 DEF AskAgain, TypeOK, Others
    <2>2. Queue(Head(active), "terminate") /\ UNCHANGED <<pc, states>>
      BY <1>28 DEF AskAgain
    <2>3. \A s \in Threads : \A a : Queued(s, a) => Queued(s, a)'
      BY <2>1, <2>2, QueueKeeps DEF APCs
    <2> QED BY <2>2, <2>3 DEF states
  <1>29. CASE PutBack
    BY <1>29 DEF PutBack, Move, Queued, Others, Threads, lists, statics, states, shutdown
  <1>30. CASE Uninitialize
    BY <1>30 DEF Uninitialize, Move, Queued, Others, Threads, lists, statics, states, shutdown
  <1>31. CASE UNCHANGED vars
    BY <1>31 DEF vars, lists, statics, states, shutdown, Move, Queued, Others, Threads, lists, statics, states, shutdown
  <1> QED
    BY <1>1, <1>2, <1>3, <1>4, <1>5, <1>6, <1>7, <1>8, <1>9, <1>10, <1>11, <1>12, <1>13, <1>14, <1>15, <1>16, <1>17, <1>18, <1>19, <1>20, <1>21, <1>22, <1>23, <1>24, <1>25, <1>26, <1>27, <1>28, <1>29, <1>30, <1>31
    DEF Next, Living, Managed, HandleAPC, Runtime, MainStep

\* Interrupts come through: an interrupt that was requested, before the thread
\* was started, while it runs or while it waits, and however it is mixed with
\* aborts, stays queued until it is thrown, unless a wait that is not marked
\* WaitSleepJoin uses it up (CheckCurrentThreadForInterruptAndThrowIfNecessary).
THEOREM InterruptsComeThrough == Spec => []InterruptPending
  <1>1. Init => InterruptInv
    BY ThreadsAssumption DEF Init, InterruptInv, InterruptPending, Threads
  <1>2. InterruptInv => InterruptPending
    BY DEF InterruptInv
  <1> QED BY <1>1, <1>2, TypesAreCorrect, InterruptPreserved, PTL DEF Spec
=============================================================================
