-------------------------- MODULE ThreadPoolProofs --------------------------
(***************************************************************************)
(* Theorems about the thread pool: the counters are exact, there is one    *)
(* monitor thread at most and it watches every request, and the clean-up   *)
(* leaves no sleeper behind, for any number of workers and requesters.     *)
(***************************************************************************)
EXTENDS ThreadPool, FiniteSetTheorems, TLAPS

RequesterPCs == {"idle", "ensure", "mayStart", "startMonitor", "tryUnpark", "tryCreate",
                 "creating"}
MonitorPCs == {"none", "asleep", "grow", "decide", "check", "retire", "tryUnpark", "tryCreate",
               "creating"}

\* What the assumptions on the bounds mean for each of them.
LEMMA Bounds ==
    /\ MaxOutstanding \in Nat \ {0} /\ MaxPerSecond \in Nat \ {0}
    /\ MaxTries \in Nat \ {0} /\ MaxFaults \in Nat
    /\ MaxLimit \in Nat \ {0} /\ CpuCount \in Nat \ {0} /\ CpuCount \in 1 .. MaxLimit
  BY SMTT(60), BoundsAssumption

\* Where the callers may stand; worker_creation_lock is held by one of them.
CallersOK ==
    /\ \A c \in Requesters : at[c] \in RequesterPCs
    /\ at[Monitor] \in MonitorPCs
    /\ \A c, d \in Creating : c = d
    /\ Creating # {} => creation_count < MaxPerSecond

\* A request that the monitor thread may have missed is being announced.
Watched ==
    /\ outstanding_request > 0 /\ ~gave_up /\ ~shuttingDown
    /\ status = "NOT_RUNNING" \/ (at[Monitor] = "retire" /\ status = "WAITING_FOR_REQUEST")
    => \E c \in Requesters : at[c] \in {"ensure", "mayStart"}

----------------------------------------------------------------------------
\* Counting workers

\* The workers that f has at one of the labels.
At(f, labels) == {w \in Workers : f[w] \in labels}

\* The number of workers at some labels is a number.
LEMMA CountIsNat ==
    ASSUME NEW f, NEW S
    PROVE  IsFiniteSet(At(f, S)) /\ Cardinality(At(f, S)) \in Nat
  BY FiniteAssumption, FS_Subset, FS_CardinalityType DEF At

\* What a label counts for among the labels.
In(l, S) == IF l \in S THEN 1 ELSE 0

\* A worker that goes to a label is counted where the label is, and no longer
\* where its old label was.
LEMMA CountMove ==
    ASSUME NEW f, NEW g, NEW w \in Workers, NEW S, \A v \in Workers \ {w} : g[v] = f[v]
    PROVE  Cardinality(At(g, S)) + In(f[w], S) = Cardinality(At(f, S)) + In(g[w], S)
  <1> DEFINE old == At(f, S)
             new == At(g, S)
  <1>1. IsFiniteSet(old) /\ Cardinality(old) \in Nat /\ Cardinality(new) \in Nat
    BY CountIsNat
  <1>2. CASE g[w] \in S /\ f[w] \notin S
    <2>1. new = old \cup {w} /\ w \notin old
      BY <1>2 DEF At
    <2>2. Cardinality(new) = Cardinality(old) + 1
      BY <1>1, <2>1, FS_AddElement
    <2> QED BY <1>1, <1>2, <2>2 DEF In
  <1>3. CASE g[w] \notin S /\ f[w] \in S
    <2>1. new = old \ {w} /\ w \in old
      BY <1>3 DEF At
    <2>2. Cardinality(new) = Cardinality(old) - 1
      BY <1>1, <2>1, FS_RemoveElement
    <2> QED BY <1>1, <1>3, <2>2 DEF In
  <1>4. CASE g[w] \in S <=> f[w] \in S
    <2>1. new = old
      BY <1>4 DEF At
    <2> QED BY <1>1, <1>4, <2>1 DEF In
  <1> QED BY <1>2, <1>3, <1>4

\* What a move of a worker does to the number of workers at some labels.
LEMMA Move ==
    ASSUME TypeOK, NEW w \in Workers, NEW l \in WorkerPCs, Goto(w, l), NEW S
    PROVE  /\ Number(S) \in Nat /\ Number(S)' \in Nat
           /\ Number(S)' = Number(S) + In(l, S) - In(pc[w], S)
  <1>1. pc \in [Workers -> WorkerPCs] /\ pc' = [pc EXCEPT ![w] = l]
    BY DEF TypeOK, Goto
  <1>2. Number(S) = Cardinality(At(pc, S)) /\ Number(S)' = Cardinality(At(pc', S))
    BY DEF Number, At
  <1>3. Number(S) \in Nat /\ Number(S)' \in Nat
    BY <1>2, CountIsNat
  <1>4. Number(S)' + In(pc[w], S) = Number(S) + In(l, S)
    <2>1. pc'[w] = l /\ \A v \in Workers \ {w} : pc'[v] = pc[v]
      BY <1>1
    <2>2. Cardinality(At(pc', S)) + In(pc[w], S) = Cardinality(At(pc, S)) + In(pc'[w], S)
      BY <2>1, CountMove
    <2> QED BY <1>2, <2>1, <2>2
  <1>5. In(pc[w], S) \in {0, 1} /\ In(l, S) \in {0, 1}
    BY DEF In
  <1> QED BY <1>3, <1>4, <1>5

\* No worker moves: nothing is counted anew.
LEMMA NobodyMoves ==
    ASSUME NEW S, UNCHANGED pc
    PROVE  Number(S)' = Number(S) /\ Number(S) \in Nat
  <1>1. Number(S) = Cardinality(At(pc, S)) /\ Number(S)' = Cardinality(At(pc', S))
    BY DEF Number, At
  <1> QED BY <1>1, CountIsNat

\* The callers that create a worker can be counted.
LEMMA CreatingIsNat ==
    /\ IsFiniteSet(Creating) /\ Cardinality(Creating) \in Nat
    /\ Cardinality(Creating)' \in Nat
  <1>1. IsFiniteSet(Callers)
    BY FiniteAssumption, FS_AddElement DEF Callers
  <1>2. Creating \subseteq Callers /\ Creating' \subseteq Callers
    BY DEF Creating
  <1> QED BY <1>1, <1>2, FS_Subset, FS_CardinalityType

----------------------------------------------------------------------------
\* The workers keep the counters exact.

\* It is enough that a step changes every counter by what the new label of the
\* worker counts for and the old one did.
LEMMA MoveKeepsCounters ==
    ASSUME TypeOK, CountersExact, NEW w \in Workers, NEW l \in WorkerPCs, Goto(w, l),
           Creating' = Creating,
           working' = working + In(l, Working) - In(pc[w], Working),
           parked' = parked + In(l, Parked) - In(pc[w], Parked),
           active' - active = (working' - working) + (parked' - parked),
           parked_threads_count'
               = parked_threads_count + In(l, Waiting) - In(pc[w], Waiting),
           waiters' + wakeups'
               = waiters + wakeups + In(l, {"waiting"}) - In(pc[w], {"waiting"}),
           threadpool_jobs' = threadpool_jobs + In(l, Busy) - In(pc[w], Busy),
           active' \in Int,
           working_threads'
               = IF l \in Listed THEN working_threads \cup {w} ELSE working_threads \ {w}
    PROVE  CountersExact'
  <1>1. /\ working \in Nat /\ parked \in Nat /\ active \in Nat
        /\ Cardinality(Creating) \in Nat
    BY CreatingIsNat DEF TypeOK
  <1>2. ASSUME NEW S PROVE In(l, S) \in {0, 1} /\ In(pc[w], S) \in {0, 1}
    BY DEF In
  <1>3. ASSUME NEW S
        PROVE  /\ Number(S) \in Nat /\ Number(S)' \in Nat
               /\ Number(S)' = Number(S) + In(l, S) - In(pc[w], S)
    BY Move
  <1>4. working' = Number(Working)' + Cardinality(Creating)'
    BY <1>1, <1>2, <1>3 DEF CountersExact
  <1>5. parked' = Number(Parked)'
    BY <1>2, <1>3 DEF CountersExact
  <1>6. active' = working' + parked'
    BY <1>1, <1>2 DEF CountersExact
  <1>7. parked_threads_count' = Number(Waiting)'
    BY <1>2, <1>3 DEF CountersExact
  <1>8. waiters' + wakeups' = Number({"waiting"})'
    BY <1>2, <1>3 DEF CountersExact
  <1>9. threadpool_jobs' = Number(Busy)'
    BY <1>2, <1>3 DEF CountersExact
  <1>10. working_threads' = {v \in Workers : pc'[v] \in Listed}
    BY DEF CountersExact, TypeOK, Goto
  <1> QED BY <1>4, <1>5, <1>6, <1>7, <1>8, <1>9, <1>10 DEF CountersExact

\* A step of a worker keeps the counters exact (worker_thread, worker_park and the
\* destructors that take a worker out of the count).
LEMMA WorkerKeepsCounters ==
    ASSUME TypeOK, CountersExact, NEW w \in Workers,
           WorkerStep(w) \/ JobThrows(w) \/ Adjust(w) \/ TimeOut(w)
    PROVE  CountersExact'
  <1> USE DEF ByWorker, counters, domain, listed, cond, watch, outside
  <1>1. Creating' = Creating
    BY DEF WorkerStep, WorkerStarts, WorkerLooks, JobEnds, StopWorking, Park, WakeUp, LeavePark,
           WorkAgain, WorkerEnds, CountOut, JobThrows, Adjust, TimeOut, Creating
  <1>2. /\ active \in Nat /\ working \in Nat /\ parked \in Nat /\ parked_threads_count \in Nat
        /\ waiters \in Nat /\ wakeups \in Nat /\ threadpool_jobs \in Nat
        /\ working_threads = {v \in Workers : pc[v] \in Listed}
    BY DEF TypeOK, CountersExact
  <1>3. CASE WorkerStarts(w)
    BY <1>1, <1>2, <1>3, MoveKeepsCounters DEF WorkerStarts, WorkerPCs, In, Working, Parked, Waiting, Busy, Listed
  <1>4. CASE JobEnds(w)
    <2>1. CASE Goto(w, "done")
      BY <1>1, <1>2, <1>4, <2>1, MoveKeepsCounters DEF JobEnds, WorkerPCs, In, Working, Parked, Waiting, Busy, Listed
    <2>2. CASE Goto(w, "retire")
      BY <1>1, <1>2, <1>4, <2>2, MoveKeepsCounters DEF JobEnds, WorkerPCs, In, Working, Parked, Waiting, Busy, Listed
    <2> QED BY <1>4, <2>1, <2>2 DEF JobEnds
  <1>5. CASE JobThrows(w)
    BY <1>1, <1>2, <1>5, MoveKeepsCounters DEF JobThrows, WorkerPCs, In, Working, Parked, Waiting, Busy, Listed
  <1>6. CASE StopWorking(w)
    BY <1>1, <1>2, <1>6, MoveKeepsCounters DEF StopWorking, WorkerPCs, In, Working, Parked, Waiting, Busy, Listed
  <1>7. CASE Park(w)
    <2>1. CASE Goto(w, "unpark")
      BY <1>1, <1>2, <1>7, <2>1, MoveKeepsCounters DEF Park, WorkerPCs, In, Working, Parked, Waiting, Busy, Listed
    <2>2. CASE Goto(w, "waiting")
      BY <1>1, <1>2, <1>7, <2>2, MoveKeepsCounters DEF Park, WorkerPCs, In, Working, Parked, Waiting, Busy, Listed
    <2> QED BY <1>7, <2>1, <2>2 DEF Park
  <1>8. CASE WakeUp(w)
    BY <1>1, <1>2, <1>8, MoveKeepsCounters DEF WakeUp, WorkerPCs, In, Working, Parked, Waiting, Busy, Listed
  <1>9. CASE TimeOut(w)
    BY <1>1, <1>2, <1>9, MoveKeepsCounters DEF TimeOut, WorkerPCs, In, Working, Parked, Waiting, Busy, Listed
  <1>10. CASE LeavePark(w)
    <2>1. CASE Goto(w, "unpark")
      BY <1>1, <1>2, <1>10, <2>1, MoveKeepsCounters DEF LeavePark, WorkerPCs, In, Working, Parked, Waiting, Busy, Listed
    <2>2. CASE Goto(w, "leave")
      BY <1>1, <1>2, <1>10, <2>2, MoveKeepsCounters DEF LeavePark, WorkerPCs, In, Working, Parked, Waiting, Busy, Listed
    <2> QED BY <1>10, <2>1, <2>2 DEF LeavePark
  <1>11. CASE WorkAgain(w)
    <2>1. CASE Goto(w, "look")
      BY <1>1, <1>2, <1>11, <2>1, MoveKeepsCounters DEF WorkAgain, WorkerPCs, In, Working, Parked, Waiting, Busy, Listed
    <2>2. CASE Goto(w, "end")
      BY <1>1, <1>2, <1>11, <2>2, MoveKeepsCounters DEF WorkAgain, WorkerPCs, In, Working, Parked, Waiting, Busy, Listed
    <2> QED BY <1>11, <2>1, <2>2 DEF WorkAgain
  <1>12. CASE WorkerEnds(w)
    BY <1>1, <1>2, <1>12, MoveKeepsCounters DEF WorkerEnds, WorkerPCs, In, Working, Parked, Waiting, Busy, Listed
  <1>13. CASE CountOut(w)
    BY <1>1, <1>2, <1>13, MoveKeepsCounters DEF CountOut, WorkerPCs, In, Working, Parked, Waiting, Busy, Listed
  <1>14. CASE WorkerLooks(w)
    <2>1. CASE Goto(w, "end")
      BY <1>1, <1>2, <1>14, <2>1, MoveKeepsCounters DEF WorkerLooks, WorkerPCs, In, Working, Parked, Waiting, Busy, Listed
    <2>2. CASE Goto(w, "park")
      BY <1>1, <1>2, <1>14, <2>2, MoveKeepsCounters DEF WorkerLooks, WorkerPCs, In, Working, Parked, Waiting, Busy, Listed
    <2>3. CASE Goto(w, "job")
      BY <1>1, <1>2, <1>14, <2>3, MoveKeepsCounters DEF WorkerLooks, WorkerPCs, In, Working, Parked, Waiting, Busy, Listed
    <2> QED BY <1>14, <2>1, <2>2, <2>3 DEF WorkerLooks
  <1>15. CASE Adjust(w)
    BY <1>1, <1>15, NobodyMoves DEF Adjust, CountersExact
  <1> QED BY <1>3, <1>4, <1>5, <1>6, <1>7, <1>8, <1>9, <1>10, <1>11, <1>12, <1>13, <1>14, <1>15 DEF WorkerStep

----------------------------------------------------------------------------
\* The callers stand where they may, and one of them at most creates a worker.

\* What the steps of the workers, of the clean-up and of managed code that sets
\* the limits leave alone.
LEMMA OthersLeaveCallers ==
    ASSUME \/ \E w \in Workers : WorkerStep(w) \/ JobThrows(w) \/ Adjust(w) \/ TimeOut(w)
           \/ \E n \in 1 .. MaxLimit : SetMinThreads(n) \/ SetMaxThreads(n)
           \/ Shutdown \/ CleanupStep \/ UNCHANGED vars
    PROVE  UNCHANGED <<at, creation_count, status, gave_up, tries>>
  BY DEF WorkerStep, WorkerStarts, WorkerLooks, JobEnds, StopWorking, Park, WakeUp, LeavePark,
         WorkAgain, WorkerEnds, CountOut, JobThrows, Adjust, TimeOut, ByWorker, SetMinThreads,
         SetMaxThreads, SetThreads, Shutdown, CleanupStep, StopWorkers, NotifyAll, ByCleanup,
         watch, vars

\* At most one caller creates a worker, and only the monitor thread and the
\* requesters that have come so far do (worker_creation_lock).
LEMMA CallersKept ==
    ASSUME TypeOK, CallersOK, OneMonitor, [Next]_vars
    PROVE  CallersOK'
  <1>0. Monitor \notin Requesters /\ MaxPerSecond \in Nat \ {0}
    BY MonitorAssumption, Bounds
  <1> USE DEF Callers, TypeOK, CallersOK, RequesterPCs, MonitorPCs, Proceed, Creating
  <1>1. ASSUME NEW c \in Requesters, Request(c) \/ RequestStep(c) PROVE CallersOK'
    <2>1. CASE Request(c)
      <3>1. at' = [at EXCEPT ![c] = "ensure"] /\ creation_count' = creation_count
        BY <2>1 DEF Request
      <3>2. Creating' = Creating
        BY <1>1, <2>1, <3>1 DEF Request
      <3> QED BY <1>0, <3>1, <3>2
    <2>2. CASE EnsureRunning(c)
      BY <1>0, <2>2 DEF EnsureRunning, NoRequest
    <2>3. CASE MayStart(c)
      BY <1>0, <2>3 DEF MayStart, NoRequest
    <2>4. CASE StartMonitor(c)
      BY <1>0, <2>4 DEF StartMonitor, NoRequest, OneMonitor, Starting
    <2> QED BY <1>1, <2>1, <2>2, <2>3, <2>4 DEF RequestStep
  <1>2. ASSUME NEW c \in Callers, CallerStep(c) PROVE CallersOK'
    <2>1. CASE TryUnpark(c)
      BY <1>0, <2>1 DEF TryUnpark, Done
    <2>2. ASSUME NEW n \in 0 .. MaxPerSecond, TryCreate(c, n) PROVE CallersOK'
      BY <1>0, <2>2 DEF TryCreate, NoWorker, Done
    <2>3. CASE CreateWorker(c)
      BY <1>0, <2>3 DEF CreateWorker, Done
    <2>4. CASE CreateFails(c)
      BY <1>0, <2>4 DEF CreateFails, NoWorker, Done
    <2> QED BY <1>2, <2>1, <2>2, <2>3, <2>4 DEF CallerStep
  <1>3. CASE MonitorStep
    BY <1>0, <1>3 DEF MonitorStep, MonitorLooks, Grow, Decide, Check, Retire, ByMonitor
  <1>4. CASE UNCHANGED <<at, creation_count>>
    BY <1>4
  <1> QED BY SMTT(30), <1>1, <1>2, <1>3, <1>4, OthersLeaveCallers DEF Next

----------------------------------------------------------------------------
\* The monitor thread

\* The status and the monitor thread go together in every step.
LEMMA OneMonitorKept ==
    ASSUME TypeOK, CallersOK, OneMonitor, [Next]_vars
    PROVE  OneMonitor'
  <1> USE DEF Callers, TypeOK, CallersOK, RequesterPCs, MonitorPCs, Proceed, OneMonitor, Starting,
              watch
  <1>0. Monitor \notin Requesters
    BY MonitorAssumption
  <1>1. ASSUME NEW c \in Requesters, Request(c) \/ RequestStep(c) PROVE OneMonitor'
    <2>1. CASE Request(c)
      BY <1>0, <2>1 DEF Request
    <2>2. CASE EnsureRunning(c)
      BY <1>0, <2>2 DEF EnsureRunning
    <2>3. CASE MayStart(c)
      BY <1>0, <2>3 DEF MayStart
    <2>4. CASE StartMonitor(c)
      BY <1>0, <2>4 DEF StartMonitor
    <2> QED BY <1>1, <2>1, <2>2, <2>3, <2>4 DEF RequestStep
  <1>2. ASSUME NEW c \in Callers, CallerStep(c) PROVE OneMonitor'
    <2>1. CASE TryUnpark(c)
      BY <1>0, <2>1 DEF TryUnpark, Done
    <2>2. ASSUME NEW n \in 0 .. MaxPerSecond, TryCreate(c, n) PROVE OneMonitor'
      BY <1>0, <2>2 DEF TryCreate, NoWorker, Done
    <2>3. CASE CreateWorker(c)
      BY <1>0, <2>3 DEF CreateWorker, Done
    <2>4. CASE CreateFails(c)
      BY <1>0, <2>4 DEF CreateFails, NoWorker, Done
    <2> QED BY <1>2, <2>1, <2>2, <2>3, <2>4 DEF CallerStep
  <1>3. CASE MonitorStep
    BY <1>0, <1>3 DEF MonitorStep, MonitorLooks, Grow, Decide, Check, Retire, ByMonitor
  <1>4. CASE UNCHANGED <<at, status>>
    BY <1>4
  <1> QED BY <1>1, <1>2, <1>3, <1>4, OthersLeaveCallers DEF Next

----------------------------------------------------------------------------
\* A request that the monitor thread may miss is being announced.

\* A request stays watched in every step.
LEMMA WatchedKept ==
    ASSUME TypeOK, CallersOK, OneMonitor, Watched, [Next]_vars
    PROVE  Watched'
  <1> USE DEF Callers, TypeOK, CallersOK, RequesterPCs, MonitorPCs, Proceed, OneMonitor, Starting,
              Watched, watch, ending
  <1>0. Monitor \notin Requesters
    BY MonitorAssumption
  <1>1. ASSUME NEW w \in Workers, WorkerStep(w) \/ JobThrows(w) \/ Adjust(w) \/ TimeOut(w)
        PROVE  Watched'
    <2>1. outstanding_request' > 0 => outstanding_request > 0
      BY <1>1 DEF WorkerStep, WorkerStarts, WorkerLooks, JobEnds, StopWorking, Park, WakeUp,
                  LeavePark, WorkAgain, WorkerEnds, CountOut, JobThrows, Adjust, TimeOut, domain
    <2>2. UNCHANGED <<at, status, gave_up, shuttingDown>>
      BY <1>1 DEF WorkerStep, WorkerStarts, WorkerLooks, JobEnds, StopWorking, Park, WakeUp,
                  LeavePark, WorkAgain, WorkerEnds, CountOut, JobThrows, Adjust, TimeOut, ByWorker
    <2> QED BY <2>1, <2>2
  <1>2. ASSUME NEW c \in Requesters, Request(c) \/ RequestStep(c) PROVE Watched'
    <2>1. CASE Request(c)
      BY <1>0, <2>1 DEF Request
    <2>2. CASE EnsureRunning(c)
      BY <1>0, <2>2 DEF EnsureRunning, NoRequest, ByCaller
    <2>3. CASE MayStart(c)
      BY <1>0, <2>3 DEF MayStart, NoRequest, ByCaller
    <2>4. CASE StartMonitor(c)
      BY <1>0, <2>4 DEF StartMonitor, NoRequest, ByCaller
    <2> QED BY <1>2, <2>1, <2>2, <2>3, <2>4 DEF RequestStep
  <1>3. ASSUME NEW c \in Callers, CallerStep(c) PROVE Watched'
    <2>1. CASE TryUnpark(c)
      BY <1>0, <2>1 DEF TryUnpark, Done, ByCaller
    <2>2. ASSUME NEW n \in 0 .. MaxPerSecond, TryCreate(c, n) PROVE Watched'
      BY <1>0, <2>2 DEF TryCreate, NoWorker, Done, ByCaller
    <2>3. CASE CreateWorker(c)
      BY <1>0, <2>3 DEF CreateWorker, Done, ByCaller
    <2>4. CASE CreateFails(c)
      BY <1>0, <2>4 DEF CreateFails, NoWorker, Done, ByCaller
    <2> QED BY <1>3, <2>1, <2>2, <2>3, <2>4 DEF CallerStep
  <1>4. CASE MonitorStep
    BY <1>0, <1>4 DEF MonitorStep, MonitorLooks, Grow, Decide, Check, Retire, ByMonitor, domain
  <1>5. CASE \E n \in 1 .. MaxLimit : SetMinThreads(n) \/ SetMaxThreads(n)
    BY <1>5 DEF SetMinThreads, SetMaxThreads, SetThreads, domain
  <1>6. CASE Shutdown \/ CleanupStep
    BY <1>6 DEF Shutdown, CleanupStep, StopWorkers, NotifyAll, ByCleanup, domain
  <1>7. CASE UNCHANGED vars
    BY <1>7 DEF vars, domain
  <1> QED BY <1>1, <1>2, <1>3, <1>4, <1>5, <1>6, <1>7 DEF Next

----------------------------------------------------------------------------
\* The clean-up

\* The clean-up belongs to the shutdown, and it has woken every sleeper.
CleanupOK == (cleanup = "none" <=> ~shuttingDown) /\ NoSleeperLeft

\* NotifyAll wakes every sleeper, and nobody goes to sleep after it.
LEMMA CleanupKept ==
    ASSUME TypeOK, CleanupOK, [Next]_vars
    PROVE  CleanupOK'
  <1> USE DEF TypeOK, CleanupOK, NoSleeperLeft
  <1>1. ASSUME NEW w \in Workers, WorkerStep(w) \/ JobThrows(w) \/ Adjust(w) \/ TimeOut(w)
        PROVE  CleanupOK'
    BY <1>1 DEF WorkerStep, WorkerStarts, WorkerLooks, JobEnds, StopWorking, Park, WakeUp,
                LeavePark, WorkAgain, WorkerEnds, CountOut, JobThrows, Adjust, TimeOut, ByWorker,
                cond
  <1>2. ASSUME NEW c \in Requesters, Request(c) \/ RequestStep(c) PROVE CleanupOK'
    BY <1>2 DEF RequestStep, Request, EnsureRunning, MayStart, StartMonitor, NoRequest, ByCaller,
                cond, ending
  <1>3. ASSUME NEW c \in Callers, CallerStep(c) PROVE CleanupOK'
    BY <1>3 DEF CallerStep, TryUnpark, TryCreate, CreateWorker, CreateFails, NoWorker, Done,
                Notify, ByCaller, cond, ending
  <1>4. CASE MonitorStep
    BY <1>4 DEF MonitorStep, MonitorLooks, Grow, Decide, Check, Retire, ByMonitor, cond, ending
  <1>5. CASE \E n \in 1 .. MaxLimit : SetMinThreads(n) \/ SetMaxThreads(n)
    BY <1>5 DEF SetMinThreads, SetMaxThreads, SetThreads, cond, ending
  <1>6. CASE Shutdown \/ CleanupStep
    BY <1>6 DEF Shutdown, CleanupStep, StopWorkers, NotifyAll, ByCleanup
  <1>7. CASE UNCHANGED vars
    BY <1>7 DEF vars, ending, cond
  <1> QED BY <1>1, <1>2, <1>3, <1>4, <1>5, <1>6, <1>7 DEF Next

----------------------------------------------------------------------------
\* The callers keep the counters exact.

\* It is enough that a step in which no worker moves counts the workers that
\* are being created.
LEMMA NobodyMovesKeepsCounters ==
    ASSUME TypeOK, CountersExact, UNCHANGED <<pc, parked, listed, threadpool_jobs>>,
           waiters' + wakeups' = waiters + wakeups,
           working' = working + Cardinality(Creating)' - Cardinality(Creating),
           active' = active + Cardinality(Creating)' - Cardinality(Creating)
    PROVE  CountersExact'
  <1>1. /\ working \in Nat /\ parked \in Nat /\ active \in Nat
        /\ Cardinality(Creating) \in Nat /\ Cardinality(Creating)' \in Nat
    BY CreatingIsNat DEF TypeOK
  <1>2. ASSUME NEW S PROVE Number(S)' = Number(S) /\ Number(S) \in Nat
    BY NobodyMoves
  <1>3. working' = Number(Working)' + Cardinality(Creating)'
    BY <1>1, <1>2 DEF CountersExact
  <1>4. active' = working' + parked'
    BY <1>1, <1>2 DEF CountersExact
  <1>5. working_threads' = {v \in Workers : pc'[v] \in Listed}
    BY DEF CountersExact, listed
  <1> QED BY <1>2, <1>3, <1>4, <1>5 DEF CountersExact, listed

\* A step of worker_request or monitor_ensure_running keeps the counters exact.
LEMMA RequestersKeepCounters ==
    ASSUME TypeOK, CallersOK, OneMonitor, CountersExact,
           NEW c \in Requesters, Request(c) \/ RequestStep(c)
    PROVE  CountersExact'
  <1>0. Monitor \notin Requesters
    BY MonitorAssumption
  <1>1. UNCHANGED <<pc, parked, listed, threadpool_jobs, working, active, waiters, wakeups>>
    BY DEF RequestStep, Request, EnsureRunning, MayStart, StartMonitor, NoRequest, ByCaller, cond
  <1>2. Creating' = Creating
    <2> USE DEF Creating, Callers, TypeOK, Proceed
    <2>1. CASE Request(c)
      BY <1>0, <2>1 DEF Request
    <2>2. CASE EnsureRunning(c)
      BY <1>0, <2>2 DEF EnsureRunning
    <2>3. CASE MayStart(c)
      BY <1>0, <2>3 DEF MayStart
    <2>4. CASE StartMonitor(c)
      BY <1>0, <2>4 DEF StartMonitor, OneMonitor, Starting
    <2> QED BY <2>1, <2>2, <2>3, <2>4 DEF RequestStep
  <1> QED BY <1>1, <1>2, CreatingIsNat, NobodyMovesKeepsCounters DEF TypeOK

\* So does finding a worker, for a requester and for the monitor thread, a
\* creation that fails included.
LEMMA CallersKeepCounters ==
    ASSUME TypeOK, CallersOK, CountersExact, NEW c \in Callers, CallerStep(c)
    PROVE  CountersExact'
  <1> USE DEF TypeOK, Proceed, Done, ByCaller
  <1>0. /\ working \in Nat /\ active \in Nat /\ waiters \in Nat /\ wakeups \in Nat
        /\ IsFiniteSet(Creating) /\ Cardinality(Creating) \in Nat
    BY CreatingIsNat
  <1>1. CASE TryUnpark(c)
    <2>1. Creating' = Creating
      BY <1>1 DEF TryUnpark, Creating
    <2>2. /\ UNCHANGED <<pc, parked, listed, threadpool_jobs, working, active>>
          /\ waiters' + wakeups' = waiters + wakeups
      BY <1>0, <1>1 DEF TryUnpark, Notify, cond
    <2> QED BY <1>0, <2>1, <2>2, NobodyMovesKeepsCounters
  <1>2. ASSUME NEW n \in 0 .. MaxPerSecond, TryCreate(c, n) PROVE CountersExact'
    <2>1. UNCHANGED <<pc, parked, listed, threadpool_jobs, waiters, wakeups>>
      BY <1>2 DEF TryCreate, cond
    <2>2. CASE UNCHANGED <<working, active>> /\ NoWorker(c)
      <3>1. Creating' = Creating
        BY <1>2, <2>2 DEF TryCreate, NoWorker, Creating
      <3> QED BY <1>0, <2>1, <2>2, <3>1, NobodyMovesKeepsCounters
    <2>3. CASE Proceed(c, "creating") /\ working' = working + 1 /\ active' = active + 1
      <3>1. Creating' = Creating \cup {c} /\ c \notin Creating
        BY <1>2, <2>3 DEF TryCreate, Creating
      <3>2. Cardinality(Creating)' = Cardinality(Creating) + 1
        BY <1>0, <3>1, FS_AddElement
      <3> QED BY <1>0, <2>1, <2>3, <3>2, NobodyMovesKeepsCounters
    <2> QED BY <1>2, <2>2, <2>3 DEF TryCreate
  <1>3. CASE CreateWorker(c)
    <2>1. Creating' = Creating \ {c} /\ c \in Creating
      BY <1>3 DEF CreateWorker, Creating
    <2>2. Cardinality(Creating)' = Cardinality(Creating) - 1
      BY <1>0, <2>1, FS_RemoveElement
    <2>3. PICK w \in Workers : pc[w] = "none" /\ Goto(w, "created")
      BY <1>3 DEF CreateWorker
    <2>4. ASSUME NEW S
          PROVE  /\ Number(S) \in Nat /\ Number(S)' \in Nat
                 /\ Number(S)' = Number(S) + In("created", S) - In("none", S)
      BY <2>3, Move DEF WorkerPCs
    <2>5. /\ Number(Working)' = Number(Working) + 1
          /\ Number(Parked)' = Number(Parked) /\ Number(Waiting)' = Number(Waiting)
          /\ Number({"waiting"})' = Number({"waiting"}) /\ Number(Busy)' = Number(Busy)
      BY <2>4 DEF WorkerPCs, In, Working, Parked, Waiting, Busy
    <2>6. working' = Number(Working)' + Cardinality(Creating)'
      BY <1>0, <1>3, <2>2, <2>4, <2>5 DEF CreateWorker, CountersExact
    <2>7. working_threads' = {v \in Workers : pc'[v] \in Listed}
      BY <1>3, <2>3 DEF CreateWorker, CountersExact, Goto, listed, Listed, Busy
    <2> QED BY <1>3, <2>5, <2>6, <2>7 DEF CreateWorker, CountersExact, listed, cond
  <1>4. CASE CreateFails(c)
    <2>1. Creating' = Creating \ {c} /\ c \in Creating
      BY <1>4 DEF CreateFails, NoWorker, Creating
    <2>2. Cardinality(Creating)' = Cardinality(Creating) - 1
      BY <1>0, <2>1, FS_RemoveElement
    <2>3. /\ UNCHANGED <<pc, parked, listed, threadpool_jobs, waiters, wakeups>>
          /\ working' = working - 1 /\ active' = active - 1
      BY <1>4 DEF CreateFails, cond
    <2> QED BY <1>0, <2>2, <2>3, NobodyMovesKeepsCounters
  <1> QED BY <1>1, <1>2, <1>3, <1>4 DEF CallerStep

\* Every step keeps the counters exact.
LEMMA CountersKept ==
    ASSUME TypeOK, CallersOK, OneMonitor, CountersExact, [Next]_vars
    PROVE  CountersExact'
  <1>1. CASE MonitorStep
    <2>1. Creating' = Creating
      BY <1>1 DEF MonitorStep, MonitorLooks, Grow, Decide, Check, Retire, Creating, Callers,
                  TypeOK, Proceed
    <2>2. UNCHANGED <<pc, parked, listed, threadpool_jobs, working, active, waiters, wakeups>>
      BY <1>1 DEF MonitorStep, MonitorLooks, Grow, Decide, Check, Retire, ByMonitor, domain, cond
    <2> QED BY <2>1, <2>2, CreatingIsNat, NobodyMovesKeepsCounters DEF TypeOK
  <1>2. CASE \/ \E n \in 1 .. MaxLimit : SetMinThreads(n) \/ SetMaxThreads(n)
             \/ Shutdown \/ CleanupStep \/ UNCHANGED vars
    <2>1. Creating' = Creating
      BY <1>2, OthersLeaveCallers DEF Creating
    <2>2. /\ UNCHANGED <<pc, parked, listed, threadpool_jobs, working, active>>
          /\ waiters' + wakeups' = waiters + wakeups
      BY <1>2 DEF SetMinThreads, SetMaxThreads, SetThreads, Shutdown, CleanupStep, StopWorkers,
                  NotifyAll, ByCleanup, counters, domain, cond, vars, TypeOK
    <2> QED BY <2>1, <2>2, CreatingIsNat, NobodyMovesKeepsCounters DEF TypeOK
  <1> QED BY <1>1, <1>2, WorkerKeepsCounters, RequestersKeepCounters, CallersKeepCounters DEF Next

----------------------------------------------------------------------------
\* Types

\* A counter that is exact is a number.
ExactTypes ==
    /\ working \in Nat /\ parked \in Nat /\ active \in Nat
    /\ parked_threads_count \in Nat /\ threadpool_jobs \in Nat
    /\ working_threads \subseteq Workers
\* Counters that are exact are numbers.
LEMMA ExactIsNat == CountersExact => ExactTypes
  <1>1. ASSUME NEW S PROVE Number(S) \in Nat
    BY SMTT(30), CountIsNat DEF Number, At
  <1> QED BY <1>1, CreatingIsNat DEF CountersExact, ExactTypes

\* The part of TypeOK that does not follow from exact counters.
OtherTypes ==
    /\ shuttingDown \in BOOLEAN /\ gave_up \in BOOLEAN
    /\ outstanding_request \in 0 .. MaxOutstanding
    /\ limit_worker_min \in 1 .. limit_worker_max
    /\ limit_worker_max \in CpuCount .. MaxLimit
    /\ max_working \in 1 .. MaxLimit
    /\ waiters \in Nat /\ wakeups \in Nat
    /\ creation_count \in 0 .. MaxPerSecond
    /\ status \in {"NOT_RUNNING", "REQUESTED", "WAITING_FOR_REQUEST"}
    /\ pc \in [Workers -> WorkerPCs]
    /\ at \in [Callers -> CallerPCs] /\ tries \in 0 .. MaxTries
    /\ cleanup \in {"none", "awaitMonitor", "stop", "cleaned"} /\ to_stop \subseteq Workers
    /\ faults \in 0 .. MaxFaults

\* Every step keeps the types that do not follow from the counters.
LEMMA OtherTypesKept ==
    ASSUME TypeOK, CallersOK, [Next]_vars
    PROVE  OtherTypes'
  <1> USE DEF OtherTypes, WorkerPCs, CallerPCs, Goto, Proceed
  <1>0. /\ MaxOutstanding \in Nat /\ MaxLimit \in Nat /\ CpuCount \in Nat \ {0}
        /\ MaxPerSecond \in Nat /\ MaxTries \in Nat /\ MaxFaults \in Nat
        /\ OtherTypes /\ working_threads \subseteq Workers
    <2>1. /\ MaxOutstanding \in Nat /\ MaxLimit \in Nat /\ CpuCount \in Nat \ {0}
          /\ MaxPerSecond \in Nat /\ MaxTries \in Nat /\ MaxFaults \in Nat
      BY Bounds
    <2>2. OtherTypes /\ working_threads \subseteq Workers
      BY Zenon DEF TypeOK
    <2> QED BY <2>1, <2>2
  <1>1. ASSUME NEW w \in Workers, WorkerStep(w) \/ JobThrows(w) \/ Adjust(w) \/ TimeOut(w)
        PROVE  OtherTypes'
    <2>1. UNCHANGED <<shuttingDown, gave_up, creation_count, status, at, tries, cleanup, outside>>
      BY <1>1 DEF WorkerStep, WorkerStarts, WorkerLooks, JobEnds, StopWorking, Park, WakeUp,
                  LeavePark, WorkAgain, WorkerEnds, CountOut, JobThrows, Adjust, TimeOut,
                  ByWorker, watch
    <2>2. outstanding_request' \in 0 .. MaxOutstanding
      BY <1>0, <1>1 DEF WorkerStep, WorkerStarts, WorkerLooks, JobEnds, StopWorking, Park, WakeUp,
                  LeavePark, WorkAgain, WorkerEnds, CountOut, JobThrows, Adjust, TimeOut, domain
    <2>3. max_working' \in 1 .. MaxLimit
      BY <1>0, <1>1 DEF WorkerStep, WorkerStarts, WorkerLooks, JobEnds, StopWorking, Park, WakeUp,
                  LeavePark, WorkAgain, WorkerEnds, CountOut, JobThrows, Adjust, TimeOut, counters
    <2>4. waiters' \in Nat /\ wakeups' \in Nat
      BY <1>0, <1>1 DEF WorkerStep, WorkerStarts, WorkerLooks, JobEnds, StopWorking, Park, WakeUp,
                  LeavePark, WorkAgain, WorkerEnds, CountOut, JobThrows, Adjust, TimeOut, cond
    <2>5. pc' \in [Workers -> WorkerPCs]
      BY <1>0, <1>1 DEF WorkerStep, WorkerStarts, WorkerLooks, JobEnds, StopWorking, Park, WakeUp,
                  LeavePark, WorkAgain, WorkerEnds, CountOut, JobThrows, Adjust, TimeOut
    <2>6. to_stop' \subseteq Workers
      BY <1>0, <1>1 DEF WorkerStep, WorkerStarts, WorkerLooks, JobEnds, StopWorking, Park, WakeUp,
                  LeavePark, WorkAgain, WorkerEnds, CountOut, JobThrows, Adjust, TimeOut
    <2> QED BY <1>0, <2>1, <2>2, <2>3, <2>4, <2>5, <2>6 DEF outside
  <1>2. ASSUME NEW c \in Requesters, Request(c) \/ RequestStep(c) PROVE OtherTypes'
    <2> USE DEF Callers, ByCaller, NoRequest, ending, watch, cond
    <2>1. CASE Request(c)
      BY <1>0, <2>1 DEF Request
    <2>2. CASE EnsureRunning(c)
      BY <1>0, <2>2 DEF EnsureRunning
    <2>3. CASE MayStart(c)
      BY <1>0, <2>3 DEF MayStart
    <2>4. CASE StartMonitor(c)
      <3>1. at' \in [Callers -> CallerPCs]
        BY <1>0, <2>4 DEF StartMonitor
      <3>2. /\ status' \in {"NOT_RUNNING", "REQUESTED", "WAITING_FOR_REQUEST"}
            /\ gave_up' \in BOOLEAN
        BY <1>0, <2>4 DEF StartMonitor
      <3>4. faults' \in 0 .. MaxFaults
        BY <1>0, <2>4 DEF StartMonitor, Fail
      <3>3. UNCHANGED <<shuttingDown, cleanup, to_stop, outstanding_request, limit_worker_min,
                        limit_worker_max, max_working, waiters, wakeups, creation_count, pc, tries>>
        BY <2>4 DEF StartMonitor
      <3> QED BY <1>0, <3>1, <3>2, <3>3, <3>4
    <2> QED BY <1>2, <2>1, <2>2, <2>3, <2>4 DEF RequestStep
  <1>3. ASSUME NEW c \in Callers, CallerStep(c) PROVE OtherTypes'
    <2> USE DEF ByCaller, NoRequest, ending, watch, cond
    <2>1. CASE TryUnpark(c)
      BY <1>0, <2>1 DEF TryUnpark, Done, Notify
    <2>2. ASSUME NEW n \in 0 .. MaxPerSecond, TryCreate(c, n) PROVE OtherTypes'
      BY <1>0, <2>2 DEF TryCreate, NoWorker, Done
    <2>3. CASE CreateWorker(c)
      <3>1. creation_count' \in 0 .. MaxPerSecond
        BY <1>0, <2>3 DEF CreateWorker, CallersOK, Creating
      <3> QED BY <1>0, <2>3, <3>1 DEF CreateWorker, Done
    <2>4. CASE CreateFails(c)
      BY <1>0, <2>4 DEF CreateFails, NoWorker, Done, Fail
    <2> QED BY <1>3, <2>1, <2>2, <2>3, <2>4 DEF CallerStep
  <1>4. CASE MonitorStep
    BY <1>0, <1>4 DEF MonitorStep, MonitorLooks, Grow, Decide, Check, Retire, ByMonitor, domain,
                      cond, ending, outside, Callers
  <1>5. CASE \E n \in 1 .. MaxLimit : SetMinThreads(n) \/ SetMaxThreads(n)
    BY <1>0, <1>5 DEF SetMinThreads, SetMaxThreads, SetThreads, domain, cond, ending, watch,
                      counters
  <1>6. CASE Shutdown \/ CleanupStep
    <2>1. UNCHANGED <<outstanding_request, max_working, outside, creation_count, watch, pc, at,
                      tries>>
      BY <1>6 DEF Shutdown, CleanupStep, StopWorkers, NotifyAll, ByCleanup, domain, counters
    <2>2. /\ shuttingDown' \in BOOLEAN /\ to_stop' \subseteq Workers
          /\ cleanup' \in {"none", "awaitMonitor", "stop", "cleaned"}
      BY <1>0, <1>6 DEF Shutdown, CleanupStep, StopWorkers, NotifyAll
    <2>3. waiters' \in Nat /\ wakeups' \in Nat
      BY <1>0, <1>6 DEF Shutdown, CleanupStep, StopWorkers, NotifyAll, cond
    <2> QED BY <1>0, <2>1, <2>2, <2>3 DEF outside, watch
  <1>7. CASE UNCHANGED vars
    BY <1>0, <1>7 DEF vars, domain, counters, cond, ending, watch, outside
  <1> QED BY <1>1, <1>2, <1>3, <1>4, <1>5, <1>6, <1>7 DEF Next

----------------------------------------------------------------------------
\* The inductive invariant, and what follows from it

\* Types, who may create, one monitor thread, watched requests, the clean-up and
\* the counters: the counters need to know who may create, a watched request
\* needs the one monitor thread, and each of them the types.
PoolInv == TypeOK /\ CallersOK /\ OneMonitor /\ Watched /\ CleanupOK /\ CountersExact

\* The pool starts in the invariant.
LEMMA PoolInvInit ==
    ASSUME Init
    PROVE  PoolInv
  <1>0. Monitor \notin Requesters
    BY MonitorAssumption
  <1>1. CallersOK /\ OneMonitor
    BY <1>0 DEF Init, CallersOK, OneMonitor, Callers, RequesterPCs, MonitorPCs, Creating, Starting
  <1>2. Watched /\ CleanupOK
    BY DEF Init, Watched, CleanupOK, NoSleeperLeft
  <1>3. OtherTypes
    <2>1. /\ MaxOutstanding \in Nat /\ MaxPerSecond \in Nat /\ MaxTries \in Nat
          /\ MaxFaults \in Nat /\ MaxLimit \in Nat /\ CpuCount \in 1 .. MaxLimit
      BY Bounds
    <2>2. pc \in [Workers -> WorkerPCs] /\ at \in [Callers -> CallerPCs]
      <3>1. pc \in [Workers -> WorkerPCs]
        BY Zenon DEF Init, WorkerPCs
      <3>2. at \in [Callers -> CallerPCs]
        BY Zenon DEF Init, CallerPCs
      <3> QED BY <3>1, <3>2
    <2>3. shuttingDown \in BOOLEAN /\ gave_up \in BOOLEAN
      BY DEF Init
    <2> QED BY SMTT(30), <2>1, <2>2, <2>3 DEF Init, OtherTypes
  <1>4. CountersExact
    <2>1. ASSUME NEW S, "none" \notin S PROVE Number(S) = 0
      <3>1. {w \in Workers : pc[w] \in S} = {}
        BY <2>1 DEF Init
      <3> QED BY <3>1, FS_EmptySet DEF Number
    <2>2. Creating = {}
      BY DEF Init, Creating, Callers
    <2>3. Cardinality(Creating) = 0
      BY <2>2, FS_EmptySet
    <2>4. /\ Number(Working) = 0 /\ Number(Parked) = 0 /\ Number(Waiting) = 0
          /\ Number({"waiting"}) = 0 /\ Number(Busy) = 0
      BY <2>1 DEF Working, Parked, Waiting, Busy
    <2>5. {w \in Workers : pc[w] \in Listed} = {}
      BY DEF Init, Listed, Busy
    <2> QED BY <2>3, <2>4, <2>5 DEF Init, CountersExact
  <1>5. TypeOK
    BY <1>3, <1>4, ExactIsNat DEF TypeOK, OtherTypes, ExactTypes
  <1> QED BY <1>1, <1>2, <1>4, <1>5 DEF PoolInv

\* Every step keeps the invariant.
LEMMA PoolInvKept ==
    ASSUME PoolInv, [Next]_vars
    PROVE  PoolInv'
  <1>1. CallersOK' /\ OneMonitor' /\ Watched' /\ CleanupOK' /\ CountersExact'
    BY CallersKept, OneMonitorKept, WatchedKept, CleanupKept, CountersKept DEF PoolInv
  <1>2. OtherTypes'
    BY OtherTypesKept DEF PoolInv
  <1>3. ExactTypes'
    BY <1>1, ExactIsNat, PTL
  <1>4. TypeOK'
    BY <1>2, <1>3 DEF TypeOK, OtherTypes, ExactTypes
  <1> QED BY <1>1, <1>4 DEF PoolInv

\* The invariant holds in every state: it puts the four properties together
\* because each of them needs another one to be preserved.
THEOREM PoolSafe == Spec => []PoolInv
  <1>1. Init => PoolInv
    BY PoolInvInit
  <1>2. PoolInv /\ [Next]_vars => PoolInv'
    BY PoolInvKept
  <1> QED BY <1>1, <1>2, PTL DEF Spec

\* Every variable has a value of its type, whatever the threads do: no counter of
\* the pool is ever negative.
THEOREM TypesAreCorrect == Spec => []TypeOK
  <1>1. PoolInv => TypeOK
    BY DEF PoolInv
  <1> QED BY <1>1, PoolSafe, PTL

\* The counters of the pool are exact: workers that are created, park, time out,
\* throw or end are counted once, and a creation that fails is taken back.
THEOREM CountersAreExact == Spec => []CountersExact
  <1>1. PoolInv => CountersExact
    BY DEF PoolInv
  <1> QED BY <1>1, PoolSafe, PTL

\* There is one monitor thread at most, and the status tells whether there is
\* one.
THEOREM MonitorIsOne == Spec => []OneMonitor
  <1>1. PoolInv => OneMonitor
    BY DEF PoolInv
  <1> QED BY <1>1, PoolSafe, PTL

\* A request is never left without a monitor thread that will look at it, unless
\* the thread cannot be created or the runtime ends.
THEOREM RequestsAreWatched == Spec => []MonitorWatches
  <1>1. PoolInv => MonitorWatches
    BY DEF PoolInv, OneMonitor, Watched, MonitorWatches
  <1> QED BY <1>1, PoolSafe, PTL

\* The clean-up leaves no worker asleep that nobody has woken.
THEOREM SleepersAreWoken == Spec => []NoSleeperLeft
  <1>1. PoolInv => NoSleeperLeft
    BY DEF PoolInv, CleanupOK
  <1> QED BY <1>1, PoolSafe, PTL
=============================================================================
