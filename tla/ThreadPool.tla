----------------------------- MODULE ThreadPool -----------------------------
(***************************************************************************)
(* The worker threads of the managed thread pool                           *)
(* (libil2cpp/mono/ThreadPool): threads that request a worker, workers     *)
(* that take requests, park and retire, the monitor thread that adds       *)
(* workers when requests starve, and the clean-up at shutdown.             *)
(*                                                                         *)
(* One action is one critical section of domains_lock, active_threads_lock *)
(* or worker_creation_lock, one atomic update of the counters or of the    *)
(* monitor's status, or one step of the condition variable on which        *)
(* workers park.  pc[w] is where a worker stands; at[c] is where a caller  *)
(* of worker_request stands, or the monitor thread.                        *)
(***************************************************************************)
EXTENDS Integers, FiniteSetsExt

CONSTANTS
    Workers,        \* bound on the worker threads that exist at a time
    Requesters,     \* threads that ask for a worker
    Monitor,        \* the monitor thread, at most one at a time
    MaxOutstanding, \* bound on the requests nobody has taken
    CpuCount,       \* the processors: the first limit_worker_min
    MaxLimit,       \* the first limit_worker_max, a bound on what managed code sets
    MaxPerSecond,   \* WORKER_CREATION_MAX_PER_SEC
    MaxTries,       \* how often the monitor tries to get a worker in a round
    MaxFaults       \* bound on the creations of a thread that fail

Callers == Requesters \cup {Monitor}

ASSUME FiniteAssumption == IsFiniteSet(Workers) /\ IsFiniteSet(Requesters)
ASSUME MonitorAssumption == Monitor \notin Requesters
ASSUME BoundsAssumption ==
    /\ MaxOutstanding \in Nat \ {0}
    /\ MaxLimit \in 1 .. 32767 /\ CpuCount \in 1 .. MaxLimit   \* int16_t
    /\ MaxPerSecond \in Nat \ {0} /\ MaxTries \in Nat \ {0} /\ MaxFaults \in Nat

VARIABLES
    shuttingDown,
    outstanding_request, threadpool_jobs,   \* of the only domain
    max_working, active, working, parked,   \* ThreadPoolCounter
    limit_worker_min, limit_worker_max,
    working_threads, parked_threads_count,  \* under active_threads_lock
    waiters, wakeups,                       \* parked_threads_cond
    creation_count,                         \* worker_creation_current_count
    status,                                 \* s_MonitorStatus
    pc, at,                                 \* the workers, the callers
    tries,                                  \* left in the monitor's round
    cleanup, to_stop,                       \* threadpool_ms_cleanup
    gave_up,        \* a request found that no monitor thread can be created
    faults          \* thread creations that have failed

counters == <<max_working, active, working, parked>>
domain   == <<outstanding_request, threadpool_jobs>>
listed   == <<working_threads, parked_threads_count>>
cond     == <<waiters, wakeups>>
ending   == <<shuttingDown, cleanup, to_stop>>
watch    == <<status, gave_up>>
outside  == <<limit_worker_min, limit_worker_max, faults>>
vars == <<counters, domain, listed, cond, creation_count, ending, watch, outside, pc, at, tries>>

WorkerPCs == {"none", "created", "look", "retire", "park", "parkLock", "waiting", "woken",
              "timedOut", "unpark", "leave", "job", "done", "end", "endCount"}
CallerPCs == {"idle", "ensure", "mayStart", "startMonitor", "tryUnpark", "tryCreate",
              "creating", "none", "asleep", "grow", "decide", "check", "retire"}

Goto(w, label) == pc' = [pc EXCEPT ![w] = label]
Proceed(c, label) == at' = [at EXCEPT ![c] = label]
Fail == faults < MaxFaults /\ faults' = faults + 1

----------------------------------------------------------------------------
\* The workers

ByWorker == UNCHANGED <<creation_count, shuttingDown, cleanup, watch, outside, at, tries>>

\* The constructor of WorkerThreadStateHolder.
WorkerStarts(w) ==
    /\ pc[w] = "created" /\ Goto(w, "look")
    /\ working_threads' = working_threads \cup {w}
    /\ ByWorker /\ UNCHANGED <<counters, domain, parked_threads_count, cond, to_stop>>

\* The worker has domains_lock: its job, if it had one, is over, and it takes
\* the next request, or decides to park or to end.
WorkerLooks(w) ==
    LET over == IF pc[w] = "look" THEN 0 ELSE 1 IN
    /\ pc[w] \in {"look", "done", "retire"}
    /\ \/ /\ shuttingDown /\ Goto(w, "end")
          /\ threadpool_jobs' = threadpool_jobs - over /\ UNCHANGED outstanding_request
       \/ /\ ~shuttingDown /\ (pc[w] = "retire" \/ outstanding_request = 0) /\ Goto(w, "park")
          /\ threadpool_jobs' = threadpool_jobs - over /\ UNCHANGED outstanding_request
       \/ /\ ~shuttingDown /\ pc[w] # "retire" /\ outstanding_request > 0 /\ Goto(w, "job")
          /\ threadpool_jobs' = threadpool_jobs - over + 1
          /\ outstanding_request' = outstanding_request - 1
    /\ ByWorker /\ UNCHANGED <<counters, listed, cond, to_stop>>

\* The managed callback returns; it asks for the worker to retire when
\* NotifyWorkItemComplete has told it that too many workers are at work.
JobEnds(w) ==
    /\ pc[w] = "job"
    /\ \/ Goto(w, "done")
       \/ working > max_working /\ Goto(w, "retire")
    /\ ByWorker /\ UNCHANGED <<counters, domain, listed, cond, to_stop>>

\* The callback throws, or the thread is aborted: the stack unwinds.
JobThrows(w) ==
    /\ pc[w] = "job" /\ Goto(w, "end")
    /\ threadpool_jobs' = threadpool_jobs - 1
    /\ ByWorker /\ UNCHANGED <<counters, outstanding_request, listed, cond, to_stop>>

\* The callback reports progress: heuristic_adjust, alone under heuristic_lock,
\* stores what hill climbing finds best within the limits.
Adjust(w) ==
    /\ pc[w] = "job" /\ working <= max_working
    /\ max_working' \in limit_worker_min .. limit_worker_max
    /\ ByWorker
    /\ UNCHANGED <<active, working, parked, domain, listed, cond, to_stop, pc>>

----------------------------------------------------------------------------
\* Parking

\* The constructor of WorkerThreadParkStateHolder: domains_lock is free by now.
StopWorking(w) ==
    /\ pc[w] = "park" /\ Goto(w, "parkLock")
    /\ working' = working - 1 /\ parked' = parked + 1
    /\ ByWorker /\ UNCHANGED <<max_working, active, domain, listed, cond, to_stop>>

\* Mutant: nothing keeps a worker from parking when the runtime ends.
ParkAlways(w) ==
    /\ pc[w] = "parkLock" /\ Goto(w, "waiting")
    /\ parked_threads_count' = parked_threads_count + 1
    /\ working_threads' = working_threads \ {w}
    /\ waiters' = waiters + 1 /\ UNCHANGED wakeups
    /\ ByWorker /\ UNCHANGED <<counters, domain, to_stop>>
\* worker_park up to the wait, which joins the waiters before it lets go of the lock.
Park(w) ==
    /\ pc[w] = "parkLock"
    /\ \/ shuttingDown /\ Goto(w, "unpark") /\ UNCHANGED <<listed, cond>>
       \/ /\ ~shuttingDown /\ Goto(w, "waiting")
          /\ parked_threads_count' = parked_threads_count + 1
          /\ working_threads' = working_threads \ {w}
          /\ waiters' = waiters + 1 /\ UNCHANGED wakeups
    /\ ByWorker /\ UNCHANGED <<counters, domain, to_stop>>

\* The wait ends with a wakeup, ...
WakeUp(w) ==
    /\ pc[w] = "waiting" /\ wakeups > 0 /\ Goto(w, "woken")
    /\ wakeups' = wakeups - 1
    /\ ByWorker /\ UNCHANGED <<counters, domain, listed, waiters, to_stop>>
\* ... or its 5 to 60 seconds are over and the worker takes itself off the waiters.
TimeOut(w) ==
    /\ pc[w] = "waiting" /\ waiters > 0 /\ Goto(w, "timedOut")
    /\ waiters' = waiters - 1
    /\ ByWorker /\ UNCHANGED <<counters, domain, listed, wakeups, to_stop>>

\* The worker has active_threads_lock again.
LeavePark(w) ==
    /\ \/ pc[w] = "woken" /\ Goto(w, "unpark")
       \/ pc[w] = "timedOut" /\ Goto(w, "leave")
    /\ working_threads' = working_threads \cup {w}
    /\ parked_threads_count' = parked_threads_count - 1
    /\ ByWorker /\ UNCHANGED <<counters, domain, cond, to_stop>>

\* The destructor of WorkerThreadParkStateHolder: nothing compares working
\* with max_working here.
WorkAgain(w) ==
    /\ \/ pc[w] = "unpark" /\ Goto(w, "look")
       \/ pc[w] = "leave" /\ Goto(w, "end")
    /\ working' = working + 1 /\ parked' = parked - 1
    /\ ByWorker /\ UNCHANGED <<max_working, active, domain, listed, cond, to_stop>>

\* The destructor of WorkerThreadStateHolder, in two steps.
WorkerEnds(w) ==
    /\ pc[w] = "end" /\ Goto(w, "endCount")
    /\ working_threads' = working_threads \ {w}
    /\ ByWorker /\ UNCHANGED <<counters, domain, parked_threads_count, cond, to_stop>>
\* The thread is gone after it, and so is a wait for its end.
CountOut(w) ==
    /\ pc[w] = "endCount" /\ Goto(w, "none")
    /\ working' = working - 1 /\ active' = active - 1
    /\ to_stop' = to_stop \ {w}
    /\ ByWorker /\ UNCHANGED <<max_working, parked, domain, listed, cond>>

----------------------------------------------------------------------------
\* worker_request

ByCaller == UNCHANGED <<max_working, parked, threadpool_jobs, listed, ending, limit_worker_min,
                        limit_worker_max>>
NoRequest == UNCHANGED <<outstanding_request, active, working, cond, creation_count, pc>>

\* The request is counted under domains_lock.
Request(c) ==
    /\ at[c] = "idle" /\ ~shuttingDown /\ outstanding_request < MaxOutstanding
    /\ outstanding_request' = outstanding_request + 1
    /\ Proceed(c, "ensure")
    /\ ByCaller /\ UNCHANGED <<active, working, cond, creation_count, pc, watch, tries, faults>>

\* One turn of the loop of monitor_ensure_running.
EnsureRunning(c) ==
    /\ at[c] = "ensure"
    /\ \/ /\ status = "REQUESTED" /\ Proceed(c, "tryUnpark") /\ gave_up' = FALSE
          /\ UNCHANGED status
       \/ /\ status = "WAITING_FOR_REQUEST" /\ status' = "REQUESTED"
          /\ UNCHANGED <<at, gave_up>>
       \/ /\ status = "NOT_RUNNING" /\ UNCHANGED <<status, gave_up>>
          /\ Proceed(c, IF shuttingDown THEN "tryUnpark" ELSE "mayStart")
    /\ ByCaller /\ NoRequest /\ UNCHANGED <<tries, faults>>
\* Mutant: the store of REQUESTED is not a compare and exchange.
StoreRequested(c) ==
    /\ at[c] = "mayStart" /\ status' = "REQUESTED" /\ Proceed(c, "startMonitor")
    /\ ByCaller /\ NoRequest /\ UNCHANGED <<gave_up, tries, faults>>
\* The compare and exchange that decides who starts the monitor thread.
MayStart(c) ==
    /\ at[c] = "mayStart"
    /\ \/ status = "NOT_RUNNING" /\ status' = "REQUESTED" /\ Proceed(c, "startMonitor")
       \/ status # "NOT_RUNNING" /\ Proceed(c, "ensure") /\ UNCHANGED status
    /\ ByCaller /\ NoRequest /\ UNCHANGED <<gave_up, tries, faults>>
StartMonitor(c) ==
    /\ at[c] = "startMonitor"
    /\ \/ /\ at' = [at EXCEPT ![c] = "tryUnpark", ![Monitor] = "asleep"]
          /\ gave_up' = FALSE /\ UNCHANGED <<status, faults>>
       \/ /\ Fail /\ Proceed(c, "tryUnpark")
          /\ status' = "NOT_RUNNING" /\ gave_up' = TRUE
    /\ ByCaller /\ NoRequest /\ UNCHANGED tries

----------------------------------------------------------------------------
\* Finding a worker, for a requester and for the monitor thread

\* Where a caller goes when it has got a worker, and when it has not.
Done(c) == at' = [at EXCEPT ![c] = IF c = Monitor THEN "decide" ELSE "idle"]
NoWorker(c) ==
    IF c = Monitor /\ tries > 1 THEN tries' = tries - 1 /\ Proceed(c, "tryUnpark")
                                ELSE Done(c) /\ UNCHANGED tries

\* Notify(1): a parked worker is taken off the waiters and gets a wakeup.
Notify ==
    IF waiters > 0 THEN waiters' = waiters - 1 /\ wakeups' = wakeups + 1 ELSE UNCHANGED cond
\* worker_try_unpark; the monitor first looks for a shutdown.
TryUnpark(c) ==
    /\ at[c] = "tryUnpark"
    /\ \/ c = Monitor /\ shuttingDown /\ Done(c) /\ UNCHANGED cond
       \/ /\ ~(c = Monitor /\ shuttingDown)
          /\ \/ parked_threads_count = 0 /\ Proceed(c, "tryCreate") /\ UNCHANGED cond
             \/ parked_threads_count > 0 /\ Done(c) /\ Notify
    /\ ByCaller
    /\ UNCHANGED <<outstanding_request, active, working, creation_count, pc, watch, tries, faults>>

\* Mutant: only the room below max_working is looked at.
CreateAtOnce(c, count) ==
    /\ at[c] = "tryCreate" /\ \A d \in Callers : at[d] # "creating"
    /\ count \in {creation_count, 0} /\ creation_count' = count
    /\ IF working >= max_working
       THEN NoWorker(c) /\ UNCHANGED <<active, working>>
       ELSE /\ Proceed(c, "creating") /\ UNCHANGED tries
            /\ working' = working + 1 /\ active' = active + 1
    /\ ByCaller /\ UNCHANGED <<outstanding_request, cond, pc, watch, faults>>
\* worker_try_create, which holds worker_creation_lock to its end: a new second
\* may have begun; the rate of creation, the room below max_working, ...
TryCreate(c, count) ==
    /\ at[c] = "tryCreate" /\ \A d \in Callers : at[d] # "creating"
    /\ count \in {creation_count, 0} /\ creation_count' = count
    /\ IF count = MaxPerSecond \/ working >= max_working
       THEN NoWorker(c) /\ UNCHANGED <<active, working>>
       ELSE /\ Proceed(c, "creating") /\ UNCHANGED tries
            /\ working' = working + 1 /\ active' = active + 1
    /\ ByCaller /\ UNCHANGED <<outstanding_request, cond, pc, watch, faults>>
\* ... and the thread itself, unless the system has none to give.
CreateWorker(c) ==
    /\ at[c] = "creating" /\ Done(c)
    /\ \E w \in Workers : pc[w] = "none" /\ Goto(w, "created")
    /\ creation_count' = creation_count + 1
    /\ ByCaller /\ UNCHANGED <<outstanding_request, active, working, cond, watch, tries, faults>>
\* Mutant: a thread that could not be created stays counted.
KeepCounted(c) ==
    /\ at[c] = "creating" /\ NoWorker(c)
    /\ Fail \/ ((\A w \in Workers : pc[w] # "none") /\ UNCHANGED faults)
    /\ ByCaller /\ NoRequest /\ UNCHANGED watch
CreateFails(c) ==
    /\ at[c] = "creating" /\ NoWorker(c)
    /\ Fail \/ ((\A w \in Workers : pc[w] # "none") /\ UNCHANGED faults)
    /\ working' = working - 1 /\ active' = active - 1
    /\ ByCaller /\ UNCHANGED <<outstanding_request, cond, creation_count, pc, watch>>

----------------------------------------------------------------------------
\* The monitor thread

ByMonitor == UNCHANGED <<active, working, parked, domain, listed, cond, creation_count, ending,
                         gave_up, outside, pc>>

\* It sleeps for half a second, unless the runtime is shutting down, and looks
\* for a request and at the time since a worker last took one, ...
MonitorLooks(label) ==
    /\ at[Monitor] = "asleep" /\ Proceed(Monitor, label)
    /\ label = "grow" => outstanding_request > 0 /\ ~shuttingDown
    /\ ByMonitor /\ UNCHANGED <<max_working, status, tries>>
\* Mutant: the monitor thread allows for one more worker and calls nobody.
GrowOnly ==
    /\ at[Monitor] = "grow" /\ Proceed(Monitor, "decide")
    /\ max_working' = IF max_working < limit_worker_max THEN max_working + 1 ELSE max_working
    /\ ByMonitor /\ UNCHANGED <<status, tries>>
\* ... and allows for one more worker below the limit; at the limit it does
\* not call anybody either.
Grow ==
    /\ at[Monitor] = "grow"
    /\ \/ /\ max_working >= limit_worker_max /\ Proceed(Monitor, "decide")
          /\ UNCHANGED <<max_working, tries>>
       \/ /\ max_working < limit_worker_max /\ Proceed(Monitor, "tryUnpark")
          /\ max_working' = max_working + 1 /\ tries' = MaxTries
    /\ ByMonitor /\ UNCHANGED status

\* monitor_should_keep_running: the exchange, ...
Decide ==
    /\ at[Monitor] = "decide" /\ status' = "WAITING_FOR_REQUEST"
    /\ Proceed(Monitor, IF status = "WAITING_FOR_REQUEST" THEN "check" ELSE "asleep")
    /\ ByMonitor /\ UNCHANGED <<max_working, tries>>
\* ... the reasons to go on, the youth of the thread among them, ...
Check ==
    /\ at[Monitor] = "check"
    /\ \/ ~shuttingDown /\ Proceed(Monitor, "asleep")
       \/ (shuttingDown \/ outstanding_request = 0) /\ Proceed(Monitor, "retire")
    /\ ByMonitor /\ UNCHANGED <<max_working, status, tries>>
\* Mutant: the monitor thread ends without looking at the status again.
RetireAnyway ==
    /\ at[Monitor] = "retire" /\ status' = "NOT_RUNNING" /\ Proceed(Monitor, "none")
    /\ ByMonitor /\ UNCHANGED <<max_working, tries>>
\* ... and the compare and exchange that ends the thread.
Retire ==
    /\ at[Monitor] = "retire"
    /\ \/ status = "WAITING_FOR_REQUEST" /\ status' = "NOT_RUNNING" /\ Proceed(Monitor, "none")
       \/ status # "WAITING_FOR_REQUEST" /\ Proceed(Monitor, "asleep") /\ UNCHANGED status
    /\ ByMonitor /\ UNCHANGED <<max_working, tries>>

----------------------------------------------------------------------------
\* Managed code sets the limits.

SetThreads == UNCHANGED <<counters, domain, listed, cond, creation_count, ending, watch, faults,
                          pc, at, tries>>
SetMinThreads(n) ==
    /\ n \in 1 .. limit_worker_max /\ limit_worker_min' = n
    /\ SetThreads /\ UNCHANGED limit_worker_max
SetMaxThreads(n) ==
    /\ n \in limit_worker_min .. MaxLimit /\ n >= CpuCount /\ limit_worker_max' = n
    /\ SetThreads /\ UNCHANGED limit_worker_min

----------------------------------------------------------------------------
\* Runtime::Shutdown sets shutting_down and cleans up: it waits for the
\* monitor thread, ...
ByCleanup == UNCHANGED <<outside, counters, domain, listed, creation_count, watch, pc, at, tries>>

Shutdown ==
    /\ ~shuttingDown /\ shuttingDown' = TRUE /\ cleanup' = "awaitMonitor"
    /\ ByCleanup /\ UNCHANGED <<cond, to_stop>>
\* ... copies the working threads under active_threads_lock, to stop one after
\* the other, ...
StopWorkers ==
    /\ cleanup = "awaitMonitor" /\ status = "NOT_RUNNING"
    /\ cleanup' = "stop" /\ to_stop' = working_threads
    /\ ByCleanup /\ UNCHANGED <<shuttingDown, cond>>
\* Mutant: cleanup wakes one parked worker.
NotifyOne ==
    /\ cleanup = "stop" /\ to_stop = {} /\ cleanup' = "cleaned" /\ Notify
    /\ ByCleanup /\ UNCHANGED <<shuttingDown, to_stop>>
\* ... and wakes those that are parked when the last of them has ended.
NotifyAll ==
    /\ cleanup = "stop" /\ to_stop = {} /\ cleanup' = "cleaned"
    /\ wakeups' = wakeups + waiters /\ waiters' = 0
    /\ ByCleanup /\ UNCHANGED <<shuttingDown, to_stop>>

----------------------------------------------------------------------------
Init ==
    /\ shuttingDown = FALSE /\ cleanup = "none" /\ to_stop = {}
    /\ outstanding_request = 0 /\ threadpool_jobs = 0
    /\ limit_worker_min = CpuCount /\ limit_worker_max = MaxLimit
    /\ max_working = limit_worker_min /\ active = 0 /\ working = 0 /\ parked = 0
    /\ working_threads = {} /\ parked_threads_count = 0 /\ waiters = 0 /\ wakeups = 0
    /\ creation_count = 0 /\ status = "NOT_RUNNING" /\ gave_up = FALSE /\ faults = 0 /\ tries = 0
    /\ pc = [w \in Workers |-> "none"]
    /\ at = [c \in Callers |-> IF c = Monitor THEN "none" ELSE "idle"]

WorkerStep(w) ==
    WorkerStarts(w) \/ WorkerLooks(w) \/ JobEnds(w) \/ StopWorking(w) \/ Park(w) \/ WakeUp(w)
    \/ LeavePark(w) \/ WorkAgain(w) \/ WorkerEnds(w) \/ CountOut(w)
RequestStep(c) == EnsureRunning(c) \/ MayStart(c) \/ StartMonitor(c)
CallerStep(c) ==
    TryUnpark(c) \/ (\E n \in 0 .. MaxPerSecond : TryCreate(c, n)) \/ CreateWorker(c)
    \/ CreateFails(c)
MonitorStep ==
    MonitorLooks("decide") \/ MonitorLooks("grow") \/ Grow \/ Decide \/ Check \/ Retire
CleanupStep == StopWorkers \/ NotifyAll

Next ==
    \/ \E w \in Workers : WorkerStep(w) \/ JobThrows(w) \/ Adjust(w) \/ TimeOut(w)
    \/ \E c \in Requesters : Request(c) \/ RequestStep(c)
    \/ \E c \in Callers : CallerStep(c)
    \/ MonitorStep
    \/ \E n \in 1 .. MaxLimit : SetMinThreads(n) \/ SetMaxThreads(n)
    \/ Shutdown \/ CleanupStep

Spec == Init /\ [][Next]_vars

\* Threads are scheduled, and a callback returns.  The last two lines: a caller
\* does not always find that the monitor thread has just reset the status, and
\* requests that nobody takes are old enough for the monitor thread in the end.
FairSpec ==
    /\ Spec
    /\ \A w \in Workers : WF_vars(WorkerStep(w))
    /\ \A c \in Requesters : WF_vars(RequestStep(c) \/ CallerStep(c))
    /\ WF_vars(MonitorStep \/ CallerStep(Monitor)) /\ WF_vars(CleanupStep)
    /\ \A c \in Requesters : SF_vars(EnsureRunning(c) /\ at[c] # at'[c])
    /\ SF_vars(MonitorLooks("grow"))

----------------------------------------------------------------------------
Busy == {"job", "done", "retire"}
Listed == Busy \cup {"look", "park", "parkLock", "unpark", "leave", "end"}
Waiting == {"waiting", "woken", "timedOut"}
Parked == Waiting \cup {"parkLock", "unpark", "leave"}
Working == WorkerPCs \ (Parked \cup {"none"})

Number(labels) == Cardinality({w \in Workers : pc[w] \in labels})
Creating == {c \in Callers : at[c] = "creating"}
Starting == {c \in Requesters : at[c] = "startMonitor"}

\* Every variable has a value of its type.
TypeOK ==
    /\ shuttingDown \in BOOLEAN /\ gave_up \in BOOLEAN
    /\ outstanding_request \in 0 .. MaxOutstanding /\ threadpool_jobs \in Nat
    /\ limit_worker_min \in 1 .. limit_worker_max
    /\ limit_worker_max \in CpuCount .. MaxLimit
    /\ max_working \in 1 .. MaxLimit /\ active \in Nat /\ working \in Nat /\ parked \in Nat
    /\ working_threads \subseteq Workers /\ parked_threads_count \in Nat
    /\ waiters \in Nat /\ wakeups \in Nat
    /\ creation_count \in 0 .. MaxPerSecond
    /\ status \in {"NOT_RUNNING", "REQUESTED", "WAITING_FOR_REQUEST"}
    /\ pc \in [Workers -> WorkerPCs]
    /\ at \in [Callers -> CallerPCs] /\ tries \in 0 .. MaxTries
    /\ cleanup \in {"none", "awaitMonitor", "stop", "cleaned"} /\ to_stop \subseteq Workers
    /\ faults \in 0 .. MaxFaults

\* The counters are the numbers of workers they stand for, a worker that is
\* being created included, although the word of counters, parked_threads_count
\* and the waiters of the condition variable are updated under different locks
\* or none, and workers leave through exceptions and timeouts.
CountersExact ==
    /\ working = Number(Working) + Cardinality(Creating)
    /\ parked = Number(Parked) /\ active = working + parked
    /\ parked_threads_count = Number(Waiting) /\ waiters + wakeups = Number({"waiting"})
    /\ threadpool_jobs = Number(Busy)
    /\ working_threads = {w \in Workers : pc[w] \in Listed}

\* There is one monitor thread or none, and the status says which: also when
\* its end meets a request, and when its creation fails (monitor_ensure_running,
\* monitor_should_keep_running).
OneMonitor ==
    /\ status = "NOT_RUNNING" <=> Starting = {} /\ at[Monitor] = "none"
    /\ \A c, d \in Starting : c = d /\ at[Monitor] = "none"

\* As long as a request is outstanding that no requester is still announcing,
\* a monitor thread lives that will look at it; the exceptions are a monitor
\* thread that could not be created and the shutdown.
MonitorWatches ==
    outstanding_request > 0 /\ ~gave_up /\ ~shuttingDown
        => \/ status # "NOT_RUNNING"
           \/ \E c \in Requesters : at[c] \in {"ensure", "mayStart"}

\* When the pool is cleaned up, no worker sleeps on that nobody has woken, and
\* none will go to sleep (worker_park, cleanup).
NoSleeperLeft == cleanup = "cleaned" => waiters = 0

\* Nobody works, and the monitor thread calls nobody and will not: max_working
\* has reached the limit, and it is not in the round that has raised it there.
AtLimit ==
    /\ max_working >= limit_worker_max
    /\ at[Monitor] \notin {"tryUnpark", "tryCreate", "creating"}
    /\ \A w \in Workers : pc[w] \in Waiting \cup {"none"}
\* In the monitor thread's last round below the limit, the only parked workers
\* have just given up waiting, or the last of its tries may be refused.
LastRoundFails ==
    /\ max_working >= limit_worker_max
    /\ \/ /\ at[Monitor] = "tryUnpark"
          /\ Number({"timedOut"}) > 0 /\ Number({"waiting", "woken"}) = 0
       \/ /\ at[Monitor] = "tryCreate" /\ tries = 1
          /\ \/ creation_count = MaxPerSecond \/ working >= max_working
             \/ faults < MaxFaults \/ Number({"none"}) = 0
Answered == gave_up \/ shuttingDown \/ \E w \in Workers : pc[w] = "job"
\* A request is served by some worker although its notification may have gone
\* to a worker that gives up waiting, or to none (monitor_thread).  At the
\* limit this is so unless nobody works.  Below it, and as long as managed code
\* leaves the limit alone, it is so in any case: the monitor thread raises
\* max_working and wakes or creates a worker, unless its last round fails.
RequestsAreServed ==
    /\ outstanding_request > 0 ~> AtLimit \/ Answered
    /\ \A n \in 2 .. MaxLimit :
          outstanding_request > 0 /\ max_working < n /\ limit_worker_max = n
              ~> limit_worker_max # n \/ LastRoundFails \/ Answered

\* The shutdown ends: every worker and the monitor thread are gone, parked
\* workers and those that are only being created included.
ShutdownEnds ==
    shuttingDown ~> /\ cleanup = "cleaned" /\ at[Monitor] = "none"
                    /\ \A w \in Workers : pc[w] = "none"
=============================================================================
