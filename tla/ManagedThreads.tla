--------------------------- MODULE ManagedThreads ---------------------------
(***************************************************************************)
(* Managed threads (vm/Thread.cpp and its callers): the list of attached   *)
(* threads, the storage for thread static fields, interrupts and aborts    *)
(* that travel as user APCs, and the end of all threads when the runtime   *)
(* shuts down.                                                             *)
(*                                                                         *)
(* What runs under s_ThreadMutex or under a thread's synch_cs is one step. *)
(* A wait handles what is queued when it begins and what is queued while   *)
(* it lasts, which is what WaitObject shows of the waits below.  An APC is *)
(* taken from the queue and run in one step.                               *)
(* A thread in both Internal and Started is one of either kind.            *)
(***************************************************************************)
EXTENDS Integers, Sequences, FiniteSets

CONSTANTS
    Main,        \* the thread that initialises the runtime and shuts it down
    Finalizer,   \* the thread that runs finalizers
    Internal,    \* threads of the runtime (CreateInternal), workers of the thread pool among them
    Started,     \* threads started by managed code (Thread_internal)
    Foreign,     \* threads of the embedder, which attach and detach
    Targets,     \* bound: the threads that others interrupt and abort
    Waiters,     \* bound: the threads whose managed code comes to waits
    NoData,      \* static_data of a thread that has none
    MaxStatics,  \* bound: thread static fields
    MaxAPCs      \* bound: APCs queued by requests to interrupt or abort

Threads == {Main, Finalizer} \cup Internal \cup Started \cup Foreign

ASSUME ThreadsAssumption ==
    /\ Main # Finalizer /\ {Main, Finalizer} \cap (Internal \cup Started \cup Foreign) = {}
    /\ (Internal \cup Started) \cap Foreign = {}
    /\ Targets \cup Waiters \subseteq Threads \ {Main, Finalizer}
ASSUME BoundsAssumption ==
    /\ MaxStatics \in Nat /\ MaxAPCs \in Nat
    /\ \A S \in SUBSET (0 .. MaxStatics - 1) : S # NoData

VARIABLES
    pc,                      \* where a thread is in its life
    attached,                \* s_AttachedThreads
    blocked,                 \* s_BlockNewThreads
    sizes,                   \* the number of entries of s_ThreadStaticSizes
    static_data,             \* a thread's static_data: the fields that have storage
    interruption_requested,
    abort_requested,         \* state & kThreadStateAbortRequested
    wait_sleep_join,         \* state & kThreadStateWaitSleepJoin
    background,              \* state & kThreadStateBackground: the threads that have it
    apcs,                    \* m_PendingAPCs of the os::Thread
    swallowed,               \* history: a wait that is no WaitSleepJoin has used up the interrupt
    exited,                  \* m_ThreadExitedEvent: the threads whose event is set
    phase,                   \* where Main is in the shutdown
    copy,                    \* attachedThreadsCopy
    active                   \* activeThreads, the last one first

lists == <<attached, blocked>>
statics == <<sizes, static_data>>
states == <<interruption_requested, abort_requested, wait_sleep_join, background, swallowed>>
shutdown == <<phase, copy, active>>
vars == <<pc, lists, statics, states, apcs, exited, shutdown>>

AttachedPCs == {"statics", "resync", "managed", "wait", "bareWait", "free", "unreg"}
PCs == AttachedPCs \cup
       {"unstarted", "register", "exit", "ended", "detached", "turnedAway", "uncaught"}
\* kThreadStateStopped, which only threads started by the runtime get.
Stopped(t) == t \notin Foreign /\ pc[t] \in {"free", "unreg", "exit", "ended"}
Queued(t, apc) == \E i \in DOMAIN apcs[t] : apcs[t][i] = apc
\* The process has ended in std::terminate.
Crashed == \E t \in Threads : pc[t] = "uncaught"
RunsManaged(t) == pc[t] = "managed" /\ (t = Main => phase = "none")

Move(t, from, to) == pc[t] = from /\ pc' = [pc EXCEPT ![t] = to]
Queue(t, apc) == apcs' = [apcs EXCEPT ![t] = Append(@, apc)]

----------------------------------------------------------------------------
\* Thread_internal and CreateInternal run a new os::Thread; a thread of the
\* embedder calls Attach.
Start(t) ==
    /\ t \in Foreign \/ \E s \in Threads : RunsManaged(s)
    /\ pc[Main] = "managed" /\ Move(t, "unstarted", "register")
    /\ UNCHANGED <<lists, statics, states, apcs, exited, shutdown>>

\* Mutant: a new thread is not turned away.
RegisterAlways(t) ==
    /\ Move(t, "register", "statics") /\ attached' = attached \cup {t}
    /\ UNCHANGED <<blocked, statics, states, apcs, exited, shutdown>>
Register(t) ==
    /\ ~blocked /\ Move(t, "register", "statics") /\ attached' = attached \cup {t}
    /\ UNCHANGED <<blocked, statics, states, apcs, exited, shutdown>>
\* Register throws a native abort when new threads are blocked.  CreateInternal's
\* ThreadStart catches it and returns, the embedder gets it, and nobody catches
\* it in the ThreadStart of threads started by managed code.
TurnAway(t) ==
    /\ blocked
    /\ \/ t \in Internal /\ Move(t, "register", "exit")
       \/ t \in Foreign /\ Move(t, "register", "turnedAway")
       \/ t \in Started /\ Move(t, "register", "uncaught")
    /\ UNCHANGED <<lists, statics, states, apcs, exited, shutdown>>

AllocateStaticDataForCurrentThread(t) ==
    /\ Move(t, "statics", "resync")
    /\ static_data' = [static_data EXCEPT ![t] = 0 .. sizes - 1]
    /\ UNCHANGED <<lists, sizes, states, apcs, exited, shutdown>>

\* An interrupt that was requested before the thread was started is requested
\* again; its APC has been queued all the same, because handle is never null.
Resync(t) ==
    /\ Move(t, "resync", "managed")
    /\ IF interruption_requested[t] THEN Queue(t, "interrupt") ELSE UNCHANGED apcs
    /\ UNCHANGED <<lists, statics, states, exited, shutdown>>

\* Mutant: a new field gets storage in one thread, that of its caller.
AllocThreadStaticDataHere ==
    /\ sizes < MaxStatics /\ sizes' = sizes + 1
    /\ \E t \in Threads : RunsManaged(t)
           /\ static_data' = [static_data EXCEPT ![t] = @ \cup {sizes}]
    /\ UNCHANGED <<pc, lists, states, apcs, exited, shutdown>>
\* A new thread static field gets storage in every attached thread that has
\* its table already and still.
AllocThreadStaticData ==
    /\ \E t \in Threads : RunsManaged(t)
    /\ sizes < MaxStatics /\ sizes' = sizes + 1
    /\ static_data' = [t \in Threads |->
           IF t \in attached /\ static_data[t] # NoData THEN static_data[t] \cup {sizes}
           ELSE static_data[t]]
    /\ UNCHANGED <<pc, lists, states, apcs, exited, shutdown>>

----------------------------------------------------------------------------
\* A thread asks another one to stop waiting, or to abort.
CanAsk(t) == Len(apcs[t]) < MaxAPCs /\ \E s \in Threads : RunsManaged(s)
RequestInterrupt(t) ==
    /\ CanAsk(t) /\ Queue(t, "interrupt")
    /\ interruption_requested' = [interruption_requested EXCEPT ![t] = TRUE]
    /\ swallowed' = [swallowed EXCEPT ![t] = FALSE]
    /\ UNCHANGED <<pc, lists, statics, abort_requested, wait_sleep_join, background, exited, shutdown>>

Abort(t) ==
    /\ ~abort_requested[t] /\ ~Stopped(t)
    /\ abort_requested' = [abort_requested EXCEPT ![t] = TRUE] /\ Queue(t, "abort")
    /\ UNCHANGED <<pc, lists, statics, interruption_requested, wait_sleep_join, background, swallowed,
                   exited, copy>>
RequestAbort(t) == CanAsk(t) /\ Abort(t) /\ UNCHANGED <<phase, active>>
ResetAbort(t) ==
    /\ RunsManaged(t) /\ abort_requested[t]
    /\ abort_requested' = [abort_requested EXCEPT ![t] = FALSE]
    /\ UNCHANGED <<pc, lists, statics, interruption_requested, wait_sleep_join, background, swallowed,
                   apcs, exited, shutdown>>

\* Mutant: the state is set when the wait has begun.
WaitUnmarked(t) ==
    /\ t \in Waiters /\ Move(t, "managed", "wait")
    /\ UNCHANGED <<lists, statics, states, apcs, exited, shutdown>>
\* Sleep, Join, Monitor's waits and the waits for handles mark the thread.
Wait(t) ==
    /\ t \in Waiters /\ Move(t, "managed", "wait")
    /\ wait_sleep_join' = [wait_sleep_join EXCEPT ![t] = TRUE]
    /\ UNCHANGED <<lists, statics, interruption_requested, abort_requested, background, swallowed,
                   apcs, exited, shutdown>>
\* WaitOne throws at once when an interrupt is pending.
WaitOneThrows(t) ==
    /\ RunsManaged(t) /\ interruption_requested[t]
    /\ interruption_requested' = [interruption_requested EXCEPT ![t] = FALSE]
    /\ swallowed' = [swallowed EXCEPT ![t] = FALSE]
    /\ wait_sleep_join' = [wait_sleep_join EXCEPT ![t] = FALSE]
    /\ UNCHANGED <<pc, lists, statics, abort_requested, background, apcs, exited, shutdown>>
\* EndInvoke waits without marking the thread.
BareWait(t) ==
    /\ t \in Waiters /\ Move(t, "managed", "bareWait")
    /\ UNCHANGED <<lists, statics, states, apcs, exited, shutdown>>

\* CheckForUserAPCAndHandle at a wait: the first APC either throws out of the
\* wait or is used up.
Waits(t) == pc[t] \in {"wait", "bareWait"}
HandleInterrupt(t) ==
    /\ Waits(t) /\ apcs[t] # <<>> /\ Head(apcs[t]) = "interrupt"
    /\ apcs' = [apcs EXCEPT ![t] = Tail(@)]
    /\ IF interruption_requested[t] /\ wait_sleep_join[t]
       THEN /\ pc' = [pc EXCEPT ![t] = "managed"]
            /\ interruption_requested' = [interruption_requested EXCEPT ![t] = FALSE]
            /\ wait_sleep_join' = [wait_sleep_join EXCEPT ![t] = FALSE]
            /\ UNCHANGED swallowed
       ELSE /\ UNCHANGED <<pc, interruption_requested, wait_sleep_join>>
            /\ swallowed' = [swallowed EXCEPT
                   ![t] = @ \/ (interruption_requested[t] /\ pc[t] = "bareWait")]
    /\ UNCHANGED <<lists, statics, abort_requested, background, exited, shutdown>>
\* Sleep and Join leave the mark set when they are left by an exception.
HandleAbort(t) ==
    /\ Waits(t) /\ apcs[t] # <<>> /\ Head(apcs[t]) = "abort"
    /\ apcs' = [apcs EXCEPT ![t] = Tail(@)]
    /\ IF abort_requested[t]
       THEN /\ pc' = [pc EXCEPT ![t] = "managed"]
            /\ \E mark \in {FALSE, wait_sleep_join[t]} :
                   wait_sleep_join' = [wait_sleep_join EXCEPT ![t] = mark]
       ELSE UNCHANGED <<pc, wait_sleep_join>>
    /\ UNCHANGED <<lists, statics, interruption_requested, abort_requested, background, swallowed,
                   exited, shutdown>>
\* TerminateThread throws a native abort, which managed code does not catch.
HandleTerminate(t) ==
    /\ Waits(t) /\ apcs[t] # <<>> /\ Head(apcs[t]) = "terminate"
    /\ apcs' = [apcs EXCEPT ![t] = Tail(@)]
    /\ pc' = [pc EXCEPT ![t] = "free"]
    /\ UNCHANGED <<lists, statics, states, exited, shutdown>>
\* The wait ends by a signal or a timeout.
WakeUp(t) ==
    /\ Waits(t) /\ apcs[t] = <<>> /\ pc' = [pc EXCEPT ![t] = "managed"]
    /\ wait_sleep_join' = [wait_sleep_join EXCEPT ![t] = @ /\ pc[t] = "bareWait"]
    /\ UNCHANGED <<lists, statics, interruption_requested, abort_requested, background, swallowed,
                   apcs, exited, shutdown>>
\* A worker becomes a background thread after its first job; every other flag
\* of its state is cleared.
JobDone(t) ==
    /\ t \in Internal /\ RunsManaged(t)
    /\ background' = background \cup {t}
    /\ abort_requested' = [abort_requested EXCEPT ![t] = FALSE]
    /\ wait_sleep_join' = [wait_sleep_join EXCEPT ![t] = FALSE]
    /\ UNCHANGED <<pc, lists, statics, interruption_requested, swallowed, apcs, exited, shutdown>>

----------------------------------------------------------------------------
\* The managed code of a thread is over, or its owner detaches it; the
\* finalizer thread goes when it is told to.
End(t) ==
    /\ t # Main /\ (t = Finalizer => phase = "done") /\ Move(t, "managed", "free")
    /\ UNCHANGED <<lists, statics, states, apcs, exited, shutdown>>
FreeCurrentThreadStaticData(t) ==
    /\ Move(t, "free", "unreg") /\ static_data' = [static_data EXCEPT ![t] = NoData]
    /\ UNCHANGED <<lists, sizes, states, apcs, exited, shutdown>>
\* A thread of the embedder is detached by a call or when it is cancelled.
Unregister(t) ==
    /\ t \in attached /\ attached' = attached \ {t}
    /\ \E next \in IF t \in Foreign THEN {"detached", "exit"} ELSE {"exit"} : Move(t, "unreg", next)
    /\ UNCHANGED <<blocked, statics, states, apcs, exited, shutdown>>
\* RunWrapper, or SignalExited in thread_cleanup_on_cancel.
SetExited(t) ==
    /\ Move(t, "exit", "ended") /\ exited' = exited \cup {t}
    /\ UNCHANGED <<lists, statics, states, apcs, shutdown>>

----------------------------------------------------------------------------
\* Stop: the thread pool stops a worker before AbortAllThreads.
Stop(t) ==
    /\ t \in Internal /\ pc[t] \notin {"unstarted", "register", "statics", "resync"}
    /\ phase = "none" /\ Abort(t) /\ phase' = "stop" /\ active' = <<t>>
Stopping == phase = "stop" /\ active = <<>>
StopReturns ==
    /\ Stopping /\ phase' = "none"
    /\ UNCHANGED <<pc, lists, statics, states, apcs, exited, copy, active>>

\* AbortAllThreads blocks new threads and copies the list, ...
BlockNewThreads ==
    /\ phase = "none" /\ phase' = "queue" /\ blocked' = TRUE /\ copy' = attached
    /\ UNCHANGED <<pc, attached, statics, states, apcs, exited, active>>
\* Mutant: the finalizer thread is asked too.
QueueForFinalizerToo(t) ==
    /\ phase = "queue" /\ t \in copy \ {Main}
    /\ copy' = copy \ {t} /\ active' = <<t>> \o active
    /\ Queue(t, "terminate")
    /\ UNCHANGED <<pc, lists, statics, states, exited, phase>>
\* ... asks every thread of the copy to terminate but the finalizer and itself,
\* ...
QueueTerminate(t) ==
    /\ phase = "queue" /\ t \in copy \ {Main, Finalizer}
    /\ copy' = copy \ {t} /\ active' = <<t>> \o active
    /\ Queue(t, "terminate")
    /\ UNCHANGED <<pc, lists, statics, states, exited, phase>>
AllQueued ==
    /\ phase = "queue" /\ copy \subseteq {Main, Finalizer} /\ copy' = {} /\ phase' = "join"
    /\ UNCHANGED <<pc, lists, statics, states, apcs, exited, active>>
\* ... and joins one after the other, asking again after 10 ms (Stop asks only
\* background threads).  A second identical request in the queue adds nothing
\* and is left out.
Joined ==
    /\ phase \in {"stop", "join"} /\ active # <<>> /\ Head(active) \in exited
    /\ active' = Tail(active)
    /\ UNCHANGED <<pc, lists, statics, states, apcs, exited, phase, copy>>
\* Mutant: the request is not repeated.
AskNever == FALSE /\ UNCHANGED vars
AskAgain ==
    /\ phase \in {"stop", "join"} /\ active # <<>> /\ Head(active) \notin exited
    /\ phase = "stop" => Head(active) \in background
    /\ ~Queued(Head(active), "terminate") /\ Queue(Head(active), "terminate")
    /\ UNCHANGED <<pc, lists, statics, states, exited, shutdown>>
PutBack ==
    /\ phase = "join" /\ active = <<>> /\ phase' = "done" /\ attached' = {Finalizer, Main}
    /\ UNCHANGED <<pc, blocked, statics, states, apcs, exited, copy, active>>
\* The finalizer thread is joined and the list deleted.
Uninitialize ==
    /\ phase = "done" /\ Finalizer \in exited /\ phase' = "uninitialized"
    /\ attached' = {} /\ Move(Main, "managed", "ended")
    /\ UNCHANGED <<blocked, statics, states, apcs, exited, copy, active>>

----------------------------------------------------------------------------
Init ==
    /\ pc = [t \in Threads |-> IF t \in {Main, Finalizer} THEN "managed" ELSE "unstarted"]
    /\ attached = {Main, Finalizer} /\ blocked = FALSE
    /\ sizes = 0 /\ static_data = [t \in Threads |-> IF t \in attached THEN {} ELSE NoData]
    /\ interruption_requested = [t \in Threads |-> FALSE]
    /\ abort_requested = [t \in Threads |-> FALSE]
    /\ wait_sleep_join = [t \in Threads |-> FALSE]
    /\ swallowed = [t \in Threads |-> FALSE] /\ background = {}
    /\ apcs = [t \in Threads |-> <<>>] /\ exited = {}
    /\ phase = "none" /\ copy = {} /\ active = <<>>

Others == Threads \ {Main, Finalizer}
Runtime(t) ==
    \/ Register(t) \/ TurnAway(t) \/ AllocateStaticDataForCurrentThread(t) \/ Resync(t)
    \/ FreeCurrentThreadStaticData(t) \/ Unregister(t) \/ SetExited(t)
HandleAPC(t) == HandleInterrupt(t) \/ HandleAbort(t) \/ HandleTerminate(t)
Managed(t) ==
    BareWait(t) \/ WaitOneThrows(t) \/ ResetAbort(t) \/ JobDone(t) \/ WakeUp(t)
MainStep ==
    StopReturns \/ AllQueued \/ Joined \/ AskAgain \/ PutBack \/ Uninitialize

\* The threads of S, as long as the process lives.
Living(S) == IF Crashed THEN {} ELSE S
Next ==
    \/ \E t \in Living(Others) : Start(t) \/ Wait(t) \/ Managed(t) \/ HandleAPC(t)
    \/ \E t \in Living(Threads) : Runtime(t) \/ End(t) \/ QueueTerminate(t)
    \/ \E t \in Living(Targets) : RequestInterrupt(t) \/ RequestAbort(t)
    \/ \E t \in Living(Internal) : Stop(t)
    \/ \E t \in Living({Main}) : AllocThreadStaticData \/ BlockNewThreads \/ MainStep

Spec == Init /\ [][Next]_vars

\* Every thread is scheduled.  Managed code ends or comes to a wait, except that
\* of the embedder's threads, which may do nothing for ever.
FairSpec ==
    /\ Spec
    /\ \A t \in Threads : WF_vars(~Crashed /\ Runtime(t))
    /\ \A t \in Others : WF_vars(~Crashed /\ HandleAPC(t))
    /\ \A t \in Others \ Foreign : WF_vars(~Crashed /\ (End(t) \/ Wait(t)))
    /\ WF_vars(~Crashed /\ End(Finalizer))
    /\ WF_vars(~Crashed /\ (MainStep \/ \E t \in Threads : QueueTerminate(t)))

----------------------------------------------------------------------------
\* Every variable has a value of its type.
TypeOK ==
    /\ pc \in [Threads -> PCs] /\ attached \subseteq Threads /\ blocked \in BOOLEAN
    /\ sizes \in 0 .. MaxStatics
    /\ static_data \in [Threads -> {NoData} \cup SUBSET (0 .. MaxStatics - 1)]
    /\ interruption_requested \in [Threads -> BOOLEAN] /\ abort_requested \in [Threads -> BOOLEAN]
    /\ wait_sleep_join \in [Threads -> BOOLEAN] /\ swallowed \in [Threads -> BOOLEAN]
    /\ background \subseteq Internal
    /\ apcs \in [Threads -> Seq({"interrupt", "abort", "terminate"})] /\ exited \subseteq Threads
    /\ phase \in {"none", "stop", "queue", "join", "done", "uninitialized"}
    /\ copy \subseteq Threads /\ active \in Seq(Others)

\* A thread that runs managed code has storage for every thread static field
\* there is, also when the field is added while the thread starts or ends
\* (GetThreadStaticData reads it without a lock); a thread without storage is
\* at one of the two places that the comment in AllocThreadStaticData names.
StaticsAreAllocated ==
    \A t \in attached :
        static_data[t] = IF pc[t] \in {"statics", "unreg"} THEN NoData ELSE 0 .. sizes - 1

\* The list holds exactly the threads between Register and Unregister.  So
\* nobody but Main and the finalizer thread is left when AbortAllThreads
\* rebuilds it, nobody gets on it afterwards, and Unregister finds its thread.
AttachedExactly == attached = {t \in Threads : pc[t] \in AttachedPCs}

\* An interrupt that has been requested and not delivered has an APC in the
\* queue that will deliver it at the next wait; a wait that is not marked
\* WaitSleepJoin is the only thing that loses it.
InterruptPending ==
    \A t \in Threads :
        interruption_requested[t] /\ ~swallowed[t] => Queued(t, "interrupt")

\* The join in progress waits for a thread of the embedder, which need not end
\* and does not set its event when it detaches, or Stop waits for a worker in
\* its first job, which it does not ask to terminate.
Held ==
    /\ phase \in {"stop", "join"} /\ active # <<>>
    /\ Head(active) \in Foreign \/ (phase = "stop" /\ Head(active) \notin background)
\* Stop and AbortAllThreads end, whatever the threads wait for and whatever
\* they have been asked before, unless such a thread holds them up for ever or
\* a thread that starts too late takes the process down.
AbortAllEnds ==
    phase \in {"stop", "queue", "join"}
        ~> phase \in {"none", "done", "uninitialized"} \/ Crashed \/ []Held
=============================================================================
