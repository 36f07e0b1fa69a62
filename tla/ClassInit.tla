------------------------------ MODULE ClassInit ------------------------------
(***************************************************************************)
(* Runtime::ClassInit: the lazy initialisation of classes.  A thread that  *)
(* is about to use a class calls ClassInit; the first caller runs the      *)
(* static constructor, the others wait until it has ended, except the      *)
(* thread that runs it, which may use the class before it is ready.        *)
(*                                                                         *)
(* Which classes a constructor uses, and whether it throws, is up to       *)
(* managed code.  Errors of Class::Init, which sets up the metadata of a   *)
(* class before its first use, are left out.                               *)
(***************************************************************************)
EXTENDS Integers, SequencesExt

CONSTANTS
    Threads,
    Classes,      \* classes with a static constructor
    Needs,        \* the other classes that the constructor of a class uses
    NoThread, NoClass

ASSUME NeedsAssumption == Needs \in [Classes -> SUBSET Classes]
ASSUME NoThreadAssumption == NoThread \notin Threads
ASSUME NoClassAssumption == NoClass \notin Classes

VARIABLES
    finished,     \* cctor_finished_or_no_cctor
    started,      \* cctor_started
    cctorThread,  \* cctor_thread
    failed,       \* initializationExceptionGCHandle # 0
    lock,         \* the thread that holds s_TypeInitializationLock
    \* Per thread:
    running,      \* the classes whose static constructors it runs, innermost first
    pc, call,     \* its innermost call of ClassInit
    outcome       \* how that call ended, if it has

vars == <<finished, started, cctorThread, failed, lock, running, pc, call, outcome>>
class == <<finished, started, cctorThread, failed>>

\* The thread is out of ClassInit, in managed code: at top level or in a
\* static constructor.
InManagedCode(t) == pc[t] = "managed"

\* The call ends: it returns or raises the exception of the class.
End(t, how) ==
    /\ pc' = [pc EXCEPT ![t] = "managed"]
    /\ outcome' = [outcome EXCEPT ![t] = how]

Goto(t, to) == pc' = [pc EXCEPT ![t] = to] /\ UNCHANGED outcome

----------------------------------------------------------------------------

Init ==
    /\ finished = [c \in Classes |-> FALSE] /\ started = [c \in Classes |-> FALSE]
    /\ cctorThread = [c \in Classes |-> NoThread]
    /\ failed = [c \in Classes |-> FALSE]
    /\ lock = NoThread
    /\ running = [t \in Threads |-> <<>>]
    /\ pc = [t \in Threads |-> "managed"] /\ call = [t \in Threads |-> NoClass]
    /\ outcome = [t \in Threads |-> "none"]

\* Managed code uses a class: outside constructors any, in the constructor of
\* k the class itself and those that k needs.  A class that is ready costs a
\* read of its flag.
CallClassInit(t, c) ==
    /\ InManagedCode(t)
    /\ running[t] # <<>> => c \in Needs[Head(running[t])] \cup {Head(running[t])}
    /\ call' = [call EXCEPT ![t] = c]
    /\ \/ finished[c] /\ End(t, "returned")
       \/ ~finished[c] /\ pc' = [pc EXCEPT ![t] = "entered"]
          /\ outcome' = [outcome EXCEPT ![t] = "none"]
    /\ UNCHANGED <<class, lock, running>>

\* Mutant: the return of the second look keeps the lock.
AcquireAndKeep(t) ==
    /\ pc[t] = "entered" /\ lock = NoThread /\ lock' = t
    /\ \/ finished[call[t]] /\ End(t, "returned")
       \/ ~finished[call[t]] /\ Goto(t, "locked")
    /\ UNCHANGED <<class, running, call>>
\* s_TypeInitializationLock.Acquire(), and a second look at the flag.
AcquireLock(t) ==
    /\ pc[t] = "entered" /\ lock = NoThread
    /\ \/ finished[call[t]] /\ End(t, "returned") /\ UNCHANGED lock
       \/ ~finished[call[t]] /\ Goto(t, "locked") /\ lock' = t
    /\ UNCHANGED <<class, running, call>>

\* Mutant: the lock is released before the class is claimed.
CheckAndRelease(t) ==
    /\ pc[t] = "locked" /\ lock' = NoThread
    /\ Goto(t, IF started[call[t]] THEN "started" ELSE "free")
    /\ UNCHANGED <<class, running, call>>
\* Under the lock: has somebody started to run the constructor?
CheckStarted(t) ==
    /\ pc[t] = "locked"
    /\ \/ started[call[t]] /\ Goto(t, "started") /\ lock' = NoThread
       \/ ~started[call[t]] /\ Goto(t, "free") /\ UNCHANGED lock
    /\ UNCHANGED <<class, running, call>>

\* The thread claims the class, lets go of the lock and enters the constructor.
Claim(t) ==
    /\ pc[t] = "free"
    /\ cctorThread' = [cctorThread EXCEPT ![call[t]] = t]
    /\ started' = [started EXCEPT ![call[t]] = TRUE]
    /\ lock' = NoThread
    /\ running' = [running EXCEPT ![t] = <<call[t]>> \o @]
    /\ Goto(t, "managed")
    /\ UNCHANGED <<finished, failed, call>>

\* Mutant: the thread waits for itself.
NoCheckOfOwner(t) ==
    pc[t] = "started" /\ Goto(t, "waiting") /\ UNCHANGED <<class, lock, running, call>>
\* The constructor was started: by this thread, which must go on, or by another.
CheckOwner(t) ==
    /\ pc[t] = "started"
    /\ \/ cctorThread[call[t]] = t /\ End(t, "returned")
       \/ cctorThread[call[t]] # t /\ Goto(t, "waiting")
    /\ UNCHANGED <<class, lock, running, call>>

\* Mutant: nobody runs the constructor any more, so the class must be ready.
WaitForOwner(t) ==
    /\ pc[t] = "waiting" /\ cctorThread[call[t]] = NoThread
    /\ End(t, IF failed[call[t]] THEN "raised" ELSE "returned")
    /\ UNCHANGED <<class, lock, running, call>>
\* The thread looks whether the constructor has ended, and sleeps if it has not.
StopWaiting(t) ==
    /\ pc[t] = "waiting"
    /\ \/ failed[call[t]] /\ End(t, "raised")
       \/ finished[call[t]] /\ ~failed[call[t]] /\ End(t, "returned")
       \/ ~finished[call[t]] /\ ~failed[call[t]] /\ UNCHANGED <<pc, outcome>>
    /\ UNCHANGED <<class, lock, running, call>>

\* Invoke returns from the innermost constructor, with an exception or without.
EndCctor(t) ==
    /\ InManagedCode(t) /\ running[t] # <<>>
    /\ LET c == Head(running[t]) IN
       /\ call' = [call EXCEPT ![t] = c]
       /\ cctorThread' = [cctorThread EXCEPT ![c] = NoThread]
    /\ running' = [running EXCEPT ![t] = Tail(@)]
    /\ \E to \in {"succeeded", "threw"} :
          pc' = [pc EXCEPT ![t] = to] /\ outcome' = [outcome EXCEPT ![t] = "none"]
    /\ UNCHANGED <<finished, started, failed, lock>>

\* Others are told: the class is ready, or is not and never will be.
Publish(t) ==
    /\ \/ /\ pc[t] = "succeeded" /\ End(t, "returned")
          /\ finished' = [finished EXCEPT ![call[t]] = TRUE] /\ UNCHANGED failed
       \/ /\ pc[t] = "threw" /\ End(t, "raised")
          /\ failed' = [failed EXCEPT ![call[t]] = TRUE] /\ UNCHANGED finished
    /\ UNCHANGED <<started, cctorThread, lock, running, call>>

Step(t) ==
    \/ AcquireLock(t) \/ CheckStarted(t) \/ Claim(t)
    \/ CheckOwner(t) \/ StopWaiting(t) \/ Publish(t)

Next == \E t \in Threads : Step(t) \/ EndCctor(t) \/ \E c \in Classes : CallClassInit(t, c)

Spec == Init /\ [][Next]_vars

\* Threads in ClassInit are scheduled and get a lock that becomes free again and
\* again; a static constructor ends.  Nobody need use a class.
FairSpec ==
    /\ Spec
    /\ \A t \in Threads : WF_vars(Step(t)) /\ SF_vars(AcquireLock(t)) /\ SF_vars(EndCctor(t))

----------------------------------------------------------------------------
(* Properties *)

\* Types; and the lock is held only by a thread that checks or claims a class,
\* never by one that has left ClassInit or entered a constructor.
TypeOK ==
    /\ finished \in [Classes -> BOOLEAN] /\ started \in [Classes -> BOOLEAN]
    /\ cctorThread \in [Classes -> Threads \cup {NoThread}]
    /\ failed \in [Classes -> BOOLEAN]
    /\ running \in [Threads -> Seq(Classes)]
    /\ pc \in [Threads -> {"managed", "entered", "locked", "free", "started",
                           "waiting", "succeeded", "threw"}]
    /\ call \in [Threads -> Classes \cup {NoClass}]
    /\ outcome \in [Threads -> {"none", "returned", "raised"}]
    /\ lock \in {t \in Threads : pc[t] \in {"locked", "free"}} \cup {NoThread}

Runs(t, c) == \E i \in 1 .. Len(running[t]) : running[t][i] = c

\* A static constructor runs once: never on two threads or twice on the stack
\* of one, and never again when it has ended, however it has ended
\* (Runtime.cpp:1086-1120, the second look and the claim under the lock).
OneCctor ==
    \A t \in Threads : \A i \in 1 .. Len(running[t]) :
        LET c == running[t][i] IN
        /\ ~finished[c] /\ ~failed[c]
        /\ \A u \in Threads : \A j \in 1 .. Len(running[u]) :
              running[u][j] = c => u = t /\ i = j

\* When ClassInit returns, the class is ready, or the thread itself is inside its
\* static constructor; when it raises, the class has failed, and a class that
\* has failed never becomes ready.
ReadyOnReturn ==
    \A t \in Threads :
        /\ outcome[t] = "returned" => finished[call[t]] \/ Runs(t, call[t])
        /\ outcome[t] = "raised" => failed[call[t]] /\ ~finished[call[t]]

\* A thread that waits for the static constructor of another goes on, provided
\* that the dependencies of classes have no cycle: nothing in ClassInit looks
\* for threads that wait for each other.
WaitEnds == \A t \in Threads : pc[t] = "waiting" ~> pc[t] = "managed"

=============================================================================
