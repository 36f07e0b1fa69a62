--------------------------- MODULE ManagedMonitor ---------------------------
(***************************************************************************)
(* What the callers of libil2cpp/vm/Monitor.cpp are promised: a recursive  *)
(* lock per object with a list of threads waiting for a pulse.  Nothing    *)
(* here inflates, deflates or recycles; Monitor.tla implements this.       *)
(***************************************************************************)
EXTENDS Integers, SequencesExt

CONSTANTS
    Threads, Objects,
    NoObject,       \* a thread that is not inside Wait
    MaxDepth,       \* bound on recursive locking
    MayGiveUp       \* may a wait end by a timeout or by an exception?

VARIABLES
    held,       \* how often a thread has an object locked
    waitsOn,    \* the object a thread gave up in Wait and has not locked again
    savedCount, \* how often it will have that object locked again
    waitList    \* the threads a Pulse of the object can reach, newest first

vars == <<held, waitsOn, savedCount, waitList>>

Unlocked(o) == \A t \in Threads : held[t][o] = 0

Enter(t, o) ==
    /\ waitsOn[t] = NoObject /\ held[t][o] < MaxDepth
    /\ \A u \in Threads \ {t} : held[u][o] = 0
    /\ held' = [held EXCEPT ![t][o] = @ + 1]
    /\ UNCHANGED <<waitsOn, savedCount, waitList>>

Exit(t, o) ==
    /\ held[t][o] > 0
    /\ held' = [held EXCEPT ![t][o] = @ - 1]
    /\ UNCHANGED <<waitsOn, savedCount, waitList>>

\* Wait unlocks the object completely; with a zero timeout it joins no list.
Wait(t, o) ==
    /\ held[t][o] > 0
    /\ waitsOn' = [waitsOn EXCEPT ![t] = o]
    /\ savedCount' = [savedCount EXCEPT ![t] = held[t][o]]
    /\ held' = [held EXCEPT ![t][o] = 0]
    /\ \/ waitList' = [waitList EXCEPT ![o] = <<t>> \o @]
       \/ MayGiveUp /\ UNCHANGED waitList

\* The list without thread t, which is on it once at most.
Without(list, t) ==
    IF t \in ToSet(list)
    THEN RemoveAt(list, CHOOSE i \in DOMAIN list : list[i] = t)
    ELSE list

\* Wait returns, with the object locked as often as before.
Return(t) ==
    /\ waitsOn[t] # NoObject /\ Unlocked(waitsOn[t])
    /\ MayGiveUp \/ t \notin ToSet(waitList[waitsOn[t]])
    /\ held' = [held EXCEPT ![t][waitsOn[t]] = savedCount[t]]
    /\ waitList' = [waitList EXCEPT ![waitsOn[t]] = Without(@, t)]
    /\ waitsOn' = [waitsOn EXCEPT ![t] = NoObject]
    /\ savedCount' = [savedCount EXCEPT ![t] = 0]

Pulse(t, o) ==
    /\ held[t][o] > 0 /\ waitList[o] # <<>>
    /\ \E rest \in {Tail(waitList[o]), <<>>} :
          waitList' = [waitList EXCEPT ![o] = rest]
    /\ UNCHANGED <<held, waitsOn, savedCount>>

Init ==
    /\ held = [t \in Threads |-> [o \in Objects |-> 0]]
    /\ waitsOn = [t \in Threads |-> NoObject]
    /\ savedCount = [t \in Threads |-> 0]
    /\ waitList = [o \in Objects |-> <<>>]

Next == \E t \in Threads :
           \/ Return(t)
           \/ \E o \in Objects : Enter(t, o) \/ Exit(t, o) \/ Wait(t, o) \/ Pulse(t, o)

Spec == Init /\ [][Next]_vars
=============================================================================
