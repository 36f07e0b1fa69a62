--------------------------- MODULE ClassInitProofs ---------------------------
(***************************************************************************)
(* The safety properties of ClassInit, for any threads and classes.  A     *)
(* class is free, claimed under the lock, run, published: Progress says    *)
(* that every step finds it where the one before has left it, and Owners   *)
(* that the thread a class names is the one that runs its constructor.     *)
(***************************************************************************)
EXTENDS ClassInit, TLAPS

InCctorEnd(t) == pc[t] \in {"succeeded", "threw"}

Calls ==
    \A t \in Threads :
        /\ pc[t] # "managed" => call[t] \in Classes /\ outcome[t] = "none"
        /\ outcome[t] # "none" => call[t] \in Classes

Mutex == \A t \in Threads : pc[t] \in {"locked", "free"} => lock = t

Progress ==
    /\ \A c \in Classes : ~(finished[c] /\ failed[c])
    /\ \A c \in Classes : finished[c] \/ failed[c] => started[c]
    /\ \A t \in Threads : pc[t] = "free" => ~started[call[t]]
    /\ \A t \in Threads, c \in Classes : Runs(t, c) => started[c]
    /\ \A t \in Threads : InCctorEnd(t) =>
          /\ started[call[t]] /\ ~finished[call[t]] /\ ~failed[call[t]]
          /\ \A u \in Threads : ~Runs(u, call[t])
          /\ \A u \in Threads : u # t /\ InCctorEnd(u) => call[u] # call[t]

Owners == \A t \in Threads, c \in Classes : cctorThread[c] = t => Runs(t, c)

\* OneCctor, in terms of the classes that a thread runs.
OnePlace ==
    \A t \in Threads : \A i, j \in 1 .. Len(running[t]) :
        running[t][i] = running[t][j] => i = j
OneThread ==
    \A t, u \in Threads, c \in Classes : Runs(t, c) /\ Runs(u, c) => t = u
NotEnded ==
    \A t \in Threads, c \in Classes : Runs(t, c) => ~finished[c] /\ ~failed[c]

ClassInv ==
    /\ TypeOK /\ Calls /\ Mutex /\ Progress /\ Owners
    /\ OnePlace /\ OneThread /\ NotEnded /\ ReadyOnReturn

----------------------------------------------------------------------------
(* The stack of static constructors *)

LEMMA StackElements ==
  ASSUME TypeOK, NEW t \in Threads, NEW i \in 1 .. Len(running[t])
  PROVE  running[t][i] \in Classes
  BY DEF TypeOK

\* Entering a static constructor adds its class to those that the thread runs.
LEMMA Push ==
  ASSUME TypeOK, NEW t \in Threads, NEW c \in Classes,
         running' = [running EXCEPT ![t] = <<c>> \o @]
  PROVE  /\ running' \in [Threads -> Seq(Classes)]
         /\ \A u \in Threads, d \in Classes : Runs(u, d)' <=> Runs(u, d) \/ (u = t /\ d = c)
         /\ OnePlace /\ ~Runs(t, c) => OnePlace'
  <1> DEFINE s == running[t]
             n == <<c>> \o s
  <1>1. s \in Seq(Classes) /\ running'[t] = n /\ \A u \in Threads \ {t} : running'[u] = running[u]
    BY DEF TypeOK
  <1>2. /\ n \in Seq(Classes) /\ Len(n) = Len(s) + 1 /\ Len(s) \in Nat /\ n[1] = c
        /\ \A i \in 2 .. Len(n) : n[i] = s[i - 1]
    BY <1>1
  <1>3. running' \in [Threads -> Seq(Classes)]
    BY <1>2 DEF TypeOK
  <1> HIDE DEF n
  <1>4. ASSUME NEW d \in Classes
        PROVE  (\E i \in 1 .. Len(n) : n[i] = d) <=> (\E i \in 1 .. Len(s) : s[i] = d) \/ d = c
    <2>1. ASSUME NEW i \in 1 .. Len(n), n[i] = d
          PROVE  (\E k \in 1 .. Len(s) : s[k] = d) \/ d = c
      <3>1. CASE i = 1
        BY <1>2, <2>1, <3>1
      <3>2. CASE i # 1
        <4>1. i \in 2 .. Len(n) /\ i - 1 \in 1 .. Len(s)
          BY <1>2, <3>2
        <4> QED BY <1>2, <2>1, <4>1
      <3> QED BY <3>1, <3>2
    <2>2. ASSUME NEW k \in 1 .. Len(s), s[k] = d
          PROVE  \E i \in 1 .. Len(n) : n[i] = d
      <3>1. k + 1 \in 2 .. Len(n) /\ k + 1 \in 1 .. Len(n) /\ (k + 1) - 1 = k
        BY <1>2
      <3> QED BY <1>2, <2>2, <3>1
    <2>3. d = c => \E i \in 1 .. Len(n) : n[i] = d
      <3>1. 1 \in 1 .. Len(n)
        BY <1>2
      <3> QED BY <1>2, <3>1
    <2> QED BY <2>1, <2>2, <2>3
  <1>5. \A u \in Threads, d \in Classes : Runs(u, d)' <=> Runs(u, d) \/ (u = t /\ d = c)
    <2> SUFFICES ASSUME NEW u \in Threads, NEW d \in Classes
                 PROVE  Runs(u, d)' <=> Runs(u, d) \/ (u = t /\ d = c)
      OBVIOUS
    <2>1. CASE u = t
      BY SMTT(30), <1>1, <1>4, <2>1 DEF Runs
    <2>2. CASE u # t
      <3>1. running'[u] = running[u]
        BY <1>1, <2>2
      <3>2. Runs(u, d)' <=> Runs(u, d)
        BY <3>1 DEF Runs
      <3> QED BY <2>2, <3>2
    <2> QED BY <2>1, <2>2
  <1>6. ASSUME OnePlace, ~Runs(t, c) PROVE OnePlace'
    <2>1. ASSUME NEW i \in 1 .. Len(n), NEW j \in 1 .. Len(n), n[i] = n[j]
          PROVE  i = j
      <3>1. CASE i = 1 /\ j # 1
        <4>1. j - 1 \in 1 .. Len(s) /\ s[j - 1] = c
          BY <1>2, <2>1, <3>1
        <4> QED BY <1>6, <4>1 DEF Runs
      <3>2. CASE j = 1 /\ i # 1
        <4>1. i - 1 \in 1 .. Len(s) /\ s[i - 1] = c
          BY <1>2, <2>1, <3>2
        <4> QED BY <1>6, <4>1 DEF Runs
      <3>3. CASE i # 1 /\ j # 1
        <4>1. i - 1 \in 1 .. Len(s) /\ j - 1 \in 1 .. Len(s) /\ s[i - 1] = s[j - 1]
          BY <1>2, <2>1, <3>3
        <4>2. i - 1 = j - 1
          BY <1>6, <4>1 DEF OnePlace
        <4> QED BY <4>2
      <3> QED BY <3>1, <3>2, <3>3
    <2> QED BY <1>1, <1>6, <2>1 DEF OnePlace
  <1> QED BY <1>3, <1>5, <1>6

\* Leaving it takes the class away again.
LEMMA Pop ==
  ASSUME TypeOK, OnePlace, NEW t \in Threads, running[t] # <<>>,
         running' = [running EXCEPT ![t] = Tail(@)]
  PROVE  /\ Head(running[t]) \in Classes /\ Runs(t, Head(running[t]))
         /\ running' \in [Threads -> Seq(Classes)] /\ OnePlace'
         /\ \A u \in Threads, d \in Classes :
               Runs(u, d)' <=> Runs(u, d) /\ ~(u = t /\ d = Head(running[t]))
  <1> DEFINE s == running[t]
             n == Tail(s)
  <1>1. s \in Seq(Classes) /\ running'[t] = n /\ \A u \in Threads \ {t} : running'[u] = running[u]
    BY DEF TypeOK
  <1>2. /\ n \in Seq(Classes) /\ Len(n) = Len(s) - 1 /\ Len(s) \in Nat \ {0}
        /\ Head(s) = s[1] /\ s[1] \in Classes
        /\ \A i \in 1 .. Len(n) : n[i] = s[i + 1]
    BY <1>1
  <1>3. running' \in [Threads -> Seq(Classes)]
    BY <1>2 DEF TypeOK
  <1> HIDE DEF n
  <1>4. Runs(t, Head(s))
    <2>1. 1 \in 1 .. Len(s)
      BY <1>2
    <2> QED BY <1>2, <2>1 DEF Runs
  <1>5. ASSUME NEW i \in 1 .. Len(n), NEW j \in 1 .. Len(n), n[i] = n[j]
        PROVE  i = j
    <2>1. i + 1 \in 1 .. Len(s) /\ j + 1 \in 1 .. Len(s) /\ s[i + 1] = s[j + 1]
      BY <1>2, <1>5
    <2>2. i + 1 = j + 1
      BY <2>1 DEF OnePlace
    <2> QED BY <2>2
  <1>6. OnePlace'
    BY <1>1, <1>5 DEF OnePlace
  <1>7. ASSUME NEW d \in Classes
        PROVE  (\E i \in 1 .. Len(n) : n[i] = d)
                  <=> (\E i \in 1 .. Len(s) : s[i] = d) /\ d # Head(s)
    <2>1. ASSUME NEW i \in 1 .. Len(n), n[i] = d
          PROVE  (\E k \in 1 .. Len(s) : s[k] = d) /\ d # Head(s)
      <3>1. i + 1 \in 1 .. Len(s) /\ 1 \in 1 .. Len(s) /\ i + 1 # 1 /\ s[i + 1] = d
        BY <1>2, <2>1
      <3>2. s[i + 1] # s[1]
        BY <3>1 DEF OnePlace
      <3> QED BY <1>2, <3>1, <3>2
    <2>2. ASSUME NEW k \in 1 .. Len(s), s[k] = d, d # Head(s)
          PROVE  \E i \in 1 .. Len(n) : n[i] = d
      <3>1. k - 1 \in 1 .. Len(n) /\ (k - 1) + 1 = k
        BY <1>2, <2>2
      <3> QED BY <1>2, <2>2, <3>1
    <2> QED BY <2>1, <2>2
  <1>8. ASSUME NEW u \in Threads, NEW d \in Classes
        PROVE  Runs(u, d)' <=> Runs(u, d) /\ ~(u = t /\ d = Head(s))
    <2>1. CASE u = t
      <3>1. Runs(u, d)' <=> \E i \in 1 .. Len(n) : n[i] = d
        BY <1>1, <2>1 DEF Runs
      <3>2. Runs(u, d) <=> \E i \in 1 .. Len(s) : s[i] = d
        BY <2>1 DEF Runs
      <3> QED BY <1>7, <2>1, <3>1, <3>2
    <2>2. CASE u # t
      BY <1>1, <2>2 DEF Runs
    <2> QED BY <2>1, <2>2
  <1> QED BY <1>2, <1>3, <1>4, <1>6, <1>8

----------------------------------------------------------------------------
(* The invariant *)

LEMMA InitInv == Init => ClassInv
  <1> SUFFICES ASSUME Init PROVE ClassInv
    OBVIOUS
  <1>1. TypeOK
    BY DEF Init, TypeOK
  <1>2. \A t \in Threads : \A c : ~Runs(t, c)
    BY DEF Init, Runs
  <1>3. OnePlace
    BY DEF Init, OnePlace
  <1>4. Calls /\ Mutex /\ ReadyOnReturn
    BY DEF Init, Calls, Mutex, ReadyOnReturn
  <1>5. Progress /\ Owners
    BY <1>2, NoThreadAssumption DEF Init, Progress, InCctorEnd, Owners
  <1> QED BY <1>1, <1>2, <1>3, <1>4, <1>5 DEF ClassInv, OneThread, NotEnded

\* Steps of a thread inside ClassInit that change nothing of a class or a stack.
LEMMA PrivateStep ==
  ASSUME ClassInv, NEW t \in Threads, UNCHANGED <<class, running>>,
         /\ TypeOK' /\ Calls' /\ Mutex'
         /\ \A u \in Threads \ {t} : pc'[u] = pc[u] /\ call'[u] = call[u] /\ outcome'[u] = outcome[u],
         pc'[t] \notin {"succeeded", "threw"},
         pc'[t] = "free" => ~started[call'[t]],
         outcome'[t] = "returned" => finished[call'[t]] \/ Runs(t, call'[t]),
         outcome'[t] = "raised" => failed[call'[t]]
  PROVE  ClassInv'
  <1>1. \A u \in Threads : \A c : Runs(u, c)' <=> Runs(u, c)
    BY DEF Runs
  <1>2. Progress'
    BY <1>1 DEF class, ClassInv, Progress, InCctorEnd
  <1>3. Owners' /\ OneThread' /\ NotEnded'
    BY <1>1 DEF class, ClassInv, Owners, OneThread, NotEnded
  <1>4. OnePlace'
    BY DEF ClassInv, OnePlace
  <1>5. ReadyOnReturn'
    <2>1. outcome'[t] = "raised" => call'[t] \in Classes
      BY DEF Calls
    <2> QED BY <1>1, <2>1 DEF class, ClassInv, Progress, ReadyOnReturn
  <1> QED BY <1>2, <1>3, <1>4, <1>5 DEF ClassInv

LEMMA CallKeepsInv ==
  ASSUME ClassInv, NEW t \in Threads, NEW c \in Classes, CallClassInit(t, c)
  PROVE  ClassInv'
  <1>1. /\ TypeOK /\ Calls /\ Mutex /\ pc[t] = "managed"
        /\ UNCHANGED <<class, lock, running>> /\ call' = [call EXCEPT ![t] = c]
        /\ \/ finished[c] /\ pc' = [pc EXCEPT ![t] = "managed"]
              /\ outcome' = [outcome EXCEPT ![t] = "returned"]
           \/ pc' = [pc EXCEPT ![t] = "entered"] /\ outcome' = [outcome EXCEPT ![t] = "none"]
    BY DEF ClassInv, CallClassInit, InManagedCode, End
  <1>2. TypeOK'
    BY <1>1 DEF TypeOK, class
  <1>3. Calls' /\ Mutex'
    BY <1>1 DEF TypeOK, Calls, Mutex
  <1>4. /\ \A u \in Threads \ {t} : pc'[u] = pc[u] /\ call'[u] = call[u] /\ outcome'[u] = outcome[u]
        /\ pc'[t] \in {"managed", "entered"} /\ outcome'[t] \in {"returned", "none"}
        /\ outcome'[t] = "returned" => finished[call'[t]]
    BY <1>1 DEF TypeOK
  <1> QED BY <1>1, <1>2, <1>3, <1>4, PrivateStep

LEMMA InnerStepKeepsInv ==
  ASSUME ClassInv, NEW t \in Threads,
         AcquireLock(t) \/ CheckStarted(t) \/ CheckOwner(t) \/ StopWaiting(t)
  PROVE  ClassInv'
  <1> USE DEF End, Goto
  <1>0. TypeOK /\ Calls /\ Mutex
    BY DEF ClassInv
  <1>1. CASE AcquireLock(t)
    <2>1. TypeOK'
      BY <1>0, <1>1 DEF AcquireLock, TypeOK, class
    <2>2. Calls' /\ Mutex'
      BY <1>0, <1>1, NoThreadAssumption DEF AcquireLock, TypeOK, Calls, Mutex
    <2>3. /\ \A u \in Threads \ {t} : pc'[u] = pc[u] /\ outcome'[u] = outcome[u]
          /\ call' = call /\ pc'[t] \in {"managed", "locked"}
          /\ outcome'[t] \in {"returned", "none"}
          /\ outcome'[t] = "returned" => finished[call'[t]]
      BY <1>0, <1>1 DEF AcquireLock, TypeOK, Calls
    <2> QED BY <1>1, <2>1, <2>2, <2>3, PrivateStep DEF AcquireLock
  <1>2. CASE CheckStarted(t)
    <2>1. TypeOK'
      <3>1. lock' \in {u \in Threads : pc'[u] \in {"locked", "free"}} \cup {NoThread}
        BY <1>0, <1>2 DEF CheckStarted, TypeOK, Mutex
      <3>2. pc' \in [Threads -> {"managed", "entered", "locked", "free", "started", "waiting",
                                 "succeeded", "threw"}]
        BY <1>0, <1>2 DEF CheckStarted, TypeOK
      <3> QED BY <1>0, <1>2, <3>1, <3>2 DEF CheckStarted, TypeOK, class
    <2>2. Calls' /\ Mutex'
      BY <1>0, <1>2 DEF CheckStarted, TypeOK, Calls, Mutex
    <2>3. /\ \A u \in Threads \ {t} : pc'[u] = pc[u] /\ outcome'[u] = outcome[u]
          /\ call' = call /\ pc'[t] \in {"started", "free"} /\ outcome'[t] = "none"
          /\ pc'[t] = "free" => ~started[call'[t]]
      BY <1>0, <1>2 DEF CheckStarted, TypeOK, Calls
    <2> QED BY <1>2, <2>1, <2>2, <2>3, PrivateStep DEF CheckStarted
  <1>3. CASE CheckOwner(t)
    <2>1. TypeOK'
      BY <1>0, <1>3 DEF CheckOwner, TypeOK, class
    <2>2. Calls' /\ Mutex'
      BY <1>0, <1>3 DEF CheckOwner, TypeOK, Calls, Mutex
    <2>3. cctorThread[call[t]] = t => Runs(t, call[t])
      BY <1>0, <1>3 DEF CheckOwner, ClassInv, Owners, Calls
    <2>4. /\ \A u \in Threads \ {t} : pc'[u] = pc[u] /\ outcome'[u] = outcome[u]
          /\ call' = call /\ pc'[t] \in {"managed", "waiting"}
          /\ outcome'[t] \in {"returned", "none"}
          /\ outcome'[t] = "returned" => Runs(t, call'[t])
      BY <1>0, <1>3, <2>3 DEF CheckOwner, TypeOK, Calls
    <2> QED BY <1>3, <2>1, <2>2, <2>4, PrivateStep DEF CheckOwner
  <1>4. CASE StopWaiting(t)
    <2>1. TypeOK'
      BY <1>0, <1>4 DEF StopWaiting, TypeOK, class
    <2>2. Calls' /\ Mutex'
      BY <1>0, <1>4 DEF StopWaiting, TypeOK, Calls, Mutex
    <2>3. /\ \A u \in Threads \ {t} : pc'[u] = pc[u] /\ outcome'[u] = outcome[u]
          /\ call' = call /\ pc'[t] \in {"managed", "waiting"}
          /\ outcome'[t] = "returned" => finished[call'[t]]
          /\ outcome'[t] = "raised" => failed[call'[t]]
      BY <1>0, <1>4 DEF StopWaiting, TypeOK, Calls
    <2> QED BY <1>4, <2>1, <2>2, <2>3, PrivateStep DEF StopWaiting
  <1> QED BY <1>1, <1>2, <1>3, <1>4

\* The claim: the class is not started, so nobody runs it or has run it.
LEMMA ClaimKeepsInv ==
  ASSUME ClassInv, NEW t \in Threads, Claim(t)
  PROVE  ClassInv'
  <1> DEFINE c == call[t]
  <1>1. /\ TypeOK /\ Calls /\ Mutex /\ Progress /\ Owners /\ OnePlace /\ OneThread /\ NotEnded
        /\ ReadyOnReturn
        /\ pc[t] = "free" /\ c \in Classes /\ outcome[t] = "none" /\ lock = t
        /\ cctorThread' = [cctorThread EXCEPT ![c] = t] /\ started' = [started EXCEPT ![c] = TRUE]
        /\ lock' = NoThread /\ running' = [running EXCEPT ![t] = <<c>> \o @]
        /\ pc' = [pc EXCEPT ![t] = "managed"]
        /\ UNCHANGED <<outcome, finished, failed, call>>
    BY DEF ClassInv, Claim, Goto, Calls, Mutex
  <1>2. /\ ~started[c] /\ ~finished[c] /\ ~failed[c]
        /\ \A u \in Threads : ~Runs(u, c)
        /\ \A u \in Threads : InCctorEnd(u) => call[u] # c
    BY <1>1 DEF Progress
  <1>3. /\ running' \in [Threads -> Seq(Classes)] /\ OnePlace'
        /\ \A u \in Threads, d \in Classes : Runs(u, d)' <=> Runs(u, d) \/ (u = t /\ d = c)
    <2>1. TypeOK /\ OnePlace /\ ~Runs(t, c) /\ c \in Classes
          /\ running' = [running EXCEPT ![t] = <<c>> \o @]
      BY <1>1, <1>2
    <2> HIDE DEF c
    <2> QED BY <2>1, Push
  <1>4. TypeOK'
    BY <1>1, <1>3 DEF TypeOK
  <1>5. Calls' /\ Mutex'
    BY <1>1, NoThreadAssumption DEF TypeOK, Calls, Mutex
  <1>6. Progress'
    <2>1. \A u \in Threads : InCctorEnd(u)' => InCctorEnd(u) /\ u # t /\ call[u] \in Classes
      BY <1>1 DEF TypeOK, InCctorEnd, Calls
    <2>2. \A u \in Threads : pc'[u] # "free"
      BY <1>1 DEF TypeOK, Mutex
    <2> QED BY <1>1, <1>2, <1>3, <2>1, <2>2 DEF TypeOK, Progress
  <1>7. Owners' /\ OneThread' /\ NotEnded'
    <2>1. Owners'
      BY <1>1, <1>3 DEF TypeOK, Owners
    <2>2. OneThread'
      BY <1>2, <1>1, <1>3 DEF OneThread
    <2>3. NotEnded'
      BY <1>1, <1>2, <1>3 DEF NotEnded
    <2> QED BY <2>1, <2>2, <2>3
  <1>8. ReadyOnReturn'
    BY <1>1, <1>3 DEF ReadyOnReturn, Calls
  <1> QED BY <1>3, <1>4, <1>5, <1>6, <1>7, <1>8 DEF ClassInv

LEMMA EndCctorKeepsInv ==
  ASSUME ClassInv, NEW t \in Threads, EndCctor(t)
  PROVE  ClassInv'
  <1>0. /\ TypeOK /\ OnePlace /\ running[t] # <<>>
        /\ running' = [running EXCEPT ![t] = Tail(@)]
    BY DEF ClassInv, EndCctor
  <1>a. PICK c \in Classes : c = Head(running[t])
    BY <1>0, Pop
  <1>1. /\ TypeOK /\ Calls /\ Mutex /\ Progress /\ Owners /\ OneThread /\ NotEnded
        /\ ReadyOnReturn
        /\ pc[t] = "managed"
        /\ call' = [call EXCEPT ![t] = c] /\ cctorThread' = [cctorThread EXCEPT ![c] = NoThread]
        /\ outcome' = [outcome EXCEPT ![t] = "none"]
        /\ \E to \in {"succeeded", "threw"} : pc' = [pc EXCEPT ![t] = to]
        /\ UNCHANGED <<finished, started, failed, lock>>
    BY <1>a DEF ClassInv, EndCctor, InManagedCode
  <1>2. /\ Runs(t, c) /\ running' \in [Threads -> Seq(Classes)] /\ OnePlace'
        /\ \A u \in Threads, d \in Classes : Runs(u, d)' <=> Runs(u, d) /\ ~(u = t /\ d = c)
    BY <1>0, <1>a, Pop
  <1>3. TypeOK'
    BY <1>1, <1>2 DEF TypeOK
  <1>4. Calls' /\ Mutex'
    BY <1>1, <1>2 DEF TypeOK, Calls, Mutex
  <1>5. /\ started[c] /\ ~finished[c] /\ ~failed[c]
        /\ \A u \in Threads : ~Runs(u, c)'
        /\ \A u \in Threads : InCctorEnd(u) => call[u] # c
    <2>1. started[c] /\ ~finished[c] /\ ~failed[c]
      BY <1>1, <1>2 DEF Progress, NotEnded
    <2>2. \A u \in Threads : ~Runs(u, c)'
      BY <1>1, <1>2 DEF OneThread
    <2>3. \A u \in Threads : InCctorEnd(u) => call[u] # c
      BY <1>1, <1>2 DEF Progress
    <2> QED BY <2>1, <2>2, <2>3
  <1>6. Progress'
    <2>1. /\ InCctorEnd(t)' /\ call'[t] = c /\ pc'[t] # "free"
          /\ \A u \in Threads \ {t} : /\ pc'[u] = pc[u] /\ call'[u] = call[u]
                                      /\ InCctorEnd(u)' <=> InCctorEnd(u)
      BY <1>1 DEF TypeOK, InCctorEnd
    <2>2. \A u \in Threads \ {t} : InCctorEnd(u) => call[u] \in Classes
      BY <1>1 DEF InCctorEnd, Calls
    <2>3. \A u \in Threads : pc'[u] = "free" => ~started'[call'[u]]
      BY <1>1, <2>1 DEF Progress
    <2>4. \A u \in Threads, d \in Classes : Runs(u, d)' => started'[d]
      BY <1>1, <1>2 DEF Progress
    <2>5. ASSUME NEW u \in Threads, InCctorEnd(u)'
          PROVE  /\ started'[call'[u]] /\ ~finished'[call'[u]] /\ ~failed'[call'[u]]
                 /\ \A v \in Threads : ~Runs(v, call[u])'
                 /\ \A v \in Threads : v # u /\ InCctorEnd(v)' => call'[v] # call'[u]
      <3>1. PICK k \in Classes : k = call'[u]
        BY <1>1, <2>1, <2>2, <2>5
      <3>2. CASE u = t
        <4>1. k = c
          BY <2>1, <3>1, <3>2
        <4>2. \A v \in Threads : ~Runs(v, call[u])'
          BY <1>5, <3>1, <4>1
        <4> QED BY <1>1, <1>5, <2>1, <3>1, <3>2, <4>1, <4>2
      <3>3. CASE u # t
        <4>1. InCctorEnd(u) /\ k = call[u]
          BY <2>1, <2>5, <3>1, <3>3
        <4>2. \A v \in Threads : ~Runs(v, k)'
          BY <1>1, <1>2, <4>1 DEF Progress
        <4>3. \A v \in Threads : ~Runs(v, call[u])'
          BY <3>1, <4>2
        <4>4. started[k] /\ ~finished[k] /\ ~failed[k] /\ k # c
          BY <1>1, <1>5, <4>1 DEF Progress
        <4>5. \A v \in Threads : v # u /\ InCctorEnd(v)' => call'[v] # k
          BY <1>1, <2>1, <3>3, <4>1, <4>4 DEF Progress
        <4> QED BY <1>1, <3>1, <4>3, <4>4, <4>5
      <3> QED BY <3>2, <3>3
    <2> QED BY <1>1, <2>3, <2>4, <2>5 DEF Progress
  <1>7. Owners' /\ OneThread' /\ NotEnded'
    BY <1>1, <1>2, NoThreadAssumption DEF TypeOK, Owners, OneThread, NotEnded
  <1>8. ReadyOnReturn'
    BY <1>1, <1>2 DEF TypeOK, ReadyOnReturn, Calls
  <1> QED BY <1>2, <1>3, <1>4, <1>6, <1>7, <1>8 DEF ClassInv

LEMMA PublishKeepsInv ==
  ASSUME ClassInv, NEW t \in Threads, Publish(t)
  PROVE  ClassInv'
  <1> DEFINE c == call[t]
  <1>1. /\ TypeOK /\ Calls /\ Mutex /\ Progress /\ Owners /\ OnePlace /\ OneThread /\ NotEnded
        /\ ReadyOnReturn
        /\ InCctorEnd(t) /\ c \in Classes
        /\ pc' = [pc EXCEPT ![t] = "managed"]
        /\ \/ /\ finished' = [finished EXCEPT ![c] = TRUE] /\ UNCHANGED failed
              /\ outcome' = [outcome EXCEPT ![t] = "returned"]
           \/ /\ failed' = [failed EXCEPT ![c] = TRUE] /\ UNCHANGED finished
              /\ outcome' = [outcome EXCEPT ![t] = "raised"]
        /\ UNCHANGED <<started, cctorThread, lock, running, call>>
    BY DEF ClassInv, Publish, End, InCctorEnd, Calls
  <1>2. \A u \in Threads : \A d : Runs(u, d)' <=> Runs(u, d)
    BY <1>1 DEF Runs
  <1>3. /\ started[c] /\ ~finished[c] /\ ~failed[c]
        /\ \A u \in Threads : ~Runs(u, c)
        /\ \A u \in Threads : u # t /\ InCctorEnd(u) => call[u] # c
    BY <1>1 DEF Progress
  <1>4. TypeOK'
    BY <1>1 DEF TypeOK, InCctorEnd
  <1>5. Calls' /\ Mutex'
    BY <1>1 DEF TypeOK, Calls, Mutex
  <1>6. Progress'
    <2>1. \A u \in Threads : InCctorEnd(u)' => InCctorEnd(u) /\ u # t /\ call[u] \in Classes
      BY <1>1 DEF TypeOK, InCctorEnd, Calls
    <2>2. \A u \in Threads : pc'[u] = "free" => pc[u] = "free" /\ u # t
      BY <1>1 DEF TypeOK
    <2>3. \A d \in Classes : d # c => finished'[d] = finished[d] /\ failed'[d] = failed[d]
      BY <1>1 DEF TypeOK
    <2>4. \A u, v \in Threads : InCctorEnd(u)' => ~Runs(v, call[u])'
      BY <1>1, <1>2, <2>1 DEF Progress
    <2>5. \A d \in Classes : ~(finished'[d] /\ failed'[d]) /\ (finished'[d] \/ failed'[d] => started'[d])
      <3>1. ASSUME NEW d \in Classes
            PROVE  ~(finished'[d] /\ failed'[d]) /\ (finished'[d] \/ failed'[d] => started'[d])
        <4>1. CASE d = c
          <5>1. ~finished'[c] \/ ~failed'[c]
            BY <1>1, <1>3
          <5> QED BY <1>1, <1>3, <4>1, <5>1
        <4>2. CASE d # c
          BY <1>1, <2>3, <4>2 DEF Progress
        <4> QED BY <4>1, <4>2
      <3> QED BY <3>1
    <2>6. \A u \in Threads : InCctorEnd(u)' =>
             /\ started'[call'[u]] /\ ~finished'[call'[u]] /\ ~failed'[call'[u]]
             /\ \A v \in Threads : v # u /\ InCctorEnd(v)' => call'[v] # call'[u]
      BY <1>1, <1>3, <2>1, <2>3 DEF Progress
    <2> QED BY <1>1, <1>2, <2>2, <2>4, <2>5, <2>6 DEF Progress
  <1>7. Owners' /\ OneThread' /\ NotEnded' /\ OnePlace'
    <2>1. Owners' /\ OneThread' /\ OnePlace'
      BY <1>1, <1>2 DEF Owners, OneThread, OnePlace
    <2>2. NotEnded'
      <3>1. ASSUME NEW u \in Threads, NEW d \in Classes, Runs(u, d)'
            PROVE  ~finished'[d] /\ ~failed'[d]
        <4>1. Runs(u, d)
          BY <1>2, <3>1
        <4>2. d # c
          BY <1>3, <4>1
        <4>3. finished'[d] = finished[d] /\ failed'[d] = failed[d]
          BY <1>1, <4>2 DEF TypeOK
        <4> QED BY <1>1, <4>1, <4>3 DEF NotEnded
      <3> QED BY <3>1 DEF NotEnded
    <2> QED BY <2>1, <2>2
  <1>8. ReadyOnReturn'
    BY <1>1, <1>2, <1>3 DEF TypeOK, ReadyOnReturn, Calls, Progress
  <1> QED BY <1>4, <1>5, <1>6, <1>7, <1>8 DEF ClassInv

LEMMA NextKeepsInv == ClassInv /\ [Next]_vars => ClassInv'
  <1> SUFFICES ASSUME ClassInv, [Next]_vars PROVE ClassInv'
    OBVIOUS
  <1>1. ASSUME NEW t \in Threads, Step(t) PROVE ClassInv'
    BY <1>1, InnerStepKeepsInv, ClaimKeepsInv, PublishKeepsInv DEF Step
  <1>2. CASE UNCHANGED vars
    BY <1>2 DEF vars, ClassInv, TypeOK, Calls, Mutex, Progress, Owners, OnePlace, OneThread,
                NotEnded, ReadyOnReturn, Runs, InCctorEnd
  <1> QED BY <1>1, <1>2, CallKeepsInv, EndCctorKeepsInv DEF Next

----------------------------------------------------------------------------

THEOREM ClassInvCorrect == Spec => []ClassInv
  BY InitInv, NextKeepsInv, PTL DEF Spec

\* The lock is held only by a thread that checks or claims a class
\* (Runtime.cpp:1083-1120), and every variable keeps its type.
THEOREM ClassInitTypeCorrect == Spec => []TypeOK
  <1>1. ClassInv => TypeOK
    BY DEF ClassInv
  <1> QED BY <1>1, ClassInvCorrect, PTL

\* A static constructor is never run by two threads, twice by one, or again.
THEOREM OneCctorCorrect == Spec => []OneCctor
  <1>1. ClassInv => OneCctor
    <2> SUFFICES ASSUME ClassInv, NEW t \in Threads, NEW i \in 1 .. Len(running[t])
                 PROVE  LET c == running[t][i] IN
                        /\ ~finished[c] /\ ~failed[c]
                        /\ \A u \in Threads : \A j \in 1 .. Len(running[u]) :
                              running[u][j] = c => u = t /\ i = j
      BY DEF OneCctor
    <2>1. running[t][i] \in Classes /\ Runs(t, running[t][i])
      BY StackElements DEF ClassInv, Runs
    <2>2. \A u \in Threads : \A j \in 1 .. Len(running[u]) :
              running[u][j] = running[t][i] => Runs(u, running[t][i])
      BY DEF Runs
    <2> QED BY <2>1, <2>2 DEF ClassInv, NotEnded, OneThread, OnePlace
  <1> QED BY <1>1, ClassInvCorrect, PTL

\* A class is ready, or its constructor runs further out on the same thread,
\* when ClassInit returns; when it raises, the class has failed for good.
THEOREM ReadyOnReturnCorrect == Spec => []ReadyOnReturn
  <1>1. ClassInv => ReadyOnReturn
    BY DEF ClassInv
  <1> QED BY <1>1, ClassInvCorrect, PTL

=============================================================================
