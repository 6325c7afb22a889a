--------------------------- MODULE ThreadPoolProofs ---------------------------
(***************************************************************************)
(* Proofs about ThreadPool for any set of functions and any number of      *)
(* workers. One inductive invariant, IInv, carries all of them.            *)
(***************************************************************************)
EXTENDS ThreadPool, FiniteSetTheorems, SequenceTheorems, WellFoundedInduction, TLAPS

\* Induction over numbers and definition by recursion, as facts about sets
\* and functions.
Less == {ss \in Nat \X Nat : ss[1] < ss[2]}

LEMMA LeastExists ==
  ASSUME NEW T, T \subseteq Nat, T # {}
  PROVE  \E x \in T : \A y \in T : x <= y
<1>1. IsWellFoundedOn(Less, Nat)
  <2>1. Less = OpToRel(<, Nat)
    BY DEF Less, OpToRel
  <2>2. QED  BY <2>1, NatLessThanWellFounded
<1>2. PICK x \in T : \A y \in T : <<y, x>> \notin Less
  BY <1>1, WFMin
<1>3. ASSUME NEW y \in T PROVE x <= y
  <2>1. x \in Nat /\ y \in Nat /\ (y < x => <<y, x>> \in Less)
    BY DEF Less
  <2>2. QED  BY <2>1, <1>2
<1>4. QED  BY <1>3

LEMMA UpTo ==
  ASSUME NEW n \in Nat, NEW S, 0 \in S, \A k \in 0 .. n - 1 : k \in S => k + 1 \in S
  PROVE  \A k \in 0 .. n : k \in S
<1> SUFFICES ASSUME (0 .. n) \ S # {} PROVE FALSE
  OBVIOUS
<1>1. PICK m \in (0 .. n) \ S : \A k \in (0 .. n) \ S : m <= k
  <2>1. (0 .. n) \ S \subseteq Nat
    OBVIOUS
  <2>2. QED  BY <2>1, LeastExists
<1>2. m - 1 \in 0 .. n - 1
  OBVIOUS
<1>3. m - 1 \in S
  BY <1>1, <1>2
<1>4. (m - 1) + 1 \in S
  BY <1>2, <1>3
<1>5. QED  BY <1>4

\* The functions that are defined from their value for the number before.
Steps(n, T) == [(1 .. n) \X T -> T]
Recursive(n, T, base, h, r) ==
  r \in [0 .. n -> T] /\ r[0] = base /\ \A k \in 1 .. n : r[k] = h[<<k, r[k - 1]>>]

LEMMA Recursion ==
  ASSUME NEW n \in Nat, NEW T, NEW base \in T, NEW h \in Steps(n, T)
  PROVE  \E r : Recursive(n, T, base, h, r)
<1> USE DEF Steps, Recursive
<1> DEFINE Ok(m, r) == r[0] = base /\ \A k \in 1 .. m : r[k] = h[<<k, r[k - 1]>>]
           S == {m \in 0 .. n : \E r \in [0 .. n -> T] : Ok(m, r)}
<1>1. 0 \in S
  <2>1. [k \in 0 .. n |-> base] \in [0 .. n -> T] /\ Ok(0, [k \in 0 .. n |-> base])
    OBVIOUS
  <2> HIDE DEF Ok
  <2>2. QED  BY <2>1
<1>2. ASSUME NEW m \in 0 .. n - 1, m \in S PROVE m + 1 \in S
  <2>1. PICK r \in [0 .. n -> T] : Ok(m, r)
    BY <1>2
  <2> DEFINE t == [r EXCEPT ![m + 1] = h[<<m + 1, r[m]>>]]
  <2>2. m + 1 \in 1 .. n /\ m \in 0 .. n /\ <<m + 1, r[m]>> \in (1 .. n) \X T
    OBVIOUS
  <2>3. h[<<m + 1, r[m]>>] \in T
    BY <2>2
  <2>4. t \in [0 .. n -> T]
    BY <2>2, <2>3
  <2>5. Ok(m + 1, t)
    <3>1. t[0] = base
      BY <2>1, <2>2
    <3>2. ASSUME NEW k \in 1 .. m + 1 PROVE t[k] = h[<<k, t[k - 1]>>]
      <4>1. t[k - 1] = r[k - 1]
        BY <2>2
      <4>2. CASE k = m + 1
        BY <4>1, <4>2, <2>2
      <4>3. CASE k \in 1 .. m
        BY <4>1, <4>3, <2>1, <2>2
      <4>4. QED  BY <4>2, <4>3
    <3>3. QED  BY <3>1, <3>2
  <2> HIDE DEF Ok, t
  <2>6. QED  BY <2>2, <2>4, <2>5
<1>3. n \in S
  <2> HIDE DEF S
  <2>1. QED  BY <1>1, <1>2, UpTo
<1>4. QED  BY <1>3
-------------------------------------------------------------------------------

\* Threads and mutexes have different identities, and Workers is an interval.
LEMMA Distinct ==
  /\ dispatcher # owner
  /\ dispatcher \notin Workers \cup Tasks /\ owner \notin Workers \cup Tasks
  /\ Workers \cap Tasks = {} /\ NULL \notin Workers \cup Tasks
  /\ Threads = Tasks \cup Workers \cup {dispatcher, owner}
  /\ Mutexes = Workers \cup {mutexFilaFuncoes, mutexFilaThreads}
  /\ mutexFilaFuncoes # mutexFilaThreads
  /\ mutexFilaFuncoes \notin Workers /\ mutexFilaThreads \notin Workers
  /\ NULL \notin Mutexes
  BY ThreadPoolAssumption DEF Threads, Workers, dispatcher, owner, Mutexes,
                              mutexFilaFuncoes, mutexFilaThreads

LEMMA Interval ==
  /\ quantThreadsMax \in Nat \ {0}
  /\ \A w : w \in Workers <=> w \in Nat /\ w < quantThreadsMax
  BY ThreadPoolAssumption DEF Workers

\* What the locals of the dispatcher, of wait() and of the workers hold at the
\* program points that use them.
LocalsOK ==
  /\ dpc \in {"lockThreads", "choose", "waitThread", "sleepThread",
              "lockWorker", "store"} => funcao \in Tasks
  /\ dpc \in {"lockWorker", "store"} => escolhida \in Workers
  /\ opc \in {"idle", "lockClose", "close", "joinD"} => i = 0
  /\ opc \in {"lockT", "signalT", "joinT"} => i < quantThreadsMax
  /\ opc = "signalT" => i < quantThreads
  /\ \A w \in Workers :
       /\ wpc[w] = "unborn" <=> w >= quantThreads
       /\ wpc[w] = "call" => funcaoTrabalhar[w] \in Tasks
       /\ wpc[w] = "running" => running[w] \in Tasks

TypeInv == TypeOK /\ LocalsOK

LEMMA TypeInvInit == Init => TypeInv
  <1> SUFFICES ASSUME Init PROVE TypeOK /\ LocalsOK
    BY DEF TypeInv
  <1>1. TypeOK
    <2>1. /\ dpc \in DispatcherPC /\ opc \in OwnerPC
          /\ wpc \in [Workers -> WorkerPC] /\ call \in [Tasks -> CallerPC]
      BY DEF Init, DispatcherPC, OwnerPC, WorkerPC, CallerPC
    <2>2. /\ filaFuncoes \in Seq(Tasks) /\ agenda \in Seq(Tasks)
          /\ filaThreads \in Seq(Workers)
          /\ quantThreads \in 0 .. quantThreadsMax /\ i \in 0 .. quantThreadsMax
      BY Interval DEF Init
    <2> QED
      BY <2>1, <2>2 DEF Init, TypeOK
  <1>2. LocalsOK
    BY Interval DEF Init, LocalsOK
  <1> QED
    BY <1>1, <1>2

LEMMA TypeInvNext == TypeInv /\ [Next]_vars => TypeInv'
  <1> SUFFICES ASSUME TypeInv, [Next]_vars PROVE TypeInv'
    OBVIOUS
  <1> USE Distinct
      DEF TypeInv, TypeOK, LocalsOK, DispatcherPC, OwnerPC, WorkerPC, CallerPC,
          DGoto, OGoto, WGoto, CGoto, Lock, CondWait, Unlock, Signal,
          data, queue, threads, slots, locals, work
  <1>1. ASSUME NEW f \in Tasks, Call(f) PROVE TypeInv'
    BY <1>1 DEF Call
  <1>2. ASSUME NEW f \in Tasks, Schedule(f) PROVE TypeInv'
    <2>1. CASE CGoto(f, "lockSchedule", "schedule") /\ Lock(mutexFilaFuncoes)
      BY <2>1
    <2>2. CASE Push(f)
      BY <2>2 DEF Push
    <2> QED
      BY <1>2, <2>1, <2>2 DEF Schedule
  <1>3. CASE Dispatcher
    <2>1. CASE DGoto("lockFuncoes", "fetch") /\ Lock(mutexFilaFuncoes)
      BY <2>1
    <2>2. CASE Fetch
      <3>1. CASE filaFuncoes # <<>>
        <4>1. Head(filaFuncoes) \in Tasks /\ Tail(filaFuncoes) \in Seq(Tasks)
          BY <3>1
        <4> QED
          BY <2>2, <3>1, <4>1 DEF Fetch, MayStop
      <3>2. CASE filaFuncoes = <<>>
        BY <2>2, <3>2 DEF Fetch, MayStop
      <3> QED
        BY <3>1, <3>2
    <2>3. CASE DGoto("waitFuncao", "sleepFuncao") /\ CondWait(mutexFilaFuncoes)
      BY <2>3
    <2>4. CASE SetExit
      BY <2>4 DEF SetExit
    <2>5. CASE DGoto("lockThreads", "choose") /\ Lock(mutexFilaThreads)
      BY <2>5
    <2>6. CASE Spawn
      <3>1. quantThreads \in Workers /\ quantThreads' \in 0 .. quantThreadsMax
        <4>1. quantThreads \in Nat /\ quantThreads < quantThreadsMax
              /\ quantThreads' = quantThreads + 1
          BY <2>6, Interval DEF Spawn, NoMoreThreads
        <4> QED
          BY <4>1, ThreadPoolAssumption DEF Workers
      <3>2. TypeOK'
        BY <2>6, <3>1, Interval DEF Spawn
      <3>3. LocalsOK'
        BY <2>6, <3>1, Interval DEF Spawn
      <3> QED
        BY <3>2, <3>3
    <2>7. CASE Choose
      <3>1. CASE filaThreads # <<>>
        <4>1. Head(filaThreads) \in Workers /\ Tail(filaThreads) \in Seq(Workers)
          BY <3>1
        <4> QED
          BY <2>7, <3>1, <4>1 DEF Choose, NoMoreThreads
      <3>2. CASE filaThreads = <<>>
        BY <2>7, <3>2 DEF Choose, NoMoreThreads
      <3> QED
        BY <3>1, <3>2
    <2>8. CASE DGoto("waitThread", "sleepThread") /\ CondWait(mutexFilaThreads)
      BY <2>8
    <2>9. CASE DGoto("lockWorker", "store") /\ Lock(escolhida)
      BY <2>9
    <2>10. CASE Store
      BY <2>10 DEF Store
    <2> QED
      BY <1>3, <2>1, <2>2, <2>3, <2>4, <2>5, <2>6, <2>7, <2>8, <2>9, <2>10
      DEF Dispatcher
  <1>4. ASSUME NEW w \in Workers, Trabalhar(w) PROVE TypeInv'
    <2>1. CASE WGoto(w, "lockFila", "push") /\ Lock(mutexFilaThreads)
      BY <2>1
    <2>2. CASE Offer(w)
      BY <2>2 DEF Offer
    <2>3. CASE WGoto(w, "lockOwn", "check") /\ Lock(w)
      BY <2>3
    <2>4. CASE Check(w)
      <3>1. TypeOK'
        BY <2>4 DEF Check
      <3>2. LocalsOK'
        BY <2>4 DEF Check
      <3> QED
        BY <3>1, <3>2
    <2>5. CASE WGoto(w, "waitContinuar", "sleepContinuar") /\ CondWait(w)
      BY <2>5
    <2>6. CASE Begin(w)
      BY <2>6 DEF Begin
    <2>7. CASE Finish(w)
      BY <2>7 DEF Finish
    <2>8. CASE Clear(w)
      BY <2>8 DEF Clear
    <2> QED
      BY <1>4, <2>1, <2>2, <2>3, <2>4, <2>5, <2>6, <2>7, <2>8 DEF Trabalhar
  <1>5. CASE CallWait
    BY <1>5 DEF CallWait
  <1>6. CASE Wait
    <2>1. CASE OGoto("lockClose", "close") /\ Lock(mutexFilaFuncoes)
      BY <2>1
    <2>2. CASE Close
      BY <2>2 DEF Close, Range
    <2>3. CASE JoinDispatcher
      BY <2>3, Interval DEF JoinDispatcher
    <2>4. CASE i < quantThreads /\ OGoto("lockT", "signalT") /\ Lock(i)
      <3>1. i \in Workers
        BY <2>4, ThreadPoolAssumption DEF Workers
      <3> QED
        BY <2>4, <3>1
    <2>5. CASE SignalWorker
      BY <2>5 DEF SignalWorker
    <2>6. CASE JoinWorker
      BY <2>6, Interval DEF JoinWorker, NextWorker, MoreWorkers
    <2>7. CASE Uninitialised
      <3>1. CASE NextWorker("lockT")
        BY <3>1, Interval DEF NextWorker, MoreWorkers
      <3>2. CASE OGoto("lockT", "undefined") /\ UNCHANGED <<locked, data>>
        BY <3>2
      <3> QED
        BY <2>7, <3>1, <3>2 DEF Uninitialised
    <2> QED
      BY <1>6, <2>1, <2>2, <2>3, <2>4, <2>5, <2>6, <2>7 DEF Wait
  <1>7. CASE Destroy
    BY <1>7 DEF Destroy
  <1>8. CASE SpuriousWakeup
    BY <1>8 DEF SpuriousWakeup
  <1>9. CASE UNCHANGED vars
    BY <1>9 DEF vars, pcs
  <1> QED
    BY <1>1, <1>2, <1>3, <1>4, <1>5, <1>6, <1>7, <1>8, <1>9 DEF Next, Terminated

\* Every variable keeps its type.
THEOREM TypeCorrect == Spec => []TypeOK
  <1>1. TypeInv => TypeOK
    BY DEF TypeInv
  <1> QED
    BY <1>1, TypeInvInit, TypeInvNext, PTL DEF Spec

-------------------------------------------------------------------------------
(* Locks: a step that changes who holds what locks or unlocks accordingly *)

HoldsSame == \A t \in Threads, m \in Mutexes : Holds(t, m)' <=> Holds(t, m)
HoldsAlso(u, n) == \A t \in Threads, m \in Mutexes :
  Holds(t, m)' <=> Holds(t, m) \/ (t = u /\ m = n)
HoldsNoMore(u, n) == \A t \in Threads, m \in Mutexes :
  Holds(t, m)' <=> Holds(t, m) /\ ~(t = u /\ m = n)

LEMMA Keep ==
  ASSUME LockDiscipline, HoldsSame, UNCHANGED locked
  PROVE  LockDiscipline'
  BY DEF LockDiscipline, HoldsSame

LEMMA Acquire ==
  ASSUME LockDiscipline, NEW u \in Threads, NEW n \in Mutexes,
         Lock(n), HoldsAlso(u, n)
  PROVE  LockDiscipline'
  BY DEF LockDiscipline, HoldsAlso, Lock

LEMMA Release ==
  ASSUME LockDiscipline, NEW u \in Threads, NEW n \in Mutexes,
         Holds(u, n), HoldsNoMore(u, n), Unlock(n)
  PROVE  LockDiscipline'
  BY DEF LockDiscipline, HoldsNoMore, Unlock

LEMMA LockNext ==
  TypeInv /\ LockDiscipline /\ [Next]_vars => LockDiscipline'
  <1> SUFFICES ASSUME TypeInv, LockDiscipline, [Next]_vars PROVE LockDiscipline'
    OBVIOUS
  <1> USE Distinct
      DEF TypeInv, TypeOK, LocalsOK, DispatcherPC, OwnerPC, WorkerPC, CallerPC,
          Holds, DGoto, OGoto, WGoto, CGoto, Lock, CondWait, Unlock, Signal,
          data, queue, threads, slots, locals, work
  <1>1. ASSUME NEW f \in Tasks, Call(f) PROVE LockDiscipline'
    <2>1. HoldsSame
      BY <1>1 DEF HoldsSame, Call
    <2> QED
      BY <1>1, <2>1, Keep DEF Call
  <1>2. ASSUME NEW f \in Tasks, Schedule(f) PROVE LockDiscipline'
    <2>1. CASE CGoto(f, "lockSchedule", "schedule") /\ Lock(mutexFilaFuncoes)
      <3>1. HoldsAlso(f, mutexFilaFuncoes)
        BY <2>1 DEF HoldsAlso
      <3> QED
        BY <2>1, <3>1, Acquire
    <2>2. CASE Push(f)
      <3>1. Holds(f, mutexFilaFuncoes) /\ HoldsNoMore(f, mutexFilaFuncoes)
        BY <2>2 DEF HoldsNoMore, Push
      <3> QED
        BY <2>2, <3>1, Release DEF Push
    <2> QED
      BY <1>2, <2>1, <2>2 DEF Schedule
  <1>3. CASE Dispatcher
    <2>1. CASE DGoto("lockFuncoes", "fetch") /\ Lock(mutexFilaFuncoes)
      <3>1. HoldsAlso(dispatcher, mutexFilaFuncoes)
        BY <2>1 DEF HoldsAlso
      <3> QED
        BY <2>1, <3>1, Acquire
    <2>2. CASE Fetch
      <3>1. CASE dpc' = "waitFuncao"
        <4>1. HoldsSame /\ UNCHANGED locked
          BY <2>2, <3>1 DEF HoldsSame, Fetch, MayStop
        <4> QED
          BY <4>1, Keep
      <3>2. CASE dpc' # "waitFuncao"
        <4>1. Holds(dispatcher, mutexFilaFuncoes) /\ HoldsNoMore(dispatcher, mutexFilaFuncoes) /\ Unlock(mutexFilaFuncoes)
          BY <2>2, <3>2 DEF HoldsNoMore, Fetch, MayStop
        <4> QED
          BY <4>1, Release
      <3> QED
        BY <2>2, <3>1, <3>2 DEF Fetch, MayStop
    <2>3. CASE DGoto("waitFuncao", "sleepFuncao") /\ CondWait(mutexFilaFuncoes)
      <3>1. Holds(dispatcher, mutexFilaFuncoes) /\ HoldsNoMore(dispatcher, mutexFilaFuncoes)
        BY <2>3 DEF HoldsNoMore
      <3> QED
        BY <2>3, <3>1, Release
    <2>4. CASE SetExit
      <3>1. HoldsSame
        BY <2>4 DEF HoldsSame, SetExit
      <3> QED
        BY <2>4, <3>1, Keep DEF SetExit
    <2>5. CASE DGoto("lockThreads", "choose") /\ Lock(mutexFilaThreads)
      <3>1. HoldsAlso(dispatcher, mutexFilaThreads)
        BY <2>5 DEF HoldsAlso
      <3> QED
        BY <2>5, <3>1, Acquire
    <2>6. CASE Spawn
      <3>1. HoldsSame
        BY <2>6 DEF HoldsSame, Spawn, NoMoreThreads
      <3> QED
        BY <2>6, <3>1, Keep DEF Spawn, NoMoreThreads
    <2>7. CASE Choose
      <3>1. CASE dpc' = "waitThread"
        <4>1. HoldsSame /\ UNCHANGED locked
          BY <2>7, <3>1 DEF HoldsSame, Choose, NoMoreThreads
        <4> QED
          BY <4>1, Keep
      <3>2. CASE dpc' # "waitThread"
        <4>1. Holds(dispatcher, mutexFilaThreads) /\ HoldsNoMore(dispatcher, mutexFilaThreads) /\ Unlock(mutexFilaThreads)
          BY <2>7, <3>2 DEF HoldsNoMore, Choose, NoMoreThreads
        <4> QED
          BY <4>1, Release
      <3> QED
        BY <2>7, <3>1, <3>2 DEF Choose, NoMoreThreads
    <2>8. CASE DGoto("waitThread", "sleepThread") /\ CondWait(mutexFilaThreads)
      <3>1. Holds(dispatcher, mutexFilaThreads) /\ HoldsNoMore(dispatcher, mutexFilaThreads)
        BY <2>8 DEF HoldsNoMore
      <3> QED
        BY <2>8, <3>1, Release
    <2>9. CASE DGoto("lockWorker", "store") /\ Lock(escolhida)
      <3>1. PICK n \in Mutexes : n = escolhida
        BY <2>9, Interval
      <3>2. HoldsAlso(dispatcher, n) /\ Lock(n)
        BY <2>9, <3>1 DEF HoldsAlso
      <3> QED
        BY <3>2, Acquire
    <2>10. CASE Store
      <3>1. PICK n \in Mutexes : n = escolhida
        BY <2>10, Interval DEF Store
      <3>2. Holds(dispatcher, n) /\ HoldsNoMore(dispatcher, n) /\ Unlock(n)
        BY <2>10, <3>1 DEF HoldsNoMore, Store
      <3> QED
        BY <3>2, Release
    <2> QED
      BY <1>3, <2>1, <2>2, <2>3, <2>4, <2>5, <2>6, <2>7, <2>8, <2>9, <2>10 DEF Dispatcher
  <1>4. ASSUME NEW w \in Workers, Trabalhar(w) PROVE LockDiscipline'
    <2>1. CASE WGoto(w, "lockFila", "push") /\ Lock(mutexFilaThreads)
      <3>1. HoldsAlso(w, mutexFilaThreads)
        BY <2>1 DEF HoldsAlso
      <3> QED
        BY <2>1, <3>1, Acquire
    <2>2. CASE Offer(w)
      <3>1. Holds(w, mutexFilaThreads) /\ HoldsNoMore(w, mutexFilaThreads)
        BY <2>2 DEF HoldsNoMore, Offer
      <3> QED
        BY <2>2, <3>1, Release DEF Offer
    <2>3. CASE WGoto(w, "lockOwn", "check") /\ Lock(w)
      <3>1. HoldsAlso(w, w)
        BY <2>3 DEF HoldsAlso
      <3> QED
        BY <2>3, <3>1, Acquire
    <2>4. CASE Check(w)
      <3>1. CASE wpc'[w] = "waitContinuar"
        <4>1. HoldsSame /\ UNCHANGED locked
          BY <2>4, <3>1 DEF HoldsSame, Check
        <4> QED
          BY <4>1, Keep
      <3>2. CASE wpc'[w] # "waitContinuar"
        <4>1. Holds(w, w) /\ HoldsNoMore(w, w) /\ Unlock(w)
          BY <2>4, <3>2 DEF HoldsNoMore, Check
        <4> QED
          BY <4>1, Release
      <3> QED
        BY <2>4, <3>1, <3>2 DEF Check
    <2>5. CASE WGoto(w, "waitContinuar", "sleepContinuar") /\ CondWait(w)
      <3>1. Holds(w, w) /\ HoldsNoMore(w, w)
        BY <2>5 DEF HoldsNoMore
      <3> QED
        BY <2>5, <3>1, Release
    <2>6. CASE Begin(w)
      <3>1. HoldsSame
        BY <2>6 DEF HoldsSame, Begin
      <3> QED
        BY <2>6, <3>1, Keep DEF Begin
    <2>7. CASE Finish(w)
      <3>1. HoldsSame
        BY <2>7 DEF HoldsSame, Finish
      <3> QED
        BY <2>7, <3>1, Keep DEF Finish
    <2>8. CASE Clear(w)
      <3>1. HoldsSame
        BY <2>8 DEF HoldsSame, Clear
      <3> QED
        BY <2>8, <3>1, Keep DEF Clear
    <2> QED
      BY <1>4, <2>1, <2>2, <2>3, <2>4, <2>5, <2>6, <2>7, <2>8 DEF Trabalhar
  <1>5. CASE CallWait
    <2>1. HoldsSame
      BY <1>5 DEF HoldsSame, CallWait
    <2> QED
      BY <1>5, <2>1, Keep DEF CallWait
  <1>6. CASE Wait
    <2>1. CASE OGoto("lockClose", "close") /\ Lock(mutexFilaFuncoes)
      <3>1. HoldsAlso(owner, mutexFilaFuncoes)
        BY <2>1 DEF HoldsAlso
      <3> QED
        BY <2>1, <3>1, Acquire
    <2>2. CASE Close
      <3>1. Holds(owner, mutexFilaFuncoes) /\ HoldsNoMore(owner, mutexFilaFuncoes)
        BY <2>2 DEF HoldsNoMore, Close
      <3> QED
        BY <2>2, <3>1, Release DEF Close
    <2>3. CASE JoinDispatcher
      <3>1. HoldsSame
        BY <2>3 DEF HoldsSame, JoinDispatcher
      <3> QED
        BY <2>3, <3>1, Keep DEF JoinDispatcher
    <2>4. CASE i < quantThreads /\ OGoto("lockT", "signalT") /\ Lock(i)
      <3>1. PICK n \in Mutexes : n = i
        BY <2>4, ThreadPoolAssumption DEF Workers
      <3>2. HoldsAlso(owner, n) /\ Lock(n)
        BY <2>4, <3>1 DEF HoldsAlso
      <3> QED
        BY <3>2, Acquire
    <2>5. CASE SignalWorker
      <3>1. PICK n \in Mutexes : n = i
        BY <2>5, ThreadPoolAssumption DEF SignalWorker, Workers
      <3>2. Holds(owner, n) /\ HoldsNoMore(owner, n) /\ Unlock(n)
        BY <2>5, <3>1 DEF HoldsNoMore, SignalWorker
      <3> QED
        BY <3>2, Release
    <2>6. CASE JoinWorker
      <3>1. HoldsSame
        BY <2>6 DEF HoldsSame, JoinWorker, NextWorker, MoreWorkers
      <3> QED
        BY <2>6, <3>1, Keep DEF JoinWorker, NextWorker, MoreWorkers
    <2>7. CASE Uninitialised
      <3>1. HoldsSame
        BY <2>7 DEF HoldsSame, Uninitialised, NextWorker, MoreWorkers
      <3> QED
        BY <2>7, <3>1, Keep DEF Uninitialised, NextWorker, MoreWorkers
    <2> QED
      BY <1>6, <2>1, <2>2, <2>3, <2>4, <2>5, <2>6, <2>7 DEF Wait
  <1>7. CASE Destroy
    <2>1. HoldsSame
      BY <1>7 DEF HoldsSame, Destroy
    <2> QED
      BY <1>7, <2>1, Keep DEF Destroy
  <1>8. CASE SpuriousWakeup
    <2>1. HoldsSame
      BY <1>8 DEF HoldsSame, SpuriousWakeup
    <2> QED
      BY <1>8, <2>1, Keep DEF SpuriousWakeup
  <1>9. CASE UNCHANGED vars
    <2>1. HoldsSame
      BY <1>9 DEF HoldsSame, vars, pcs
    <2> QED
      BY <1>9, <2>1, Keep DEF vars, pcs
  <1> QED
    BY <1>1, <1>2, <1>3, <1>4, <1>5, <1>6, <1>7, <1>8, <1>9 DEF Next, Terminated

-------------------------------------------------------------------------------
(* Handoff: a worker in filaThreads, or chosen, is one that waits to be given a *)
(* function; it is there once, and cannot have left                              *)

\* The sections in which a step of one thread must not meet another thread.
LEMMA Exclusion ==
  ASSUME TypeInv, LockDiscipline
  PROVE  /\ dpc \in {"fetch", "waitFuncao"} =>
              opc # "close" /\ \A f \in Tasks : call[f] # "schedule"
         /\ dpc \in {"choose", "waitThread"} => \A w \in Workers : wpc[w] # "push"
         /\ dpc = "store" => wpc[escolhida] \notin {"check", "waitContinuar"}
         /\ opc = "signalT" => wpc[i] \notin {"check", "waitContinuar"}
  <1> USE Distinct DEF TypeInv, TypeOK, LocalsOK, LockDiscipline, Holds
  <1>1. ASSUME dpc \in {"fetch", "waitFuncao"}
        PROVE  opc # "close" /\ \A f \in Tasks : call[f] # "schedule"
    BY <1>1
  <1>2. ASSUME dpc \in {"choose", "waitThread"}, NEW w \in Workers
        PROVE  wpc[w] # "push"
    BY <1>2
  <1>3. ASSUME dpc = "store"
        PROVE  wpc[escolhida] \notin {"check", "waitContinuar"}
    BY <1>3
  <1>4. ASSUME opc = "signalT"
        PROVE  wpc[i] \notin {"check", "waitContinuar"}
    <2>1. i \in Workers
      BY <1>4, ThreadPoolAssumption DEF Workers
    <2> QED
      BY <1>4, <2>1
  <1> QED
    BY <1>1, <1>2, <1>3, <1>4

Offered(w) ==
  /\ wpc[w] \in {"lockOwn", "check", "waitContinuar", "sleepContinuar", "exited"}
  /\ funcaoTrabalhar[w] = NULL

Chosen(w) == dpc \in {"lockWorker", "store"} /\ escolhida = w

HandoffInv ==
  /\ \A k \in DOMAIN filaThreads :
       Offered(filaThreads[k]) /\ ~Chosen(filaThreads[k])
  /\ \A j, k \in DOMAIN filaThreads : filaThreads[j] = filaThreads[k] => j = k
  /\ \A w \in Workers :
       /\ Chosen(w) => Offered(w)
       /\ wpc[w] \in {"unborn", "lockFila", "push"} => funcaoTrabalhar[w] = NULL
       /\ wpc[w] = "exited" => flagExitTrabalhar
  /\ flagExitTrabalhar <=> dpc = "exited"

LEMMA HandoffNext ==
  TypeInv /\ HandoffInv /\ [Next]_vars => HandoffInv'
  <1> SUFFICES ASSUME TypeInv, HandoffInv, [Next]_vars
               PROVE  HandoffInv'
    OBVIOUS
  <1> USE Distinct
      DEF HandoffInv, Offered, Chosen, TypeInv, TypeOK, LocalsOK, DispatcherPC, OwnerPC, WorkerPC, CallerPC,
          DGoto, OGoto, WGoto, CGoto, Lock, CondWait, Unlock, Signal,
          data, queue, threads, slots, locals, work
  <1>1. ASSUME NEW f \in Tasks, Call(f) PROVE HandoffInv'
    BY <1>1 DEF Call
  <1>2. ASSUME NEW f \in Tasks, Schedule(f) PROVE HandoffInv'
    <2>1. CASE CGoto(f, "lockSchedule", "schedule") /\ Lock(mutexFilaFuncoes)
      BY <2>1
    <2>2. CASE Push(f)
      BY <2>2 DEF Push
    <2> QED
      BY <1>2, <2>1, <2>2 DEF Schedule
  <1>3. CASE Dispatcher
    <2>1. CASE DGoto("lockFuncoes", "fetch") /\ Lock(mutexFilaFuncoes)
      BY <2>1
    <2>2. CASE Fetch
      BY <2>2 DEF Fetch, MayStop
    <2>3. CASE DGoto("waitFuncao", "sleepFuncao") /\ CondWait(mutexFilaFuncoes)
      BY <2>3
    <2>4. CASE SetExit
      BY <2>4 DEF SetExit
    <2>5. CASE DGoto("lockThreads", "choose") /\ Lock(mutexFilaThreads)
      BY <2>5
    <2>6. CASE Spawn
      BY <2>6 DEF Spawn, NoMoreThreads
    <2>7. CASE Choose
      <3>1. CASE filaThreads = <<>>
        BY <2>7, <3>1 DEF Choose
      <3>2. CASE filaThreads # <<>>
        <4>1. /\ filaThreads' = Tail(filaThreads) /\ escolhida' = Head(filaThreads)
              /\ UNCHANGED <<wpc, funcaoTrabalhar, flagExitTrabalhar>>
              /\ dpc = "choose" /\ dpc' = "lockWorker"
          BY <2>7, <3>2 DEF Choose
        <4>2. \A k \in DOMAIN filaThreads' :
                k + 1 \in DOMAIN filaThreads /\ filaThreads'[k] = filaThreads[k + 1]
          BY <3>2, <4>1
        <4>3. 1 \in DOMAIN filaThreads /\ escolhida' = filaThreads[1]
          BY <3>2, <4>1
        <4>4. \A k \in DOMAIN filaThreads' : filaThreads'[k] # escolhida'
          <5> SUFFICES ASSUME NEW k \in DOMAIN filaThreads', filaThreads'[k] = escolhida'
                       PROVE  FALSE
            OBVIOUS
          <5>1. k + 1 = 1
            BY <4>2, <4>3
          <5>2. k \in 1 .. Len(filaThreads')
            BY <3>2, <4>1
          <5> QED
            BY <5>1, <5>2
        <4>5. \A j, k \in DOMAIN filaThreads' :
                filaThreads'[j] = filaThreads'[k] => j = k
          <5> SUFFICES ASSUME NEW j \in DOMAIN filaThreads', NEW k \in DOMAIN filaThreads',
                              filaThreads'[j] = filaThreads'[k]
                       PROVE  j = k
            OBVIOUS
          <5>1. j + 1 = k + 1
            BY <4>2
          <5>2. j \in 1 .. Len(filaThreads') /\ k \in 1 .. Len(filaThreads')
            BY <3>2, <4>1
          <5> QED
            BY <5>1, <5>2
        <4> QED
          BY <4>1, <4>2, <4>3, <4>4, <4>5
      <3> QED
        BY <3>1, <3>2
    <2>8. CASE DGoto("waitThread", "sleepThread") /\ CondWait(mutexFilaThreads)
      BY <2>8
    <2>9. CASE DGoto("lockWorker", "store") /\ Lock(escolhida)
      BY <2>9
    <2>10. CASE Store
      BY <2>10 DEF Store
    <2> QED
      BY <1>3, <2>1, <2>2, <2>3, <2>4, <2>5, <2>6, <2>7, <2>8, <2>9, <2>10 DEF Dispatcher
  <1>4. ASSUME NEW w \in Workers, Trabalhar(w) PROVE HandoffInv'
    <2>1. CASE WGoto(w, "lockFila", "push") /\ Lock(mutexFilaThreads)
      BY <2>1
    <2>2. CASE Offer(w)
      <3>1. /\ filaThreads' = Append(filaThreads, w)
            /\ wpc[w] = "push" /\ wpc' = [wpc EXCEPT ![w] = "lockOwn"]
            /\ UNCHANGED <<escolhida, funcaoTrabalhar, flagExitTrabalhar>>
            /\ dpc' \in {"lockWorker", "store", "exited"} <=>
                 dpc \in {"lockWorker", "store", "exited"}
            /\ dpc' \in {"lockWorker", "store", "exited"} => dpc' = dpc
        BY <2>2 DEF Offer
      <3>2. \A k \in DOMAIN filaThreads' :
              \/ k \in DOMAIN filaThreads /\ filaThreads'[k] = filaThreads[k]
              \/ k = Len(filaThreads) + 1 /\ filaThreads'[k] = w
        BY <3>1
      <3>3. \A k \in DOMAIN filaThreads : filaThreads[k] # w
        BY <3>1
      <3>4. \A j, k \in DOMAIN filaThreads' :
              filaThreads'[j] = filaThreads'[k] => j = k
        BY <3>2, <3>3
      <3>5. \A k \in DOMAIN filaThreads' :
              /\ wpc'[filaThreads'[k]] \in {"lockOwn", "check", "waitContinuar",
                                            "sleepContinuar", "exited"}
              /\ funcaoTrabalhar'[filaThreads'[k]] = NULL
              /\ ~(dpc' \in {"lockWorker", "store"} /\ escolhida' = filaThreads'[k])
        <4> SUFFICES ASSUME NEW k \in DOMAIN filaThreads'
                     PROVE  /\ wpc'[filaThreads'[k]] \in {"lockOwn", "check", "waitContinuar",
                                                          "sleepContinuar", "exited"}
                            /\ funcaoTrabalhar'[filaThreads'[k]] = NULL
                            /\ ~(dpc' \in {"lockWorker", "store"} /\ escolhida' = filaThreads'[k])
          OBVIOUS
        <4>1. CASE k \in DOMAIN filaThreads /\ filaThreads'[k] = filaThreads[k]
          BY <3>1, <4>1
        <4>2. CASE k = Len(filaThreads) + 1 /\ filaThreads'[k] = w
          <5>1. wpc'[w] = "lockOwn" /\ funcaoTrabalhar'[w] = NULL
            BY <3>1
          <5>2. ~(dpc' \in {"lockWorker", "store"} /\ escolhida' = w)
            BY <3>1
          <5>3. QED  BY <4>2, <5>1, <5>2
        <4>3. QED  BY <3>2, <4>1, <4>2
      <3> QED
        BY <3>1, <3>4, <3>5
    <2>3. CASE WGoto(w, "lockOwn", "check") /\ Lock(w)
      BY <2>3
    <2>4. CASE Check(w)
      <3>1. wpc[w] = "check" /\ UNCHANGED <<dpc, escolhida, filaThreads, slots>>
        BY <2>4 DEF Check
      <3>2. CASE wpc' = [wpc EXCEPT ![w] = "waitContinuar"]
        BY <3>1, <3>2
      <3>3. CASE wpc' = [wpc EXCEPT ![w] = "exited"] /\ flagExitTrabalhar
        BY <3>1, <3>3
      <3>4. CASE wpc' = [wpc EXCEPT ![w] = "call"] /\ funcaoTrabalhar[w] # NULL
        BY <3>1, <3>4
      <3> QED
        BY <2>4, <3>2, <3>3, <3>4 DEF Check
    <2>5. CASE WGoto(w, "waitContinuar", "sleepContinuar") /\ CondWait(w)
      BY <2>5
    <2>6. CASE Begin(w)
      BY <2>6 DEF Begin
    <2>7. CASE Finish(w)
      BY <2>7 DEF Finish
    <2>8. CASE Clear(w)
      BY <2>8 DEF Clear
    <2> QED
      BY <1>4, <2>1, <2>2, <2>3, <2>4, <2>5, <2>6, <2>7, <2>8 DEF Trabalhar
  <1>5. CASE CallWait
    BY <1>5 DEF CallWait
  <1>6. CASE Wait
    <2>1. CASE OGoto("lockClose", "close") /\ Lock(mutexFilaFuncoes)
      BY <2>1
    <2>2. CASE Close
      BY <2>2 DEF Close
    <2>3. CASE JoinDispatcher
      BY <2>3 DEF JoinDispatcher
    <2>4. CASE i < quantThreads /\ OGoto("lockT", "signalT") /\ Lock(i)
      BY <2>4
    <2>5. CASE SignalWorker
      BY <2>5 DEF SignalWorker
    <2>6. CASE JoinWorker
      BY <2>6 DEF JoinWorker, NextWorker, MoreWorkers
    <2>7. CASE Uninitialised
      BY <2>7 DEF Uninitialised, NextWorker, MoreWorkers
    <2> QED
      BY <1>6, <2>1, <2>2, <2>3, <2>4, <2>5, <2>6, <2>7 DEF Wait
  <1>7. CASE Destroy
    BY <1>7 DEF Destroy
  <1>8. CASE SpuriousWakeup
    BY <1>8 DEF SpuriousWakeup
  <1>9. CASE UNCHANGED vars
    BY <1>9 DEF vars, pcs
  <1> QED
    BY <1>1, <1>2, <1>3, <1>4, <1>5, <1>6, <1>7, <1>8, <1>9 DEF Next, Terminated

-------------------------------------------------------------------------------
(* Closing, spawning and waking up *)

CloseInv ==
  /\ opc \notin {"idle", "lockClose", "close", "joinD"} => dpc = "exited"
  /\ \A w \in Workers : w < i => wpc[w] \in {"unborn", "exited"}
  /\ opc \in {"returned", "destroyed"} => i = quantThreadsMax

SpawnInv == SpawnsAll /\ (quantThreads < quantThreadsMax => filaThreads = <<>>)

LEMMA CloseNext ==
  TypeInv /\ CloseInv /\ [Next]_vars => CloseInv'
  <1> SUFFICES ASSUME TypeInv, CloseInv, [Next]_vars
               PROVE  CloseInv'
    OBVIOUS
  <1> USE Distinct
      DEF CloseInv, TypeInv, TypeOK, LocalsOK, DispatcherPC, OwnerPC, WorkerPC, CallerPC,
          DGoto, OGoto, WGoto, CGoto, Lock, CondWait, Unlock, Signal,
          data, queue, threads, slots, locals, work
  <1>1. ASSUME NEW f \in Tasks, Call(f) PROVE CloseInv'
    BY <1>1 DEF Call
  <1>2. ASSUME NEW f \in Tasks, Schedule(f) PROVE CloseInv'
    <2>1. CASE CGoto(f, "lockSchedule", "schedule") /\ Lock(mutexFilaFuncoes)
      BY <2>1
    <2>2. CASE Push(f)
      BY <2>2 DEF Push
    <2> QED
      BY <1>2, <2>1, <2>2 DEF Schedule
  <1>3. CASE Dispatcher
    <2>1. CASE DGoto("lockFuncoes", "fetch") /\ Lock(mutexFilaFuncoes)
      BY <2>1
    <2>2. CASE Fetch
      BY <2>2 DEF Fetch, MayStop
    <2>3. CASE DGoto("waitFuncao", "sleepFuncao") /\ CondWait(mutexFilaFuncoes)
      BY <2>3
    <2>4. CASE SetExit
      BY <2>4 DEF SetExit
    <2>5. CASE DGoto("lockThreads", "choose") /\ Lock(mutexFilaThreads)
      BY <2>5
    <2>6. CASE Spawn
      BY <2>6 DEF Spawn, NoMoreThreads
    <2>7. CASE Choose
      BY <2>7 DEF Choose, NoMoreThreads
    <2>8. CASE DGoto("waitThread", "sleepThread") /\ CondWait(mutexFilaThreads)
      BY <2>8
    <2>9. CASE DGoto("lockWorker", "store") /\ Lock(escolhida)
      BY <2>9
    <2>10. CASE Store
      BY <2>10 DEF Store
    <2> QED
      BY <1>3, <2>1, <2>2, <2>3, <2>4, <2>5, <2>6, <2>7, <2>8, <2>9, <2>10 DEF Dispatcher
  <1>4. ASSUME NEW w \in Workers, Trabalhar(w) PROVE CloseInv'
    <2>1. CASE WGoto(w, "lockFila", "push") /\ Lock(mutexFilaThreads)
      BY <2>1
    <2>2. CASE Offer(w)
      BY <2>2 DEF Offer
    <2>3. CASE WGoto(w, "lockOwn", "check") /\ Lock(w)
      BY <2>3
    <2>4. CASE Check(w)
      BY <2>4 DEF Check
    <2>5. CASE WGoto(w, "waitContinuar", "sleepContinuar") /\ CondWait(w)
      BY <2>5
    <2>6. CASE Begin(w)
      BY <2>6 DEF Begin
    <2>7. CASE Finish(w)
      BY <2>7 DEF Finish
    <2>8. CASE Clear(w)
      BY <2>8 DEF Clear
    <2> QED
      BY <1>4, <2>1, <2>2, <2>3, <2>4, <2>5, <2>6, <2>7, <2>8 DEF Trabalhar
  <1>5. CASE CallWait
    BY <1>5 DEF CallWait
  <1>6. CASE Wait
    <2>1. CASE OGoto("lockClose", "close") /\ Lock(mutexFilaFuncoes)
      BY <2>1
    <2>2. CASE Close
      BY <2>2 DEF Close
    <2>3. CASE JoinDispatcher
      BY <2>3 DEF JoinDispatcher
    <2>4. CASE i < quantThreads /\ OGoto("lockT", "signalT") /\ Lock(i)
      BY <2>4
    <2>5. CASE SignalWorker
      BY <2>5 DEF SignalWorker
    <2>6. CASE JoinWorker
      <3>1. /\ i \in Workers /\ i' = i + 1 /\ UNCHANGED <<dpc, wpc>>
            /\ dpc = "exited" /\ wpc[i] \in {"unborn", "exited"}
            /\ opc' = "lockT" \/ (opc' = "returned" /\ i + 1 >= quantThreadsMax)
        BY <2>6, ThreadPoolAssumption DEF JoinWorker, NextWorker, MoreWorkers, Workers
      <3>2. \A w \in Workers : w < i + 1 => w < i \/ w = i
        BY <3>1, ThreadPoolAssumption DEF Workers
      <3>3. i < quantThreadsMax /\ (i + 1 >= quantThreadsMax => i + 1 = quantThreadsMax)
        BY <3>1, ThreadPoolAssumption DEF Workers
      <3> QED
        BY <3>1, <3>2, <3>3
    <2>7. CASE Uninitialised
      <3>1. CASE NextWorker("lockT") /\ i >= quantThreads
        <4>1. /\ i \in Workers /\ i' = i + 1 /\ UNCHANGED <<dpc, wpc>>
              /\ dpc = "exited" /\ wpc[i] \in {"unborn", "exited"}
              /\ opc' = "lockT" \/ (opc' = "returned" /\ i + 1 >= quantThreadsMax)
          BY <3>1, ThreadPoolAssumption DEF NextWorker, MoreWorkers, Workers
        <4>2. \A w \in Workers : w < i + 1 => w < i \/ w = i
          BY <4>1, ThreadPoolAssumption DEF Workers
        <4>3. i < quantThreadsMax /\ (i + 1 >= quantThreadsMax => i + 1 = quantThreadsMax)
          BY <4>1, ThreadPoolAssumption DEF Workers
        <4> QED
          BY <4>1, <4>2, <4>3
      <3>2. CASE OGoto("lockT", "undefined") /\ UNCHANGED <<locked, data>>
        BY <3>2
      <3> QED
        BY <2>7, <3>1, <3>2 DEF Uninitialised
    <2> QED
      BY <1>6, <2>1, <2>2, <2>3, <2>4, <2>5, <2>6, <2>7 DEF Wait
  <1>7. CASE Destroy
    BY <1>7 DEF Destroy
  <1>8. CASE SpuriousWakeup
    BY <1>8 DEF SpuriousWakeup
  <1>9. CASE UNCHANGED vars
    BY <1>9 DEF vars, pcs
  <1> QED
    BY <1>1, <1>2, <1>3, <1>4, <1>5, <1>6, <1>7, <1>8, <1>9 DEF Next, Terminated

LEMMA SpawnNext ==
  TypeInv /\ LockDiscipline /\ SpawnInv /\ [Next]_vars => SpawnInv'
  <1> SUFFICES ASSUME TypeInv, LockDiscipline, SpawnInv, [Next]_vars
               PROVE  SpawnInv'
    OBVIOUS
  <1> USE Distinct, Exclusion
      DEF SpawnInv, SpawnsAll, TypeInv, TypeOK, LocalsOK, DispatcherPC, OwnerPC, WorkerPC, CallerPC,
          DGoto, OGoto, WGoto, CGoto, Lock, CondWait, Unlock, Signal,
          data, queue, threads, slots, locals, work
  <1>1. ASSUME NEW f \in Tasks, Call(f) PROVE SpawnInv'
    BY <1>1 DEF Call
  <1>2. ASSUME NEW f \in Tasks, Schedule(f) PROVE SpawnInv'
    <2>1. CASE CGoto(f, "lockSchedule", "schedule") /\ Lock(mutexFilaFuncoes)
      BY <2>1
    <2>2. CASE Push(f)
      BY <2>2 DEF Push
    <2> QED
      BY <1>2, <2>1, <2>2 DEF Schedule
  <1>3. CASE Dispatcher
    <2>1. CASE DGoto("lockFuncoes", "fetch") /\ Lock(mutexFilaFuncoes)
      BY <2>1
    <2>2. CASE Fetch
      BY <2>2 DEF Fetch, MayStop
    <2>3. CASE DGoto("waitFuncao", "sleepFuncao") /\ CondWait(mutexFilaFuncoes)
      BY <2>3
    <2>4. CASE SetExit
      BY <2>4 DEF SetExit
    <2>5. CASE DGoto("lockThreads", "choose") /\ Lock(mutexFilaThreads)
      BY <2>5
    <2>6. CASE Spawn
      BY <2>6 DEF Spawn, NoMoreThreads
    <2>7. CASE Choose
      <3>1. quantThreads = quantThreadsMax
        BY <2>7, ThreadPoolAssumption DEF Choose, NoMoreThreads
      <3> QED
        BY <2>7, <3>1, ThreadPoolAssumption DEF Choose
    <2>8. CASE DGoto("waitThread", "sleepThread") /\ CondWait(mutexFilaThreads)
      BY <2>8
    <2>9. CASE DGoto("lockWorker", "store") /\ Lock(escolhida)
      BY <2>9
    <2>10. CASE Store
      BY <2>10 DEF Store
    <2> QED
      BY <1>3, <2>1, <2>2, <2>3, <2>4, <2>5, <2>6, <2>7, <2>8, <2>9, <2>10 DEF Dispatcher
  <1>4. ASSUME NEW w \in Workers, Trabalhar(w) PROVE SpawnInv'
    <2>1. CASE WGoto(w, "lockFila", "push") /\ Lock(mutexFilaThreads)
      BY <2>1
    <2>2. CASE Offer(w)
      <3>1. wpc[w] = "push" /\ UNCHANGED quantThreads
        BY <2>2 DEF Offer
      <3>2. dpc # "choose"
        BY <3>1
      <3>3. quantThreads # 0
        BY <3>1, ThreadPoolAssumption DEF Workers
      <3>4. quantThreads = quantThreadsMax
        BY <3>2, <3>3
      <3> QED
        BY <3>1, <3>4, ThreadPoolAssumption
    <2>3. CASE WGoto(w, "lockOwn", "check") /\ Lock(w)
      BY <2>3
    <2>4. CASE Check(w)
      BY <2>4 DEF Check
    <2>5. CASE WGoto(w, "waitContinuar", "sleepContinuar") /\ CondWait(w)
      BY <2>5
    <2>6. CASE Begin(w)
      BY <2>6 DEF Begin
    <2>7. CASE Finish(w)
      BY <2>7 DEF Finish
    <2>8. CASE Clear(w)
      BY <2>8 DEF Clear
    <2> QED
      BY <1>4, <2>1, <2>2, <2>3, <2>4, <2>5, <2>6, <2>7, <2>8 DEF Trabalhar
  <1>5. CASE CallWait
    BY <1>5 DEF CallWait
  <1>6. CASE Wait
    <2>1. CASE OGoto("lockClose", "close") /\ Lock(mutexFilaFuncoes)
      BY <2>1
    <2>2. CASE Close
      BY <2>2 DEF Close
    <2>3. CASE JoinDispatcher
      BY <2>3 DEF JoinDispatcher
    <2>4. CASE i < quantThreads /\ OGoto("lockT", "signalT") /\ Lock(i)
      BY <2>4
    <2>5. CASE SignalWorker
      BY <2>5 DEF SignalWorker
    <2>6. CASE JoinWorker
      BY <2>6 DEF JoinWorker, NextWorker, MoreWorkers
    <2>7. CASE Uninitialised
      BY <2>7 DEF Uninitialised, NextWorker, MoreWorkers
    <2> QED
      BY <1>6, <2>1, <2>2, <2>3, <2>4, <2>5, <2>6, <2>7 DEF Wait
  <1>7. CASE Destroy
    BY <1>7 DEF Destroy
  <1>8. CASE SpuriousWakeup
    BY <1>8 DEF SpuriousWakeup
  <1>9. CASE UNCHANGED vars
    BY <1>9 DEF vars, pcs
  <1> QED
    BY <1>1, <1>2, <1>3, <1>4, <1>5, <1>6, <1>7, <1>8, <1>9 DEF Next, Terminated

LEMMA WakeupNext ==
  TypeInv /\ LockDiscipline /\ HandoffInv /\ CloseInv /\ SpawnInv /\ NoLostWakeup /\ [Next]_vars => NoLostWakeup'
  <1> SUFFICES ASSUME TypeInv, LockDiscipline, HandoffInv, CloseInv, SpawnInv, NoLostWakeup, [Next]_vars
               PROVE  NoLostWakeup'
    OBVIOUS
  <1> USE Distinct, Exclusion
      DEF NoLostWakeup, TypeInv, TypeOK, LocalsOK, DispatcherPC, OwnerPC, WorkerPC, CallerPC,
          DGoto, OGoto, WGoto, CGoto, Lock, CondWait, Unlock, Signal,
          data, queue, threads, slots, locals, work
  <1>1. ASSUME NEW f \in Tasks, Call(f) PROVE NoLostWakeup'
    BY <1>1 DEF Call
  <1>2. ASSUME NEW f \in Tasks, Schedule(f) PROVE NoLostWakeup'
    <2>1. CASE CGoto(f, "lockSchedule", "schedule") /\ Lock(mutexFilaFuncoes)
      BY <2>1
    <2>2. CASE Push(f)
      BY <2>2 DEF Push
    <2> QED
      BY <1>2, <2>1, <2>2 DEF Schedule
  <1>3. CASE Dispatcher
    <2>1. CASE DGoto("lockFuncoes", "fetch") /\ Lock(mutexFilaFuncoes)
      BY <2>1
    <2>2. CASE Fetch
      BY <2>2 DEF Fetch, MayStop
    <2>3. CASE DGoto("waitFuncao", "sleepFuncao") /\ CondWait(mutexFilaFuncoes)
      BY <2>3
    <2>4. CASE SetExit
      <3>1. opc \in {"idle", "lockClose", "close", "joinD"}
        BY <2>4 DEF SetExit, CloseInv
      <3> QED
        BY <2>4, <3>1 DEF SetExit
    <2>5. CASE DGoto("lockThreads", "choose") /\ Lock(mutexFilaThreads)
      BY <2>5
    <2>6. CASE Spawn
      BY <2>6 DEF Spawn, NoMoreThreads
    <2>7. CASE Choose
      BY <2>7 DEF Choose, NoMoreThreads
    <2>8. CASE DGoto("waitThread", "sleepThread") /\ CondWait(mutexFilaThreads)
      BY <2>8
    <2>9. CASE DGoto("lockWorker", "store") /\ Lock(escolhida)
      BY <2>9
    <2>10. CASE Store
      BY <2>10 DEF Store
    <2> QED
      BY <1>3, <2>1, <2>2, <2>3, <2>4, <2>5, <2>6, <2>7, <2>8, <2>9, <2>10 DEF Dispatcher
  <1>4. ASSUME NEW w \in Workers, Trabalhar(w) PROVE NoLostWakeup'
    <2>1. CASE WGoto(w, "lockFila", "push") /\ Lock(mutexFilaThreads)
      BY <2>1
    <2>2. CASE Offer(w)
      BY <2>2 DEF Offer
    <2>3. CASE WGoto(w, "lockOwn", "check") /\ Lock(w)
      BY <2>3
    <2>4. CASE Check(w)
      BY <2>4 DEF Check
    <2>5. CASE WGoto(w, "waitContinuar", "sleepContinuar") /\ CondWait(w)
      BY <2>5
    <2>6. CASE Begin(w)
      BY <2>6 DEF Begin
    <2>7. CASE Finish(w)
      BY <2>7 DEF Finish
    <2>8. CASE Clear(w)
      BY <2>8 DEF Clear
    <2> QED
      BY <1>4, <2>1, <2>2, <2>3, <2>4, <2>5, <2>6, <2>7, <2>8 DEF Trabalhar
  <1>5. CASE CallWait
    BY <1>5 DEF CallWait
  <1>6. CASE Wait
    <2>1. CASE OGoto("lockClose", "close") /\ Lock(mutexFilaFuncoes)
      BY <2>1
    <2>2. CASE Close
      BY <2>2 DEF Close
    <2>3. CASE JoinDispatcher
      <3>1. \A w \in Workers : i <= w
        BY <2>3, ThreadPoolAssumption DEF JoinDispatcher, Workers
      <3> QED
        BY <2>3, <3>1 DEF JoinDispatcher
    <2>4. CASE i < quantThreads /\ OGoto("lockT", "signalT") /\ Lock(i)
      BY <2>4
    <2>5. CASE SignalWorker
      <3>1. i \in Workers /\ \A w \in Workers : i <= w => i < w \/ w = i
        BY <2>5, ThreadPoolAssumption DEF SignalWorker, Workers
      <3>2. wpc'[i] \notin {"waitContinuar", "sleepContinuar"}
        BY <2>5, <3>1 DEF SignalWorker
      <3>3. \A w \in Workers : w # i => wpc'[w] = wpc[w]
        BY <2>5 DEF SignalWorker
      <3> QED
        BY <2>5, <3>1, <3>2, <3>3 DEF SignalWorker
    <2>6. CASE JoinWorker
      <3>1. /\ i \in Workers /\ i' = i + 1 /\ UNCHANGED <<dpc, wpc, queue, threads, slots>>
            /\ opc' = "lockT" \/ (opc' = "returned" /\ i + 1 >= quantThreadsMax)
        BY <2>6, ThreadPoolAssumption DEF JoinWorker, NextWorker, MoreWorkers, Workers
      <3>2. \A w \in Workers :
              wpc[w] \in {"waitContinuar", "sleepContinuar"} /\ flagExitTrabalhar => i < w
        BY <2>6 DEF JoinWorker, NextWorker
      <3>3. \A w \in Workers : i < w => i + 1 <= w /\ ~(i + 1 >= quantThreadsMax)
        BY <3>1, ThreadPoolAssumption DEF Workers
      <3> QED
        BY <3>1, <3>2, <3>3
    <2>7. CASE Uninitialised
      <3>1. opc = "lockT" /\ i >= quantThreads /\ dpc = "exited"
        BY <2>7 DEF Uninitialised, NextWorker, CloseInv
      <3>2. i \in Workers
        BY <3>1, ThreadPoolAssumption DEF Workers
      <3>3. \A w \in Workers :
              wpc[w] \in {"waitContinuar", "sleepContinuar"} /\ flagExitTrabalhar => i < w
        <4>1. wpc[i] = "unborn" /\ \A w \in Workers : i <= w => i < w \/ w = i
          BY <3>1, <3>2, ThreadPoolAssumption DEF Workers
        <4> QED
          BY <3>1, <3>2, <4>1
      <3>4. CASE NextWorker("lockT")
        <4>1. /\ i \in Workers /\ i' = i + 1 /\ UNCHANGED <<dpc, wpc, queue, threads, slots>>
              /\ opc' = "lockT" \/ (opc' = "returned" /\ i + 1 >= quantThreadsMax)
          BY <3>2, <3>4, ThreadPoolAssumption DEF NextWorker, MoreWorkers, Workers
        <4>2. \A w \in Workers :
                wpc[w] \in {"waitContinuar", "sleepContinuar"} /\ flagExitTrabalhar => i < w
          BY <3>3
        <4>3. \A w \in Workers : i < w => i + 1 <= w /\ ~(i + 1 >= quantThreadsMax)
          BY <4>1, ThreadPoolAssumption DEF Workers
        <4> QED
          BY <4>1, <4>2, <4>3
      <3>5. CASE OGoto("lockT", "undefined") /\ UNCHANGED <<locked, data>>
        <4>1. quantThreads = 0
          BY <3>1, ThreadPoolAssumption DEF SpawnInv, SpawnsAll
        <4>2. \A w \in Workers : wpc[w] \notin {"waitContinuar", "sleepContinuar"}
          BY <4>1, ThreadPoolAssumption DEF Workers
        <4> QED
          BY <3>5, <4>2
      <3> QED
        BY <2>7, <3>4, <3>5 DEF Uninitialised
    <2> QED
      BY <1>6, <2>1, <2>2, <2>3, <2>4, <2>5, <2>6, <2>7 DEF Wait
  <1>7. CASE Destroy
    BY <1>7 DEF Destroy
  <1>8. CASE SpuriousWakeup
    BY <1>8 DEF SpuriousWakeup
  <1>9. CASE UNCHANGED vars
    BY <1>9 DEF vars, pcs
  <1> QED
    BY <1>1, <1>2, <1>3, <1>4, <1>5, <1>6, <1>7, <1>8, <1>9 DEF Next, Terminated

-------------------------------------------------------------------------------
(* The inductive invariant and the theorems *)

IInv ==
  /\ TypeInv /\ LockDiscipline /\ HandoffInv
  /\ CloseInv /\ SpawnInv /\ NoLostWakeup

LEMMA IInvInit == Init => IInv
  <1> SUFFICES ASSUME Init PROVE IInv
    OBVIOUS
  <1>1. TypeInv
    BY TypeInvInit
  <1>2. LockDiscipline
    BY Distinct DEF Init, LockDiscipline, Holds
  <1>3. HandoffInv
    BY DEF Init, HandoffInv, Offered, Chosen
  <1>4. CloseInv
    BY DEF Init, CloseInv
  <1>5. SpawnInv
    BY DEF Init, SpawnInv, SpawnsAll
  <1>6. NoLostWakeup
    BY DEF Init, NoLostWakeup
  <1> QED
    BY <1>1, <1>2, <1>3, <1>4, <1>5, <1>6 DEF IInv

LEMMA Inductive == Spec => []IInv
  <1>1. IInv /\ [Next]_vars => IInv'
    BY TypeInvNext, LockNext, HandoffNext, CloseNext, SpawnNext, WakeupNext DEF IInv
  <1> QED
    BY <1>1, IInvInit, PTL DEF Spec

\* Each mutex is locked exactly while one thread is in one of its sections.
THEOREM LocksCorrect == Spec => []LockDiscipline
  <1>1. IInv => LockDiscipline
    BY DEF IInv
  <1> QED
    BY <1>1, Inductive, PTL

\* A function is given only to a worker that has none and cannot be touching
\* the slot that is written.
THEOREM HandoffCorrect == Spec => []HandoffSafe
  <1>1. ASSUME IInv PROVE HandoffSafe
    <2> USE <1>1 DEF IInv, HandoffInv, Offered, Chosen
    <2>1. ASSUME dpc \in {"lockWorker", "store"}
          PROVE  /\ funcaoTrabalhar[escolhida] = NULL
                 /\ escolhida \notin Range(filaThreads)
                 /\ wpc[escolhida] \notin {"call", "running", "clear", "exited"}
      <3>1. escolhida \in Workers /\ Chosen(escolhida)
        BY <2>1 DEF TypeInv, LocalsOK
      <3> QED
        BY <2>1, <3>1 DEF Range
    <2>2. ASSUME dpc = "store"
          PROVE  wpc[escolhida] \in {"lockOwn", "sleepContinuar"}
      <3>1. escolhida \in Workers /\ Chosen(escolhida)
        BY <2>2 DEF TypeInv, LocalsOK
      <3>2. wpc[escolhida] \notin {"check", "waitContinuar"}
        BY <2>2, Exclusion
      <3> QED
        BY <2>1, <2>2, <3>1, <3>2
    <2> QED
      BY <2>1, <2>2 DEF HandoffSafe
  <1> QED
    BY <1>1, Inductive, PTL

\* No thread of the pool sleeps through the change it waits for.
THEOREM WakeupsCorrect == Spec => []NoLostWakeup
  <1>1. IInv => NoLostWakeup
    BY DEF IInv
  <1> QED
    BY <1>1, Inductive, PTL

\* The first function brings up every worker, whatever their number.
THEOREM SpawnCorrect == Spec => []SpawnsAll
  <1>1. IInv => SpawnsAll
    BY DEF IInv, SpawnInv
  <1> QED
    BY <1>1, Inductive, PTL

LEMMA Destroyed == IInv => DestroySafe
  <1> SUFFICES ASSUME IInv, opc \in {"returned", "destroyed"}
               PROVE  dpc = "exited" /\ \A w \in Workers : wpc[w] \in {"unborn", "exited"}
    BY DEF DestroySafe
  <1>1. \A w \in Workers : w < i
    BY Interval DEF IInv, CloseInv
  <1> QED
    BY <1>1 DEF IInv, CloseInv

\* After wait() no thread of the pool is left to use what the destructor frees.
THEOREM DestroyCorrect == Spec => []DestroySafe
  BY Destroyed, Inductive, PTL
-------------------------------------------------------------------------------
(***************************************************************************)
(* That no function is lost and none executed twice. The invariant adds to *)
(* IInv where each function is that has been pushed: QueueInv says which   *)
(* were taken from the queue, PlaceInv that each of those is in the        *)
(* dispatcher's hands, in one slot, or finished.                           *)
(***************************************************************************)

\* How many functions were taken from the queue, and which.
Count == Len(agenda) - Len(filaFuncoes)
Taken == {agenda[k] : k \in 1 .. Count}

\* The queue is the rest of the agenda, in which no function is twice. What the
\* dispatcher holds is the last one taken, and once it may stop none is left
\* that was pushed before the pool was closed.
QueueInv ==
  /\ Count \in Nat
  /\ \A k \in 1 .. Len(filaFuncoes) : filaFuncoes[k] = agenda[Count + k]
  /\ \A j, k \in 1 .. Len(agenda) : agenda[j] = agenda[k] => j = k
  /\ \A k \in 1 .. Len(agenda) : call[agenda[k]] = "returned"
  /\ funcao # NULL => Count > 0 /\ funcao = agenda[Count]
  /\ dpc \in {"lockFuncoes", "fetch", "waitFuncao", "sleepFuncao", "setExit", "exited"}
       => funcao = NULL
  /\ flagExitDispatcher => opc \notin {"idle", "lockClose", "close"}
  /\ \A f \in prior : \E k \in 1 .. Len(agenda) : f = agenda[k]
  /\ dpc \in {"setExit", "exited"} => flagExitDispatcher /\ prior \subseteq Taken

\* A function is nowhere before it is taken, and then in one place.
PlaceInv ==
  /\ finished \subseteq Taken /\ funcao \notin finished
  /\ \A w \in Workers :
       /\ funcaoTrabalhar[w] # NULL => funcaoTrabalhar[w] \in Taken /\ funcaoTrabalhar[w] # funcao
       /\ wpc[w] = "running" => running[w] = funcaoTrabalhar[w]
       /\ wpc[w] \in {"call", "running", "clear"} => funcaoTrabalhar[w] # NULL
       /\ wpc[w] = "clear" <=> funcaoTrabalhar[w] \in finished
  /\ \A v, w \in Workers :
       funcaoTrabalhar[v] = funcaoTrabalhar[w] /\ funcaoTrabalhar[v] # NULL => v = w
  /\ \A f \in Taken : f \in finished \/ f = funcao \/ \E w \in Workers : funcaoTrabalhar[w] = f

HistoryInv == QueueInv /\ PlaceInv
-------------------------------------------------------------------------------
LEMMA InitHistory == Init => HistoryInv
<1> SUFFICES ASSUME Init PROVE HistoryInv
  OBVIOUS
<1>1. Len(agenda) = 0 /\ Len(filaFuncoes) = 0 /\ Count = 0
  BY DEF Init, Count
<1>2. QueueInv
  BY <1>1 DEF Init, QueueInv
<1>3. Taken = {}
  BY <1>1 DEF Taken
<1>4. PlaceInv
  BY <1>3, Distinct DEF Init, PlaceInv
<1>5. QED  BY <1>2, <1>4 DEF HistoryInv

LEMMA SameQueue ==
  ASSUME UNCHANGED <<agenda, filaFuncoes>>
  PROVE  Count' = Count /\ Taken' = Taken
BY DEF Count, Taken

\* A push leaves those taken as they are.
LEMMA Pushed ==
  ASSUME TypeInv, QueueInv, NEW f \in Tasks, Push(f)
  PROVE  /\ Count' = Count /\ Taken' = Taken /\ QueueInv'
<1> USE DEF TypeInv, TypeOK
<1>1. /\ call[f] = "schedule" /\ call' = [call EXCEPT ![f] = "returned"]
      /\ filaFuncoes' = Append(filaFuncoes, f) /\ agenda' = Append(agenda, f)
      /\ UNCHANGED <<opc, prior, flagExitDispatcher, funcao>>
      /\ dpc' = dpc \/ (dpc = "sleepFuncao" /\ dpc' = "lockFuncoes")
  BY DEF Push, Signal, locals
<1>2. /\ Len(agenda) \in Nat /\ Len(filaFuncoes) \in Nat
      /\ Len(agenda') = Len(agenda) + 1 /\ Len(filaFuncoes') = Len(filaFuncoes) + 1
      /\ \A k \in 1 .. Len(agenda) : agenda'[k] = agenda[k]
      /\ \A k \in 1 .. Len(filaFuncoes) : filaFuncoes'[k] = filaFuncoes[k]
      /\ agenda'[Len(agenda) + 1] = f /\ filaFuncoes'[Len(filaFuncoes) + 1] = f
  BY <1>1
<1>3. Count' = Count /\ Count \in Nat /\ Count + Len(filaFuncoes) = Len(agenda)
  BY <1>2 DEF Count, QueueInv
<1>4. \A k \in 1 .. Count : k \in 1 .. Len(agenda) /\ agenda'[k] = agenda[k]
  BY <1>2, <1>3
<1>5. Taken' = Taken
  BY <1>3, <1>4 DEF Taken
<1>6. \A k \in 1 .. Len(filaFuncoes') : filaFuncoes'[k] = agenda'[Count + k]
  <2> SUFFICES ASSUME NEW k \in 1 .. Len(filaFuncoes') PROVE filaFuncoes'[k] = agenda'[Count + k]
    OBVIOUS
  <2>1. CASE k = Len(filaFuncoes) + 1
    BY <1>2, <1>3, <2>1
  <2>2. CASE k \in 1 .. Len(filaFuncoes)
    <3>1. Count + k \in 1 .. Len(agenda)
      BY <1>2, <1>3, <2>2
    <3>2. QED  BY <1>2, <2>2, <3>1 DEF QueueInv
  <2>3. QED  BY <1>2, <2>1, <2>2
<1>7. \A k \in 1 .. Len(agenda) : agenda[k] \in Tasks /\ call[agenda[k]] = "returned" /\ agenda[k] # f
  BY <1>1 DEF QueueInv
<1>8. \A k \in 1 .. Len(agenda') : k \in 1 .. Len(agenda) \/ k = Len(agenda) + 1
  BY <1>2
<1>9. \A j, k \in 1 .. Len(agenda') : agenda'[j] = agenda'[k] => j = k
  <2> SUFFICES ASSUME NEW j \in 1 .. Len(agenda'), NEW k \in 1 .. Len(agenda'),
                      agenda'[j] = agenda'[k]
      PROVE  j = k
    OBVIOUS
  <2>1. CASE j \in 1 .. Len(agenda) /\ k \in 1 .. Len(agenda)
    BY <1>2, <2>1 DEF QueueInv
  <2>2. CASE j = Len(agenda) + 1 \/ k = Len(agenda) + 1
    BY <1>2, <1>7, <1>8, <2>2
  <2>3. QED  BY <1>8, <2>1, <2>2
<1>10. \A k \in 1 .. Len(agenda') : call'[agenda'[k]] = "returned"
  <2>1. /\ call'[f] = "returned"
        /\ \A g \in Tasks : call[g] = "returned" => call'[g] = "returned"
    BY <1>1
  <2>2. ASSUME NEW k \in 1 .. Len(agenda) PROVE call'[agenda'[k]] = "returned"
    BY <1>2, <1>7, <2>1
  <2>3. QED
    <3> HIDE DEF TypeInv, TypeOK
    <3>1. QED  BY <1>2, <1>8, <2>1, <2>2
<1>11. funcao' # NULL => Count' > 0 /\ funcao' = agenda'[Count']
  BY <1>1, <1>3, <1>4 DEF QueueInv
<1>12. \A g \in prior' : \E k \in 1 .. Len(agenda') : g = agenda'[k]
  <2> SUFFICES ASSUME NEW g \in prior PROVE \E k \in 1 .. Len(agenda') : g = agenda'[k]
    BY <1>1
  <2>1. PICK k \in 1 .. Len(agenda) : g = agenda[k]
    BY DEF QueueInv
  <2>2. k \in 1 .. Len(agenda')
    BY <1>2
  <2>3. QED  BY <1>2, <2>1, <2>2
<1>13. QED
  BY <1>1, <1>3, <1>5, <1>6, <1>9, <1>10, <1>11, <1>12 DEF QueueInv

\* The dispatcher takes a function that is nowhere yet.
LEMMA Fetched ==
  ASSUME TypeInv, HistoryInv, Fetch, filaFuncoes # <<>>, dpc' = "lockThreads"
  PROVE  /\ funcao' = agenda[Count + 1] /\ funcao' \notin Taken /\ Taken' = Taken \cup {funcao'}
         /\ funcao = NULL /\ QueueInv'
<1> USE DEF TypeInv, TypeOK
<1>1. /\ dpc = "fetch" /\ funcao' = Head(filaFuncoes) /\ filaFuncoes' = Tail(filaFuncoes)
      /\ UNCHANGED <<opc, call, prior, flagExitDispatcher, agenda>>
  BY DEF Fetch, DGoto
<1>2. /\ Len(agenda) \in Nat /\ Len(filaFuncoes) \in Nat \ {0}
      /\ Len(filaFuncoes') = Len(filaFuncoes) - 1 /\ funcao' = filaFuncoes[1]
      /\ \A k \in 1 .. Len(filaFuncoes') : filaFuncoes'[k] = filaFuncoes[k + 1]
  BY <1>1
<1>3. /\ Count' = Count + 1 /\ Count \in Nat /\ Count + Len(filaFuncoes) = Len(agenda)
      /\ Count + 1 \in 1 .. Len(agenda)
  BY <1>1, <1>2 DEF Count, HistoryInv, QueueInv
<1>4. funcao' = agenda[Count + 1]
  BY <1>2, <1>3 DEF HistoryInv, QueueInv
<1>5. funcao' \notin Taken
  <2> SUFFICES ASSUME NEW k \in 1 .. Count, agenda[k] = agenda[Count + 1] PROVE FALSE
    BY <1>4 DEF Taken
  <2>1. k \in 1 .. Len(agenda) /\ k # Count + 1
    BY <1>3
  <2>2. QED  BY <1>3, <2>1 DEF HistoryInv, QueueInv
<1>6. Taken' = Taken \cup {funcao'}
  <2>1. 1 .. Count' = (1 .. Count) \cup {Count + 1}
    BY <1>3
  <2>2. QED  BY <1>1, <1>4, <2>1 DEF Taken
<1>7. \A k \in 1 .. Len(filaFuncoes') : filaFuncoes'[k] = agenda'[Count' + k]
  <2> SUFFICES ASSUME NEW k \in 1 .. Len(filaFuncoes') PROVE filaFuncoes'[k] = agenda'[Count' + k]
    OBVIOUS
  <2>1. k + 1 \in 1 .. Len(filaFuncoes) /\ Count' + k = Count + (k + 1)
    BY <1>2, <1>3
  <2>2. filaFuncoes[k + 1] = agenda[Count + (k + 1)]
    BY <2>1 DEF HistoryInv, QueueInv
  <2>3. QED  BY <1>1, <1>2, <2>1, <2>2
<1>8. funcao = NULL
  BY <1>1 DEF HistoryInv, QueueInv
<1>9. Count' \in Nat /\ Count' > 0 /\ funcao' = agenda'[Count']
  BY <1>1, <1>3, <1>4
<1>10. QueueInv'
  BY <1>1, <1>7, <1>9 DEF HistoryInv, QueueInv
<1>11. QED  BY <1>4, <1>5, <1>6, <1>8, <1>10
-------------------------------------------------------------------------------
LEMMA NextHistory == IInv /\ HistoryInv /\ [Next]_vars => HistoryInv'
<1> SUFFICES ASSUME IInv, HistoryInv, [Next]_vars PROVE HistoryInv'
  OBVIOUS
<1>1. TypeInv /\ HandoffInv /\ QueueInv /\ PlaceInv
  BY DEF IInv, HistoryInv
<1>2. /\ wpc \in [Workers -> WorkerPC] /\ funcaoTrabalhar \in [Workers -> Tasks \cup {NULL}]
      /\ running \in [Workers -> Tasks \cup {NULL}] /\ call \in [Tasks -> CallerPC]
      /\ NULL \notin finished /\ NULL \notin Tasks
  BY <1>1, Distinct DEF TypeInv, TypeOK, PlaceInv
<1> DEFINE Moves == UNCHANGED <<agenda, filaFuncoes, prior, flagExitDispatcher, funcao, finished>>
           Works == UNCHANGED <<funcaoTrabalhar, running>>
\* Nothing is taken, called or closed, and the dispatcher has not just stopped.
<1>3. ASSUME Moves, dpc' \in {"setExit", "exited"} => dpc \in {"setExit", "exited"},
             dpc' \in {"lockFuncoes", "fetch", "waitFuncao", "sleepFuncao"} => funcao = NULL,
             opc' \in {"idle", "lockClose", "close"} => opc \in {"idle", "lockClose", "close"},
             \A f \in Tasks : call[f] = "returned" => call'[f] = "returned"
      PROVE  QueueInv'
  <2>1. Count' = Count /\ Taken' = Taken
    BY <1>3, SameQueue
  <2>2. \A k \in 1 .. Len(agenda) : agenda[k] \in Tasks
    BY <1>1 DEF TypeInv, TypeOK
  <2>3. QED  BY <1>1, <1>3, <2>1, <2>2 DEF QueueInv
\* No worker begins, ends or clears a function.
<1>4. ASSUME Taken' = Taken, UNCHANGED <<funcao, finished>>, Works,
             \A w \in Workers : /\ wpc'[w] = "running" <=> wpc[w] = "running"
                                /\ wpc'[w] = "clear" <=> wpc[w] = "clear"
                                /\ wpc'[w] = "call" => funcaoTrabalhar[w] # NULL
      PROVE  PlaceInv'
  BY <1>1, <1>4 DEF PlaceInv
<1>5. ASSUME NEW f \in Tasks, Call(f) PROVE HistoryInv'
  <2>1. UNCHANGED <<dpc, opc, wpc>> /\ Moves /\ Works
        /\ call[f] = "idle" /\ call' = [call EXCEPT ![f] = "lockSchedule"]
    BY <1>5 DEF Call, CGoto, data, queue, slots, locals, work
  <2>2. QueueInv'
    BY <1>1, <1>2, <1>3, <2>1 DEF QueueInv
  <2>3. PlaceInv'
    BY <1>1, <1>4, <2>1, SameQueue DEF PlaceInv
  <2>4. QED  BY <2>2, <2>3 DEF HistoryInv
<1>6. ASSUME NEW f \in Tasks, Schedule(f) PROVE HistoryInv'
  <2>1. CASE CGoto(f, "lockSchedule", "schedule") /\ Lock(mutexFilaFuncoes)
    <3>1. UNCHANGED <<dpc, opc, wpc>> /\ Moves /\ Works
          /\ call[f] = "lockSchedule" /\ call' = [call EXCEPT ![f] = "schedule"]
      BY <2>1 DEF CGoto, Lock, data, queue, slots, locals, work
    <3>2. QueueInv'
      BY <1>1, <1>2, <1>3, <3>1 DEF QueueInv
    <3>3. PlaceInv'
      BY <1>1, <1>4, <3>1, SameQueue DEF PlaceInv
    <3>4. QED  BY <3>2, <3>3 DEF HistoryInv
  <2>2. CASE Push(f)
    <3>1. Taken' = Taken /\ QueueInv'
      BY <1>1, <2>2, Pushed
    <3>2. UNCHANGED <<funcao, finished, wpc>> /\ Works
      BY <2>2 DEF Push, slots, locals, work
    <3>3. PlaceInv'
      BY <1>1, <1>4, <3>1, <3>2 DEF PlaceInv
    <3>4. QED  BY <3>1, <3>3 DEF HistoryInv
  <2>3. QED  BY <1>6, <2>1, <2>2 DEF Schedule
<1>7. CASE Dispatcher
  <2>1. CASE \/ DGoto("lockFuncoes", "fetch") /\ Lock(mutexFilaFuncoes)
             \/ DGoto("waitFuncao", "sleepFuncao") /\ CondWait(mutexFilaFuncoes)
             \/ SetExit
             \/ DGoto("lockThreads", "choose") /\ Lock(mutexFilaThreads)
             \/ Choose
             \/ DGoto("waitThread", "sleepThread") /\ CondWait(mutexFilaThreads)
             \/ DGoto("lockWorker", "store") /\ Lock(escolhida)
    <3>1. UNCHANGED <<opc, wpc, call>> /\ Moves /\ Works
      BY <2>1 DEF DGoto, Lock, CondWait, SetExit, Choose, data, queue, slots, locals, work
    <3>2. /\ dpc' \in {"setExit", "exited"} => dpc \in {"setExit", "exited"}
          /\ dpc' \in {"lockFuncoes", "fetch", "waitFuncao", "sleepFuncao"}
               => dpc \in {"lockFuncoes", "fetch", "waitFuncao", "sleepFuncao"}
      BY <2>1 DEF DGoto, SetExit, Choose
    <3>3. QueueInv'
      BY <1>1, <1>3, <3>1, <3>2 DEF QueueInv
    <3>4. PlaceInv'
      BY <1>1, <1>4, <3>1, SameQueue DEF PlaceInv
    <3>5. QED  BY <3>3, <3>4 DEF HistoryInv
  <2>2. CASE Fetch /\ dpc' # "lockThreads"
    <3>1. UNCHANGED <<opc, wpc, call>> /\ Moves /\ Works /\ dpc = "fetch"
          /\ (dpc' = "waitFuncao" \/ (dpc' = "setExit" /\ flagExitDispatcher /\ filaFuncoes = <<>>))
      BY <2>2 DEF Fetch, MayStop, DGoto, slots, work
    <3>2. CASE dpc' = "waitFuncao"
      <4>1. QueueInv'
        BY <1>1, <1>3, <3>1, <3>2 DEF QueueInv
      <4>2. PlaceInv'
        BY <1>1, <1>4, <3>1, SameQueue DEF PlaceInv
      <4>3. QED  BY <4>1, <4>2 DEF HistoryInv
    <3>3. CASE dpc' = "setExit"
      <4>1. Count' = Count /\ Taken' = Taken
        BY <3>1, SameQueue
      <4>2. Len(agenda) \in Nat /\ Count = Len(agenda) /\ prior \subseteq Taken
        BY <1>1, <3>1, <3>3 DEF TypeInv, TypeOK, Count, Taken, QueueInv
      <4>3. QueueInv'
        BY <1>1, <3>1, <3>3, <4>1, <4>2 DEF QueueInv
      <4>4. PlaceInv'
        BY <1>1, <1>4, <3>1, SameQueue DEF PlaceInv
      <4>5. QED  BY <4>3, <4>4 DEF HistoryInv
    <3>4. QED  BY <3>1, <3>2, <3>3
  <2>3. CASE Fetch /\ dpc' = "lockThreads"
    <3>1. /\ funcao' \notin Taken /\ Taken' = Taken \cup {funcao'} /\ funcao = NULL /\ QueueInv'
      <4>1. filaFuncoes # <<>>
        BY <2>3 DEF Fetch, DGoto
      <4>2. QED  BY <1>1, <2>3, <4>1, Fetched DEF HistoryInv
    <3>2. UNCHANGED <<wpc, finished>> /\ Works
      BY <2>3 DEF Fetch, DGoto, slots, work
    <3>3. NULL \notin Taken
      <4>1. \A k \in 1 .. Count : k \in 1 .. Len(agenda)
        BY <1>1 DEF TypeInv, TypeOK, QueueInv, Count
      <4>2. QED  BY <1>1, <1>2, <4>1 DEF TypeInv, TypeOK, Taken
    <3>4. PlaceInv'
      <4>1. finished' \subseteq Taken' /\ funcao' \notin finished'
        BY <1>1, <3>1, <3>2 DEF PlaceInv
      <4>2. ASSUME NEW w \in Workers
            PROVE  /\ (funcaoTrabalhar[w] # NULL => funcaoTrabalhar[w] \in Taken' /\ funcaoTrabalhar[w] # funcao')
                   /\ wpc[w] = "running" => running[w] = funcaoTrabalhar[w]
                   /\ wpc[w] \in {"call", "running", "clear"} => funcaoTrabalhar[w] # NULL
                   /\ wpc[w] = "clear" <=> funcaoTrabalhar[w] \in finished
        BY <1>1, <3>1 DEF PlaceInv
      <4>3. ASSUME NEW f \in Taken'
            PROVE  f \in finished \/ f = funcao' \/ \E w \in Workers : funcaoTrabalhar[w] = f
        BY <1>1, <3>1, <3>3 DEF PlaceInv
      <4>4. \A v, w \in Workers :
               funcaoTrabalhar[v] = funcaoTrabalhar[w] /\ funcaoTrabalhar[v] # NULL => v = w
        BY <1>1 DEF PlaceInv
      <4>5. QED  BY <3>2, <4>1, <4>2, <4>3, <4>4 DEF PlaceInv
    <3>5. QED  BY <3>1, <3>4 DEF HistoryInv
  <2>4. CASE Spawn
    <3> DEFINE w == quantThreads
    <3>1. w \in Workers /\ wpc[w] = "unborn"
      <4>1. quantThreads \in Nat /\ quantThreads < quantThreadsMax
        BY <1>1, <2>4, Interval DEF Spawn, NoMoreThreads, TypeInv, TypeOK
      <4>2. w \in Workers
        BY <4>1, Interval
      <4>3. QED  BY <1>1, <4>1, <4>2 DEF TypeInv, LocalsOK
    <3>2. funcaoTrabalhar[w] = NULL
      BY <1>1, <3>1 DEF HandoffInv
    <3>3. UNCHANGED <<dpc, opc, call, running>> /\ Moves /\ wpc' = [wpc EXCEPT ![w] = "lockFila"]
          /\ funcaoTrabalhar' = [funcaoTrabalhar EXCEPT ![w] = NULL]
      BY <2>4 DEF Spawn, queue, locals, work
    <3>4. funcaoTrabalhar' = funcaoTrabalhar
      BY <1>2, <3>1, <3>2, <3>3
    <3> HIDE DEF w
    <3>5. QueueInv'
      BY <1>1, <1>3, <3>3 DEF QueueInv
    <3>6. PlaceInv'
      BY <1>1, <1>2, <1>4, <3>1, <3>3, <3>4, SameQueue DEF PlaceInv
    <3>7. QED  BY <3>5, <3>6 DEF HistoryInv
  <2>5. CASE Store
    <3> DEFINE w == escolhida
    <3>1. w \in Workers /\ funcao \in Tasks
      BY <1>1, <2>5 DEF Store, TypeInv, LocalsOK
    <3>2. funcaoTrabalhar[w] = NULL /\ wpc[w] \notin {"call", "running", "clear", "unborn"}
      BY <1>1, <2>5, <3>1 DEF Store, HandoffInv, Chosen, Offered
    <3>3. /\ UNCHANGED <<opc, call, running, agenda, filaFuncoes, prior, flagExitDispatcher, finished>>
          /\ dpc' = "lockFuncoes" /\ funcao' = NULL
          /\ funcaoTrabalhar' = [funcaoTrabalhar EXCEPT ![w] = funcao]
          /\ wpc' = [wpc EXCEPT ![w] = Signal(@, "sleepContinuar", "lockOwn")]
      BY <2>5 DEF Store, queue, work
    <3> HIDE DEF w
    <3>4. Count' = Count /\ Taken' = Taken
      BY <3>3, SameQueue
    <3>5. QueueInv'
      BY <1>1, <3>3, <3>4 DEF QueueInv
    <3>6. funcao \in Taken /\ funcao \notin finished
      BY <1>1, <3>1, Distinct DEF QueueInv, PlaceInv, Taken
    <3>7. /\ funcaoTrabalhar'[w] = funcao /\ wpc'[w] \notin {"call", "running", "clear"}
          /\ \A v \in Workers : v # w => /\ funcaoTrabalhar'[v] = funcaoTrabalhar[v]
                                         /\ wpc'[v] = wpc[v]
      BY <1>2, <3>1, <3>2, <3>3 DEF Signal
    <3>8. PlaceInv'
      BY <1>1, <1>2, <3>1, <3>2, <3>3, <3>4, <3>6, <3>7 DEF PlaceInv
    <3>9. QED  BY <3>5, <3>8 DEF HistoryInv
  <2>6. QED  BY <1>7, <2>1, <2>2, <2>3, <2>4, <2>5 DEF Dispatcher
<1>8. ASSUME NEW w \in Workers, Trabalhar(w) PROVE HistoryInv'
  <2>1. UNCHANGED <<opc, call, agenda, filaFuncoes, prior, flagExitDispatcher, funcao>>
        /\ (dpc' = dpc \/ (dpc = "sleepThread" /\ dpc' = "lockThreads"))
    BY <1>8 DEF Trabalhar, Offer, Check, Begin, Finish, Clear, Lock, CondWait, WGoto, Signal,
                data, queue, locals
  <2>2. Count' = Count /\ Taken' = Taken
    BY <2>1, SameQueue
  <2>3. QueueInv'
    BY <1>1, <2>1, <2>2 DEF QueueInv
  <2>4. PlaceInv'
    <3>1. CASE \/ WGoto(w, "lockFila", "push") /\ Lock(mutexFilaThreads)
               \/ Offer(w)
               \/ WGoto(w, "lockOwn", "check") /\ Lock(w)
               \/ Check(w)
               \/ WGoto(w, "waitContinuar", "sleepContinuar") /\ CondWait(w)
      <4>1. Works /\ UNCHANGED finished
        BY <3>1 DEF Offer, Check, Lock, CondWait, data, slots, work
      <4>2. \/ /\ wpc[w] \in {"lockFila", "push", "lockOwn", "waitContinuar"}
               /\ \E p \in {"push", "lockOwn", "check", "sleepContinuar"} : wpc' = [wpc EXCEPT ![w] = p]
            \/ /\ wpc[w] = "check"
               /\ \E p \in {"waitContinuar", "exited"} : wpc' = [wpc EXCEPT ![w] = p]
            \/ /\ wpc[w] = "check" /\ funcaoTrabalhar[w] # NULL
               /\ wpc' = [wpc EXCEPT ![w] = "call"]
        BY <3>1 DEF Offer, Check, WGoto
      <4>3. QED  BY <1>1, <1>2, <1>4, <2>1, <2>2, <4>1, <4>2 DEF PlaceInv
    <3>2. CASE Begin(w)
      <4>1. /\ UNCHANGED <<funcaoTrabalhar, finished>> /\ wpc[w] = "call"
            /\ wpc' = [wpc EXCEPT ![w] = "running"]
            /\ running' = [running EXCEPT ![w] = funcaoTrabalhar[w]]
        BY <3>2 DEF Begin, WGoto, slots
      <4>2. QED  BY <1>1, <1>2, <2>1, <2>2, <4>1 DEF PlaceInv
    <3>3. CASE Finish(w)
      <4>1. /\ UNCHANGED funcaoTrabalhar /\ wpc[w] = "running"
            /\ wpc' = [wpc EXCEPT ![w] = "clear"] /\ finished' = finished \cup {funcaoTrabalhar[w]}
            /\ running' = [running EXCEPT ![w] = NULL] /\ funcaoTrabalhar[w] # NULL
        BY <1>1, <3>3 DEF Finish, WGoto, slots, PlaceInv
      <4>2. QED  BY <1>1, <1>2, <2>1, <2>2, <4>1 DEF PlaceInv
    <3>4. CASE Clear(w)
      <4>1. /\ UNCHANGED <<running, finished>> /\ wpc[w] = "clear"
            /\ wpc' = [wpc EXCEPT ![w] = "lockFila"]
            /\ funcaoTrabalhar' = [funcaoTrabalhar EXCEPT ![w] = NULL]
        BY <3>4 DEF Clear, WGoto, work
      <4>2. QED  BY <1>1, <1>2, <2>1, <2>2, <4>1 DEF PlaceInv
    <3>5. QED  BY <1>8, <3>1, <3>2, <3>3, <3>4 DEF Trabalhar
  <2>5. QED  BY <2>3, <2>4 DEF HistoryInv
<1>9. CASE Wait /\ ~Close
  <2>1. UNCHANGED <<dpc, call>> /\ Moves /\ Works
        /\ (wpc' = wpc \/ wpc' = [wpc EXCEPT ![i] = Signal(@, "sleepContinuar", "lockOwn")])
        /\ (opc' \in {"idle", "lockClose", "close"} => opc \in {"idle", "lockClose", "close"})
    BY <1>9 DEF Wait, JoinDispatcher, SignalWorker, JoinWorker, Uninitialised, NextWorker,
                OGoto, Lock, data, queue, slots, locals, work
  <2>2. \A v \in Workers : wpc'[v] = wpc[v] \/ (wpc[v] = "sleepContinuar" /\ wpc'[v] = "lockOwn")
    BY <1>2, <2>1 DEF Signal
  <2>3. QueueInv'
    BY <1>1, <1>3, <2>1 DEF QueueInv
  <2>4. PlaceInv'
    BY <1>1, <1>4, <2>1, <2>2, SameQueue DEF PlaceInv
  <2>5. QED  BY <2>3, <2>4 DEF HistoryInv
<1>10. CASE Close
  <2>1. /\ UNCHANGED <<call, wpc, agenda, filaFuncoes, funcao, finished>> /\ Works
        /\ opc' = "joinD" /\ flagExitDispatcher' = TRUE /\ prior' = Range(agenda)
        /\ opc = "close" /\ dpc' \in {dpc, "lockFuncoes"} /\ (dpc' # dpc => dpc = "sleepFuncao")
    BY <1>10 DEF Close, Signal, slots, locals, work
  <2>2. Count' = Count /\ Taken' = Taken
    BY <2>1, SameQueue
  <2>3. dpc \notin {"setExit", "exited"}
    BY <1>1, <2>1 DEF QueueInv
  <2>4. \A f \in prior' : \E k \in 1 .. Len(agenda) : f = agenda[k]
    BY <1>1, <2>1 DEF Range, TypeInv, TypeOK
  <2>5. QueueInv'
    BY <1>1, <2>1, <2>2, <2>3, <2>4 DEF QueueInv
  <2>6. PlaceInv'
    BY <1>1, <1>4, <2>1, <2>2 DEF PlaceInv
  <2>7. QED  BY <2>5, <2>6 DEF HistoryInv
<1>11. CASE CallWait \/ Destroy \/ UNCHANGED vars
  <2>1. UNCHANGED <<dpc, wpc, call>> /\ Moves /\ Works
        /\ (opc' \in {"idle", "lockClose", "close"} => opc \in {"idle", "lockClose", "close"})
    BY <1>11 DEF CallWait, Destroy, OGoto, vars, pcs, data, queue, slots, locals, work
  <2>2. QueueInv'
    BY <1>1, <1>3, <2>1 DEF QueueInv
  <2>3. PlaceInv'
    BY <1>1, <1>4, <2>1, SameQueue DEF PlaceInv
  <2>4. QED  BY <2>2, <2>3 DEF HistoryInv
<1>12. CASE SpuriousWakeup
  <2>1. UNCHANGED <<opc, call>> /\ Moves /\ Works
        /\ (dpc' = dpc \/ (dpc = "sleepFuncao" /\ dpc' = "lockFuncoes")
            \/ (dpc = "sleepThread" /\ dpc' = "lockThreads"))
        /\ (wpc' = wpc \/ \E w \in Workers : wpc[w] = "sleepContinuar"
                                             /\ wpc' = [wpc EXCEPT ![w] = "lockOwn"])
    BY <1>12 DEF SpuriousWakeup, DGoto, WGoto, data, queue, slots, locals, work
  <2>2. \A v \in Workers : wpc'[v] = wpc[v] \/ (wpc[v] = "sleepContinuar" /\ wpc'[v] = "lockOwn")
    BY <1>2, <2>1
  <2>3. QueueInv'
    BY <1>1, <1>3, <2>1 DEF QueueInv
  <2>4. PlaceInv'
    BY <1>1, <1>4, <2>1, <2>2, SameQueue DEF PlaceInv
  <2>5. QED  BY <2>3, <2>4 DEF HistoryInv
<1>13. QED
  BY <1>5, <1>6, <1>7, <1>8, <1>9, <1>10, <1>11, <1>12 DEF Next, Terminated
-------------------------------------------------------------------------------
\* Every function that is pushed is in the queue, in the dispatcher's hands, in
\* one worker's slot or finished, and in one of these only; when the workers are
\* told to exit, those pushed before the pool was closed have reached one.
THEOREM NothingIsLost == Spec => []NothingLost
<1>1. ASSUME IInv, HistoryInv PROVE NothingLost
  <2> DEFINE taken == SubSeq(agenda, 1, Count)
  <2>1. /\ agenda \in Seq(Tasks) /\ filaFuncoes \in Seq(Tasks) /\ Count \in 0 .. Len(agenda)
        /\ Len(agenda) = Count + Len(filaFuncoes)
    BY <1>1 DEF IInv, TypeInv, TypeOK, Count, HistoryInv, QueueInv
  <2>2. /\ taken \in Seq(Tasks) /\ Len(taken) = Count
        /\ \A k \in 1 .. Count : taken[k] = agenda[k]
    BY <2>1
  <2>3. agenda = taken \o filaFuncoes
    <3>1. taken \o filaFuncoes \in Seq(Tasks) /\ Len(taken \o filaFuncoes) = Len(agenda)
      BY <2>1, <2>2
    <3>2. \A k \in 1 .. Len(agenda) : (taken \o filaFuncoes)[k] = agenda[k]
      <4> SUFFICES ASSUME NEW k \in 1 .. Len(agenda) PROVE (taken \o filaFuncoes)[k] = agenda[k]
        OBVIOUS
      <4>1. CASE k \in 1 .. Count
        BY <2>1, <2>2, <4>1
      <4>2. CASE k > Count
        <5>1. k - Count \in 1 .. Len(filaFuncoes)
          BY <2>1, <4>2
        <5>2. (taken \o filaFuncoes)[k] = filaFuncoes[k - Count]
          BY <2>1, <2>2, <4>2
        <5>3. filaFuncoes[k - Count] = agenda[Count + (k - Count)]
          BY <1>1, <5>1 DEF HistoryInv, QueueInv
        <5>4. QED  BY <2>1, <5>2, <5>3
      <4>3. QED  BY <2>1, <4>1, <4>2
    <3>3. QED  BY <2>1, <3>1, <3>2
  <2>4. Range(taken) = Taken
    BY <2>2 DEF Range, Taken
  <2>5. funcao # NULL => taken # <<>> /\ funcao = taken[Len(taken)]
    BY <1>1, <2>1, <2>2 DEF HistoryInv, QueueInv
  <2>6. ASSUME NEW f \in Taken
        PROVE  \/ f \in finished /\ f # funcao /\ Slotted(f) = {}
               \/ f \notin finished /\ f = funcao /\ Slotted(f) = {}
               \/ /\ f \notin finished /\ f # funcao
                  /\ \E w \in Workers : Slotted(f) = {w}
    <3>1. f # NULL
      BY <2>1, Distinct DEF Taken
    <3>2. CASE f \in finished
      BY <1>1, <3>2 DEF HistoryInv, PlaceInv, Slotted
    <3>3. CASE f = funcao
      BY <1>1, <3>1, <3>3 DEF HistoryInv, PlaceInv, Slotted
    <3>4. CASE f \notin finished /\ f # funcao
      <4>1. PICK w \in Workers : funcaoTrabalhar[w] = f
        BY <1>1, <3>4 DEF HistoryInv, PlaceInv
      <4>2. Slotted(f) = {w}
        BY <1>1, <3>1, <3>4, <4>1 DEF HistoryInv, PlaceInv, Slotted
      <4>3. QED  BY <3>4, <4>2
    <3>5. QED  BY <3>2, <3>3, <3>4
  <2>7. flagExitTrabalhar => \A f \in prior : f \in finished \/ Slotted(f) # {}
    <3> SUFFICES ASSUME flagExitTrabalhar, NEW f \in prior PROVE f \in finished \/ Slotted(f) # {}
      OBVIOUS
    <3>1. f \in Taken /\ funcao = NULL
      BY <1>1 DEF IInv, HandoffInv, HistoryInv, QueueInv
    <3>2. f # NULL
      BY <2>1, <3>1, Distinct DEF Taken
    <3>3. QED  BY <2>6, <3>1, <3>2
  <2>8. QED  BY <2>3, <2>4, <2>5, <2>6, <2>7 DEF NothingLost, Count
<1>2. IInv /\ [Next]_vars => IInv'
  BY TypeInvNext, LockNext, HandoffNext, CloseNext, SpawnNext, WakeupNext DEF IInv
<1>3. QED  BY <1>1, <1>2, IInvInit, InitHistory, NextHistory, PTL DEF Spec
-------------------------------------------------------------------------------
(* Without: the functions that have not begun, oldest first *)

\* What Without computes step by step.
Rest(T, s, B, r) ==
  /\ r \in [0 .. Len(s) -> Seq(T)] /\ r[0] = <<>>
  /\ \A k \in 1 .. Len(s) : r[k] = IF s[k] \in B THEN r[k - 1] ELSE Append(r[k - 1], s[k])

LEMMA WithoutIs ==
  ASSUME NEW T, NEW s \in Seq(T), NEW B
  PROVE  \E r : Rest(T, s, B, r) /\ Without(s, B) = r[Len(s)]
<1> DEFINE n == Len(s)
           h == [x \in (1 .. n) \X Seq(T) |->
                   IF s[x[1]] \in B THEN x[2] ELSE Append(x[2], s[x[1]])]
           w == CHOOSE r : r = [k \in 0 .. n |->
                  IF k = 0 THEN <<>>
                  ELSE IF s[k] \in B THEN r[k - 1] ELSE Append(r[k - 1], s[k])]
<1>1. n \in Nat /\ h \in [(1 .. n) \X Seq(T) -> Seq(T)]
  OBVIOUS
<1>2. PICK e \in Seq(T) : e = <<>>
  BY EmptySeq
<1>3. PICK r \in [0 .. n -> Seq(T)] : r[0] = e /\ \A k \in 1 .. n : r[k] = h[<<k, r[k - 1]>>]
  <2>1. PICK g \in [(1 .. n) \X Seq(T) -> Seq(T)] : g = h
    BY <1>1
  <2>2. g \in Steps(n, Seq(T))
    BY DEF Steps
  <2> HIDE DEF n, h
  <2>3. PICK r : Recursive(n, Seq(T), e, g, r)
    BY <1>1, <2>2, Recursion
  <2>4. QED  BY <2>1, <2>3 DEF Recursive
<1>4. \A k \in 1 .. n : r[k] = IF s[k] \in B THEN r[k - 1] ELSE Append(r[k - 1], s[k])
  <2> SUFFICES ASSUME NEW k \in 1 .. n
               PROVE  r[k] = IF s[k] \in B THEN r[k - 1] ELSE Append(r[k - 1], s[k])
    OBVIOUS
  <2>1. k - 1 \in 0 .. n
    BY <1>1
  <2>2. <<k, r[k - 1]>> \in (1 .. n) \X Seq(T)
    BY <2>1
  <2>3. QED  BY <1>3, <2>2
<1>5. r = [k \in 0 .. n |->
             IF k = 0 THEN <<>>
             ELSE IF s[k] \in B THEN r[k - 1] ELSE Append(r[k - 1], s[k])]
  <2>1. \A k \in 0 .. n : k = 0 \/ k \in 1 .. n
    BY <1>1
  <2>2. \A k \in 0 .. n : r[k] = IF k = 0 THEN <<>> ELSE IF s[k] \in B THEN r[k - 1]
                                                  ELSE Append(r[k - 1], s[k])
    BY <1>2, <1>3, <1>4, <2>1
  <2>3. QED  BY <2>2
<1>6. w = [k \in 0 .. n |->
             IF k = 0 THEN <<>>
             ELSE IF s[k] \in B THEN w[k - 1] ELSE Append(w[k - 1], s[k])]
  BY <1>5
<1>7. Without(s, B) = w[n]
  BY DEF Without
<1> HIDE DEF w
<1>8. w = r
  <2> DEFINE S == {k \in 0 .. n : w[k] = r[k]}
  <2>1. 0 \in S
    BY <1>1, <1>2, <1>3, <1>6
  <2>2. ASSUME NEW k \in 0 .. n - 1, k \in S PROVE k + 1 \in S
    <3>1. k + 1 \in 1 .. n /\ k + 1 \in 0 .. n /\ (k + 1) - 1 = k /\ k + 1 # 0
      BY <1>1
    <3>2. w[k + 1] = IF s[k + 1] \in B THEN w[k] ELSE Append(w[k], s[k + 1])
      BY <1>6, <3>1
    <3>3. QED  BY <1>4, <2>2, <3>1, <3>2
  <2>3. \A k \in 0 .. n : k \in S
    <3> HIDE DEF S
    <3>1. QED  BY <1>1, <2>1, <2>2, UpTo
  <2>4. QED  BY <1>3, <1>6, <2>3
<1>9. Rest(T, s, B, r)
  BY <1>2, <1>3, <1>4 DEF Rest
<1>10. QED  BY <1>7, <1>8, <1>9

\* It depends on no more of the sequence and of the set than it meets.
LEMMA SameRest ==
  ASSUME NEW T, NEW s \in Seq(T), NEW u \in Seq(T), NEW A, NEW B, NEW q, NEW r,
         Rest(T, s, A, q), Rest(T, u, B, r), NEW n \in Nat, n <= Len(s), n <= Len(u),
         \A k \in 1 .. n : s[k] = u[k] /\ (s[k] \in A <=> s[k] \in B)
  PROVE  q[n] = r[n]
<1> DEFINE S == {k \in 0 .. n : q[k] = r[k]}
<1>1. 0 \in S
  BY DEF Rest
<1>2. ASSUME NEW k \in 0 .. n - 1, k \in S PROVE k + 1 \in S
  <2>1. k + 1 \in 1 .. n /\ k + 1 \in 1 .. Len(s) /\ k + 1 \in 1 .. Len(u) /\ (k + 1) - 1 = k
    OBVIOUS
  <2>2. QED  BY <1>2, <2>1 DEF Rest
<1>3. \A k \in 0 .. n : k \in S
  <2> HIDE DEF S
  <2>1. QED  BY <1>1, <1>2, UpTo
<1>4. QED  BY <1>3

LEMMA SameWithout ==
  ASSUME NEW T, NEW s \in Seq(T), NEW A, NEW B, \A x \in T : x \in A <=> x \in B
  PROVE  Without(s, A) = Without(s, B)
<1>1. PICK q : Rest(T, s, A, q) /\ Without(s, A) = q[Len(s)]
  BY WithoutIs
<1>2. PICK r : Rest(T, s, B, r) /\ Without(s, B) = r[Len(s)]
  BY WithoutIs
<1>3. Len(s) \in Nat /\ \A k \in 1 .. Len(s) : s[k] \in T
  OBVIOUS
<1>4. QED  BY <1>1, <1>2, <1>3, SameRest

LEMMA WithoutAppend ==
  ASSUME NEW T, NEW s \in Seq(T), NEW x \in T, NEW B, x \notin B
  PROVE  Without(Append(s, x), B) = Append(Without(s, B), x)
<1> DEFINE n == Len(s)
           u == Append(s, x)
<1>1. u \in Seq(T) /\ Len(u) = n + 1 /\ n \in Nat /\ u[n + 1] = x /\ \A k \in 1 .. n : u[k] = s[k]
  OBVIOUS
<1> HIDE DEF u
<1>2. PICK q : Rest(T, s, B, q) /\ Without(s, B) = q[n]
  BY WithoutIs
<1>3. PICK r : Rest(T, u, B, r) /\ Without(u, B) = r[n + 1]
  BY <1>1, WithoutIs
<1>4. q[n] = r[n]
  BY <1>1, <1>2, <1>3, SameRest
<1>5. r[n + 1] = Append(r[n], x)
  <2>1. n + 1 \in 1 .. Len(u) /\ (n + 1) - 1 = n
    BY <1>1
  <2>2. QED  BY <1>1, <1>3, <2>1 DEF Rest
<1>6. QED  BY <1>2, <1>3, <1>4, <1>5 DEF u

\* Each element of what is left is one of the sequence outside the set, once.
LEMMA RestElements ==
  ASSUME NEW T, NEW s \in Seq(T), NEW B, NEW r, Rest(T, s, B, r),
         \A j, k \in 1 .. Len(s) : s[j] = s[k] => j = k, NEW m \in 0 .. Len(s)
  PROVE  /\ \A j \in 1 .. Len(r[m]) : r[m][j] \notin B /\ \E k \in 1 .. m : r[m][j] = s[k]
         /\ \A k \in 1 .. m : s[k] \notin B => \E j \in 1 .. Len(r[m]) : r[m][j] = s[k]
         /\ \A i1, i2 \in 1 .. Len(r[m]) : r[m][i1] = r[m][i2] => i1 = i2
<1> DEFINE Of(a) == \A j \in 1 .. Len(r[a]) : r[a][j] \notin B /\ \E k \in 1 .. a : r[a][j] = s[k]
           All(a) == \A k \in 1 .. a : s[k] \notin B => \E j \in 1 .. Len(r[a]) : r[a][j] = s[k]
           Once(a) == \A i1, i2 \in 1 .. Len(r[a]) : r[a][i1] = r[a][i2] => i1 = i2
           S == {a \in 0 .. Len(s) : Of(a) /\ All(a) /\ Once(a)}
<1>0. Len(s) \in Nat /\ r \in [0 .. Len(s) -> Seq(T)]
  BY DEF Rest
<1>1. 0 \in S
  BY DEF Rest
<1>2. ASSUME NEW a \in 0 .. Len(s) - 1, a \in S PROVE a + 1 \in S
  <2>0. PICK b : b = a + 1
    OBVIOUS
  <2>1. b \in 1 .. Len(s) /\ b \in 0 .. Len(s) /\ a \in 0 .. Len(s) /\ b - 1 = a
    BY <1>0, <2>0
  <2>2. r[b] = IF s[b] \in B THEN r[a] ELSE Append(r[a], s[b])
    BY <2>1 DEF Rest
  <2>3. r[a] \in Seq(T) /\ Of(a) /\ All(a) /\ Once(a) /\ s[b] \in T
    <3>1. r[a] \in Seq(T) /\ s[b] \in T
      BY <1>0, <2>1
    <3> HIDE DEF Of, All, Once
    <3>2. QED  BY <1>2, <3>1
  <2>4. \A k \in 1 .. b : k \in 1 .. a \/ k = b
    BY <2>1
  <2>5. 1 .. a \subseteq 1 .. b
    BY <2>0, <2>1
  <2>6. CASE s[b] \in B
    <3>1. r[b] = r[a]
      BY <2>2, <2>6
    <3>2. Of(b)
      BY <2>3, <2>5, <3>1
    <3>2a. Once(b)
      BY <2>3, <3>1
    <3>3. All(b)
      BY <2>3, <2>4, <2>6, <3>1
    <3> HIDE DEF Of, All, Once
    <3>4. QED  BY <2>0, <2>1, <3>2, <3>2a, <3>3
  <2>7. CASE s[b] \notin B
    <3>1. r[b] = Append(r[a], s[b])
      BY <2>2, <2>7
    <3>2. /\ Len(r[b]) = Len(r[a]) + 1 /\ Len(r[a]) \in Nat /\ r[b][Len(r[a]) + 1] = s[b]
          /\ \A j \in 1 .. Len(r[a]) : r[b][j] = r[a][j]
      BY <2>3, <3>1
    <3>3. \A j \in 1 .. Len(r[b]) : j \in 1 .. Len(r[a]) \/ j = Len(r[a]) + 1
      BY <3>2
    <3>4. Of(b)
      <4>1. b \in 1 .. b
        BY <2>1
      <4>2. ASSUME NEW j \in 1 .. Len(r[a])
            PROVE  r[b][j] \notin B /\ \E k \in 1 .. b : r[b][j] = s[k]
        <5>1. r[b][j] = r[a][j]
          BY <3>2
        <5>2. r[a][j] \notin B /\ \E k \in 1 .. a : r[a][j] = s[k]
          BY <2>3
        <5>3. QED  BY <2>5, <5>1, <5>2
      <4>3. QED  BY <2>7, <3>2, <3>3, <4>1, <4>2
    <3>5. All(b)
      <4>1. 1 .. Len(r[a]) \subseteq 1 .. Len(r[b]) /\ Len(r[a]) + 1 \in 1 .. Len(r[b])
        BY <3>2
      <4>2. \A k \in 1 .. a : s[k] \notin B => \E j \in 1 .. Len(r[b]) : r[b][j] = s[k]
        BY <2>3, <3>2, <4>1
      <4>3. QED  BY <2>4, <3>2, <4>1, <4>2
    <3>6. \A j \in 1 .. Len(r[a]) : r[b][j] # s[b]
      <4>1. \A k \in 1 .. a : s[k] # s[b]
        BY <2>1
      <4>2. QED  BY <2>3, <3>2, <4>1
    <3>7. Once(b)
      BY <2>3, <3>2, <3>3, <3>6
    <3> HIDE DEF Of, All, Once
    <3>8. QED  BY <2>0, <2>1, <3>4, <3>5, <3>7
  <2>8. QED  BY <2>6, <2>7
<1>3. \A a \in 0 .. Len(s) : a \in S
  <2> HIDE DEF S
  <2>1. QED  BY <1>0, <1>1, <1>2, UpTo
<1>4. QED  BY <1>3

\* A sequence without its element c.
LEMMA CutProperties ==
  ASSUME NEW T, NEW t \in Seq(T), NEW c \in 1 .. Len(t)
  PROVE  LET cut == SubSeq(t, 1, c - 1) \o SubSeq(t, c + 1, Len(t))
         IN  /\ cut \in Seq(T) /\ Len(cut) = Len(t) - 1
             /\ \A k \in 1 .. Len(t) - 1 : cut[k] = IF k < c THEN t[k] ELSE t[k + 1]
<1> DEFINE a == SubSeq(t, 1, c - 1)
           b == SubSeq(t, c + 1, Len(t))
<1>1. Len(t) \in Nat /\ c \in 1 .. Len(t)
  OBVIOUS
<1>2. a \in Seq(T) /\ Len(a) = c - 1
  OBVIOUS
<1>3. \A k \in 1 .. c - 1 : a[k] = t[k]
  OBVIOUS
<1>4. b \in Seq(T) /\ Len(b) = Len(t) - c
  OBVIOUS
<1>5. \A k \in 1 .. Len(t) - c : b[k] = t[c + k]
  OBVIOUS
<1> HIDE DEF a, b
<1>6. a \o b \in Seq(T) /\ Len(a \o b) = Len(t) - 1
  BY <1>1, <1>2, <1>4
<1>7. ASSUME NEW k \in 1 .. Len(t) - 1
      PROVE  (a \o b)[k] = IF k < c THEN t[k] ELSE t[k + 1]
  <2>1. k \in 1 .. Len(a) + Len(b)
    BY <1>1, <1>2, <1>4
  <2>2. (a \o b)[k] = IF k <= Len(a) THEN a[k] ELSE b[k - Len(a)]
    BY <1>2, <1>4, <2>1, ConcatProperties
  <2>3. CASE k < c
    BY <1>1, <1>2, <1>3, <2>2, <2>3
  <2>4. CASE k >= c
    <3>1. k - (c - 1) \in 1 .. Len(t) - c /\ c + (k - (c - 1)) = k + 1 /\ ~(k <= c - 1)
      BY <1>1, <2>4
    <3>2. b[k - (c - 1)] = t[k + 1]
      BY <1>5, <3>1
    <3>3. k - Len(a) = k - (c - 1) /\ ~(k <= Len(a)) /\ ~(k < c)
      BY <1>1, <1>2, <2>4
    <3>4. QED  BY <2>2, <3>2, <3>3
  <2>5. k < c \/ k >= c
    BY <1>1
  <2>6. QED  BY <2>3, <2>4, <2>5
<1>8. QED  BY <1>6, <1>7 DEF a, b

LEMMA CutAppend ==
  ASSUME NEW T, NEW t \in Seq(T), NEW x \in T, NEW c \in 1 .. Len(t), NEW u, u = Append(t, x)
  PROVE  SubSeq(u, 1, c - 1) \o SubSeq(u, c + 1, Len(u))
           = Append(SubSeq(t, 1, c - 1) \o SubSeq(t, c + 1, Len(t)), x)
<1> DEFINE cutT == SubSeq(t, 1, c - 1) \o SubSeq(t, c + 1, Len(t))
           cutU == SubSeq(u, 1, c - 1) \o SubSeq(u, c + 1, Len(u))
<1>1. u \in Seq(T) /\ Len(u) = Len(t) + 1 /\ Len(t) \in Nat /\ u[Len(t) + 1] = x
      /\ \A k \in 1 .. Len(t) : u[k] = t[k]
  OBVIOUS
<1>2. cutT \in Seq(T) /\ Len(cutT) = Len(t) - 1
      /\ \A k \in 1 .. Len(t) - 1 : cutT[k] = IF k < c THEN t[k] ELSE t[k + 1]
  BY CutProperties
<1>3. cutU \in Seq(T) /\ Len(cutU) = Len(u) - 1
      /\ \A k \in 1 .. Len(u) - 1 : cutU[k] = IF k < c THEN u[k] ELSE u[k + 1]
  <2>1. c \in 1 .. Len(u)
    BY <1>1
  <2>2. QED  BY <1>1, <2>1, CutProperties
<1> HIDE DEF cutT, cutU
<1>4. /\ Append(cutT, x) \in Seq(T) /\ Len(Append(cutT, x)) = Len(t)
      /\ Append(cutT, x)[Len(t)] = x /\ \A k \in 1 .. Len(t) - 1 : Append(cutT, x)[k] = cutT[k]
  BY <1>1, <1>2
<1>5. ASSUME NEW k \in 1 .. Len(t) PROVE cutU[k] = Append(cutT, x)[k]
  <2>1. cutU[k] = IF k < c THEN u[k] ELSE u[k + 1]
    BY <1>1, <1>3
  <2>2. CASE k = Len(t)
    BY <1>1, <1>4, <2>1, <2>2
  <2>3. CASE k \in 1 .. Len(t) - 1
    <3>1. u[k] = t[k] /\ u[k + 1] = t[k + 1]
      <4>1. k + 1 \in 1 .. Len(t) /\ k \in 1 .. Len(t)
        BY <1>1, <2>3
      <4>2. \A j \in 1 .. Len(t) : u[j] = t[j]
        BY <1>1
      <4>3. QED  BY <4>1, <4>2
    <3>2. Append(cutT, x)[k] = cutT[k]
      <4>1. \A j \in 1 .. Len(t) - 1 : Append(cutT, x)[j] = cutT[j]
        BY <1>4
      <4>2. QED  BY <2>3, <4>1
    <3>3. cutT[k] = IF k < c THEN t[k] ELSE t[k + 1]
      <4>1. \A j \in 1 .. Len(t) - 1 : cutT[j] = IF j < c THEN t[j] ELSE t[j + 1]
        BY <1>2
      <4>2. QED  BY <2>3, <4>1
    <3>4. QED  BY <2>1, <3>1, <3>2, <3>3
  <2>4. k = Len(t) \/ k \in 1 .. Len(t) - 1
    BY <1>1
  <2>5. QED  BY <2>2, <2>3, <2>4
<1>6. Len(cutU) = Len(Append(cutT, x))
  <2>1. Len(cutU) = Len(u) - 1 /\ Len(u) = Len(t) + 1 /\ Len(t) \in Nat
    BY <1>1, <1>3
  <2>2. Len(Append(cutT, x)) = Len(t)
    BY <1>4
  <2>3. Len(cutU) = Len(t)
    BY <2>1
  <2>4. QED  BY <2>2, <2>3
<1>7. \A k \in 1 .. Len(cutU) : cutU[k] = Append(cutT, x)[k]
  <2>1. Len(cutU) = Len(t)
    BY <1>4, <1>6
  <2>2. QED  BY <1>5, <2>1
<1>8. cutU = Append(cutT, x)
  BY <1>3, <1>4, <1>6, <1>7, SeqEqual
<1>9. QED  BY <1>8 DEF cutT, cutU

\* One element more in the set is one less at its place.
NoRepeat(s) == \A j, k \in 1 .. Len(s) : s[j] = s[k] => j = k
LessOne(t, c, x, u) ==
  /\ c \in 1 .. Len(t) /\ t[c] = x
  /\ u = SubSeq(t, 1, c - 1) \o SubSeq(t, c + 1, Len(t))

LEMMA RestRemoved ==
  ASSUME NEW T, NEW s \in Seq(T), NEW B, NEW p \in 1 .. Len(s), s[p] \notin B, NEW q, NEW r,
         Rest(T, s, B, q), Rest(T, s, B \cup {s[p]}, r),
         NoRepeat(s), NEW m \in p .. Len(s)
  PROVE  LessOne(q[m], Len(q[p]), s[p], r[m])
<1> DEFINE c == Len(q[p])
           Cut(t) == SubSeq(t, 1, c - 1) \o SubSeq(t, c + 1, Len(t))
           S == {a \in 0 .. Len(s) - p :
                   c \in 1 .. Len(q[p + a]) /\ q[p + a][c] = s[p] /\ r[p + a] = Cut(q[p + a])}
<1>0. /\ Len(s) \in Nat /\ q \in [0 .. Len(s) -> Seq(T)] /\ r \in [0 .. Len(s) -> Seq(T)]
      /\ Len(s) - p \in Nat /\ p \in 0 .. Len(s) /\ p - 1 \in 0 .. Len(s)
  BY DEF Rest
<1>1. q[p] = Append(q[p - 1], s[p]) /\ r[p] = r[p - 1]
  BY DEF Rest
<1>2. q[p - 1] = r[p - 1]
  <2>1. \A k \in 1 .. p - 1 : k \in 1 .. Len(s) /\ s[k] # s[p]
    BY <1>0 DEF NoRepeat
  <2>2. p - 1 \in Nat /\ p - 1 <= Len(s)
    BY <1>0
  <2>3. \A k \in 1 .. p - 1 : s[k] = s[k] /\ (s[k] \in B <=> s[k] \in B \cup {s[p]})
    BY <2>1
  <2>4. QED  BY <2>2, <2>3, SameRest
<1>3. q[p - 1] \in Seq(T) /\ s[p] \in T /\ q[p] \in Seq(T)
  <2>1. \A a \in 0 .. Len(s) : q[a] \in Seq(T)
    BY <1>0
  <2>2. QED  BY <1>0, <2>1
<1>4. c = Len(q[p - 1]) + 1 /\ c \in Nat /\ q[p][c] = s[p] /\ Cut(q[p]) = q[p - 1]
  <2>1. c = Len(q[p - 1]) + 1 /\ Len(q[p - 1]) \in Nat /\ q[p][c] = s[p]
    BY <1>1, <1>3
  <2>2. c \in 1 .. Len(q[p])
    BY <2>1
  <2>3. /\ Cut(q[p]) \in Seq(T) /\ Len(Cut(q[p])) = Len(q[p]) - 1
        /\ \A k \in 1 .. Len(q[p]) - 1 : Cut(q[p])[k] = IF k < c THEN q[p][k] ELSE q[p][k + 1]
    <3>1. PICK t \in Seq(T) : t = q[p]
      BY <1>3
    <3> HIDE DEF c
    <3>2. QED  BY <2>2, <3>1, CutProperties
  <2>4. \A k \in 1 .. c - 1 : q[p][k] = q[p - 1][k]
    BY <1>1, <1>3, <2>1
  <2> HIDE DEF Cut
  <2>5. Len(Cut(q[p])) = Len(q[p - 1])
    BY <2>1, <2>3
  <2>6. \A k \in 1 .. Len(Cut(q[p])) : Cut(q[p])[k] = q[p - 1][k]
    BY <2>1, <2>3, <2>4
  <2>7. Cut(q[p]) = q[p - 1]
    BY <1>3, <2>3, <2>5, <2>6, SeqEqual
  <2>8. QED  BY <2>1, <2>7
<1>5. 0 \in S
  <2>1. p + 0 = p /\ 0 \in 0 .. Len(s) - p
    BY <1>0
  <2>2. c \in 1 .. c
    BY <1>4
  <2> HIDE DEF Cut
  <2>3. QED  BY <1>1, <1>2, <1>4, <2>1, <2>2
<1>6. ASSUME NEW a \in 0 .. Len(s) - p - 1, a \in S PROVE a + 1 \in S
  <2> DEFINE d == p + a
             e == p + (a + 1)
  <2>1. e \in p + 1 .. Len(s) /\ e \in 1 .. Len(s) /\ d \in 0 .. Len(s) /\ e - 1 = d /\ e # p
        /\ a + 1 \in 0 .. Len(s) - p
    BY <1>0
  <2>2. s[e] # s[p] /\ s[e] \in T /\ q[d] \in Seq(T)
    <3> HIDE DEF d, e
    <3>1. QED  BY <1>0, <2>1 DEF NoRepeat
  <2>3. c \in 1 .. Len(q[d]) /\ q[d][c] = s[p] /\ r[d] = Cut(q[d])
    BY <1>6
  <2>4. CASE s[e] \in B
    <3>1. q[e] = q[d] /\ r[e] = r[d]
      BY <2>1, <2>4 DEF Rest
    <3> HIDE DEF Cut, d, e
    <3>2. QED  BY <2>1, <2>3, <3>1 DEF e
  <2>5. CASE s[e] \notin B
    <3>1. q[e] = Append(q[d], s[e]) /\ r[e] = Append(r[d], s[e])
      BY <2>1, <2>2, <2>5 DEF Rest
    <3>2. c \in 1 .. Len(q[e]) /\ q[e][c] = s[p]
      BY <2>2, <2>3, <3>1
    <3>3. Cut(q[e]) = Append(Cut(q[d]), s[e])
      <4>1. PICK t \in Seq(T), x \in T, u \in {q[e]} : t = q[d] /\ x = s[e] /\ u = q[e] /\ c \in 1 .. Len(t)
        BY <2>2, <2>3
      <4>2. u = Append(t, x)
        BY <3>1, <4>1
      <4>3. \A c1 \in 1 .. Len(t) :
               SubSeq(u, 1, c1 - 1) \o SubSeq(u, c1 + 1, Len(u))
                 = Append(SubSeq(t, 1, c1 - 1) \o SubSeq(t, c1 + 1, Len(t)), x)
        BY <4>2, CutAppend
      <4>5. Cut(u) = Append(Cut(t), x)
        <5> HIDE DEF c
        <5>1. QED  BY <4>1, <4>3
      <4> HIDE DEF Cut, c, d, e
      <4>6. QED  BY <4>1, <4>5
    <3> HIDE DEF Cut, c, d, e
    <3>4. QED  BY <2>1, <2>3, <3>1, <3>2, <3>3 DEF e
  <2>6. QED  BY <2>4, <2>5
<1>7. \A a \in 0 .. Len(s) - p : a \in S
  <2> HIDE DEF S
  <2>1. QED  BY <1>0, <1>5, <1>6, UpTo
<1>8. m - p \in 0 .. Len(s) - p /\ p + (m - p) = m
  BY <1>0
<1>9. QED  BY <1>7, <1>8 DEF LessOne
-------------------------------------------------------------------------------
(* The pool implements TaskPool *)

\* A worker holds a function to execute only while it executes it, and none
\* exits with one in its slot.
RunInv ==
  \A w \in Workers : /\ wpc[w] # "running" => running[w] = NULL
                     /\ wpc[w] = "exited" => funcaoTrabalhar[w] = NULL

PoolInv == IInv /\ HistoryInv /\ RunInv

LEMMA RunNext == PoolInv /\ [Next]_vars => RunInv'
<1> SUFFICES ASSUME PoolInv, [Next]_vars PROVE RunInv'
  OBVIOUS
<1>1. /\ wpc \in [Workers -> WorkerPC] /\ running \in [Workers -> Tasks \cup {NULL}]
      /\ funcaoTrabalhar \in [Workers -> Tasks \cup {NULL}]
  BY DEF PoolInv, IInv, TypeInv, TypeOK
<1> USE DEF RunInv
<1>2. ASSUME UNCHANGED <<wpc, running, funcaoTrabalhar>> PROVE RunInv'
  BY <1>2 DEF PoolInv
<1>3. ASSUME NEW w \in Workers, UNCHANGED <<running, funcaoTrabalhar>>,
             wpc' = [wpc EXCEPT ![w] = Signal(@, "sleepContinuar", "lockOwn")]
      PROVE  RunInv'
  BY <1>1, <1>3 DEF PoolInv, Signal
<1>4. ASSUME NEW w \in Workers, NEW p, wpc' = [wpc EXCEPT ![w] = p],
             UNCHANGED <<running, funcaoTrabalhar>>, wpc[w] # "running",
             p = "exited" => funcaoTrabalhar[w] = NULL
      PROVE  RunInv'
  BY <1>1, <1>4 DEF PoolInv
<1>5. CASE Dispatcher
  <2>1. CASE Spawn
    <3>1. quantThreads \in Workers /\ wpc[quantThreads] = "unborn"
      <4>1. quantThreads \in Nat /\ quantThreads < quantThreadsMax
        BY <2>1, Interval DEF Spawn, NoMoreThreads, PoolInv, IInv, TypeInv, TypeOK
      <4>2. quantThreads \in Workers
        BY <4>1, Interval
      <4>3. QED  BY <4>1, <4>2 DEF PoolInv, IInv, TypeInv, LocalsOK
    <3>2. /\ wpc' = [wpc EXCEPT ![quantThreads] = "lockFila"] /\ running' = running
          /\ funcaoTrabalhar' = [funcaoTrabalhar EXCEPT ![quantThreads] = NULL]
      BY <2>1 DEF Spawn, work
    <3>3. QED  BY <1>1, <3>1, <3>2 DEF PoolInv
  <2>2. CASE Store
    <3>1. /\ escolhida \in Workers /\ wpc[escolhida] \in WorkerPC
          /\ wpc[escolhida] \notin {"exited", "running"}
      <4>1. escolhida \in Workers
        BY <2>2 DEF Store, PoolInv, IInv, TypeInv, LocalsOK
      <4>2. Offered(escolhida)
        BY <2>2, <4>1 DEF Store, PoolInv, IInv, HandoffInv, Chosen
      <4>3. wpc[escolhida] # "exited"
        BY <2>2, <4>1 DEF Store, PoolInv, IInv, HandoffInv
      <4>4. QED  BY <1>1, <4>1, <4>2, <4>3 DEF Offered
    <3>2. /\ wpc' = [wpc EXCEPT ![escolhida] = Signal(@, "sleepContinuar", "lockOwn")]
          /\ running' = running
          /\ funcaoTrabalhar' = [funcaoTrabalhar EXCEPT ![escolhida] = funcao]
      BY <2>2 DEF Store, work
    <3>3. wpc'[escolhida] # "exited"
      BY <1>1, <3>1, <3>2 DEF Signal
    <3>4. QED  BY <1>1, <3>1, <3>2, <3>3 DEF PoolInv, Signal
  <2>3. ASSUME Dispatcher, ~Spawn, ~Store PROVE UNCHANGED <<wpc, running, funcaoTrabalhar>>
    BY <2>3 DEF Dispatcher, Fetch, SetExit, Choose, DGoto, Lock, CondWait, data, slots, work
  <2>4. QED  BY <1>2, <1>5, <2>1, <2>2, <2>3
<1>6. ASSUME NEW w \in Workers, Trabalhar(w) PROVE RunInv'
  <2>1. CASE WGoto(w, "lockFila", "push") /\ Lock(mutexFilaThreads)
    BY <1>4, <2>1 DEF WGoto, Lock, data, slots, work
  <2>2. CASE Offer(w)
    BY <1>4, <2>2 DEF Offer, slots, work
  <2>3. CASE WGoto(w, "lockOwn", "check") /\ Lock(w)
    BY <1>4, <2>3 DEF WGoto, Lock, data, slots, work
  <2>4. CASE Check(w)
    <3>1. UNCHANGED <<running, funcaoTrabalhar>> /\ wpc[w] = "check"
      BY <2>4 DEF Check, WGoto, data, slots, work
    <3>2. \/ wpc' = [wpc EXCEPT ![w] = "waitContinuar"]
          \/ wpc' = [wpc EXCEPT ![w] = "exited"] /\ funcaoTrabalhar[w] = NULL
          \/ wpc' = [wpc EXCEPT ![w] = "call"]
      BY <2>4 DEF Check, WGoto
    <3>3. QED  BY <1>4, <3>1, <3>2
  <2>5. CASE WGoto(w, "waitContinuar", "sleepContinuar") /\ CondWait(w)
    BY <1>4, <2>5 DEF WGoto, CondWait, data, slots, work
  <2>6. CASE Begin(w)
    BY <1>1, <2>6 DEF Begin, WGoto, slots, PoolInv
  <2>7. CASE Finish(w)
    BY <1>1, <2>7 DEF Finish, WGoto, slots, PoolInv
  <2>8. CASE Clear(w)
    BY <1>1, <2>8 DEF Clear, WGoto, work, PoolInv
  <2>9. QED  BY <1>6, <2>1, <2>2, <2>3, <2>4, <2>5, <2>6, <2>7, <2>8 DEF Trabalhar
<1>7. CASE Wait
  <2>1. CASE SignalWorker
    <3>1. i \in Workers
      <4>1. i \in 0 .. quantThreadsMax /\ i < quantThreadsMax
        BY <2>1 DEF SignalWorker, PoolInv, IInv, TypeInv, TypeOK, LocalsOK
      <4>2. QED  BY <4>1, Interval
    <3>2. QED  BY <1>3, <2>1, <3>1 DEF SignalWorker, data, slots, work
  <2>2. ASSUME Wait, ~SignalWorker PROVE UNCHANGED <<wpc, running, funcaoTrabalhar>>
    BY <2>2 DEF Wait, Close, JoinDispatcher, JoinWorker, NextWorker, Uninitialised,
                OGoto, Lock, data, slots, work
  <2>3. QED  BY <1>2, <1>7, <2>1, <2>2
<1>8. CASE SpuriousWakeup
  <2>1. UNCHANGED <<running, funcaoTrabalhar>>
    BY <1>8 DEF SpuriousWakeup, data, slots, work
  <2>2. \/ wpc' = wpc
        \/ \E w \in Workers : wpc[w] = "sleepContinuar" /\ wpc' = [wpc EXCEPT ![w] = "lockOwn"]
    BY <1>8 DEF SpuriousWakeup, DGoto, WGoto
  <2>3. QED  BY <1>2, <1>4, <2>1, <2>2
<1>9. ASSUME NEW f \in Tasks, Call(f) \/ Schedule(f)
      PROVE  UNCHANGED <<wpc, running, funcaoTrabalhar>>
  BY <1>9 DEF Call, Schedule, Push, CGoto, Lock, data, slots, work
<1>10. CASE CallWait \/ Destroy \/ Terminated \/ UNCHANGED vars
  BY <1>2, <1>10 DEF CallWait, Destroy, Terminated, OGoto, vars, pcs, data, slots, work
<1>11. QED  BY <1>2, <1>5, <1>6, <1>7, <1>8, <1>9, <1>10 DEF Next

LEMMA PoolInductive == Spec => []PoolInv
<1>1. Init => RunInv
  <2> SUFFICES ASSUME Init, NEW w \in Workers
               PROVE  running[w] = NULL /\ wpc[w] = "unborn"
    BY DEF RunInv
  <2>1. QED  BY DEF Init
<1>2. Init => PoolInv
  BY <1>1, IInvInit, InitHistory DEF PoolInv
<1>3. IInv /\ [Next]_vars => IInv'
  BY TypeInvNext, LockNext, HandoffNext, CloseNext, SpawnNext, WakeupNext DEF IInv
<1>4. PoolInv /\ [Next]_vars => PoolInv'
  BY <1>3, NextHistory, RunNext DEF PoolInv
<1>5. QED  BY <1>2, <1>4, PTL DEF Spec

LEMMA PoolFacts ==
  ASSUME PoolInv
  PROVE  /\ agenda \in Seq(Tasks) /\ Len(agenda) \in Nat /\ Count \in 0 .. Len(agenda)
         /\ \A j, k \in 1 .. Len(agenda) : agenda[j] = agenda[k] => j = k
         /\ \A k \in 1 .. Len(agenda) : agenda[k] \in Tasks /\ agenda[k] # NULL
         /\ Taken \subseteq Range(agenda) /\ NULL \notin Taken
         /\ Range(agenda) = {agenda[k] : k \in 1 .. Len(agenda)}
<1>1. agenda \in Seq(Tasks) /\ Len(agenda) \in Nat /\ filaFuncoes \in Seq(Tasks)
  BY DEF PoolInv, IInv, TypeInv, TypeOK
<1>2. Count \in 0 .. Len(agenda)
  <2>1. Len(filaFuncoes) \in Nat /\ Count \in Nat
    BY <1>1 DEF PoolInv, HistoryInv, QueueInv
  <2>2. QED  BY <1>1, <2>1 DEF Count
<1>3. \A k \in 1 .. Len(agenda) : agenda[k] \in Tasks /\ agenda[k] # NULL
  BY <1>1, Distinct
<1>4. Range(agenda) = {agenda[k] : k \in 1 .. Len(agenda)}
  BY <1>1 DEF Range
<1>5. \A k \in 1 .. Count : k \in 1 .. Len(agenda)
  BY <1>1, <1>2
<1>6. Taken \subseteq Range(agenda) /\ NULL \notin Taken
  BY <1>3, <1>4, <1>5 DEF Taken
<1>7. QED  BY <1>1, <1>2, <1>3, <1>4, <1>6 DEF PoolInv, HistoryInv, QueueInv

\* What is executed is in the slot of a worker that runs it, and was submitted.
LEMMA ExecutingIs ==
  ASSUME PoolInv
  PROVE  /\ \A f : f \in Executing <=>
               \E w \in Workers : wpc[w] = "running" /\ running[w] = f /\ funcaoTrabalhar[w] = f
         /\ Executing \subseteq Taken /\ Executing \cap finished = {} /\ Begun \subseteq Taken
<1>1. running \in [Workers -> Tasks \cup {NULL}]
  BY DEF PoolInv, IInv, TypeInv, TypeOK
<1>2. \A f : f \in Executing <=> f # NULL /\ \E w \in Workers : running[w] = f
  BY <1>1 DEF Executing, Range
<1>3. \A w \in Workers : /\ running[w] # NULL => wpc[w] = "running"
                         /\ wpc[w] = "running" => running[w] = funcaoTrabalhar[w] /\ running[w] # NULL
  <2> SUFFICES ASSUME NEW w \in Workers
               PROVE  /\ running[w] # NULL => wpc[w] = "running"
                      /\ wpc[w] = "running" => running[w] = funcaoTrabalhar[w] /\ running[w] # NULL
    OBVIOUS
  <2>1. QED  BY DEF PoolInv, RunInv, HistoryInv, PlaceInv
<1>4. \A f : f \in Executing <=>
         \E w \in Workers : wpc[w] = "running" /\ running[w] = f /\ funcaoTrabalhar[w] = f
  BY <1>2, <1>3
<1>5. \A w \in Workers : wpc[w] = "running" =>
         funcaoTrabalhar[w] \in Taken /\ funcaoTrabalhar[w] \notin finished
  BY <1>3 DEF PoolInv, HistoryInv, PlaceInv
<1>6. QED  BY <1>4, <1>5 DEF PoolInv, HistoryInv, PlaceInv, Begun

LEMMA SubmittedIs == ASSUME PoolInv PROVE Pool!Submitted = Range(agenda)
<1>1. PICK r : Rest(Tasks, agenda, Begun, r) /\ Pending = r[Len(agenda)]
  BY PoolFacts, WithoutIs DEF Pending
<1>2. Len(agenda) \in 0 .. Len(agenda)
  BY PoolFacts
<1>3. /\ \A j \in 1 .. Len(Pending) :
            Pending[j] \notin Begun /\ \E k \in 1 .. Len(agenda) : Pending[j] = agenda[k]
      /\ \A k \in 1 .. Len(agenda) :
            agenda[k] \notin Begun => \E j \in 1 .. Len(Pending) : Pending[j] = agenda[k]
  BY <1>1, <1>2, PoolFacts, RestElements
<1>4. Pending \in Seq(Tasks)
  BY <1>1, <1>2 DEF Rest
<1>5. Pool!Range(Pending) = {Pending[j] : j \in 1 .. Len(Pending)}
  BY <1>4 DEF Pool!Range
<1>6. Begun \subseteq Range(agenda)
  BY PoolFacts, ExecutingIs
<1>7. Range(agenda) = {agenda[k] : k \in 1 .. Len(agenda)}
  BY PoolFacts
<1>8. QED  BY <1>3, <1>5, <1>6, <1>7 DEF Pool!Submitted, Begun

LEMMA StepUnmapped ==
  ASSUME UNCHANGED <<agenda, running, finished, prior, WaitState>>
  PROVE  UNCHANGED Pool!vars
BY DEF Pool!vars, Pending, Without, Begun, Executing

LEMMA PushMapped ==
  ASSUME PoolInv, NEW f \in Tasks, Push(f)
  PROVE  Pool!Submit(f)
<1>1. /\ call[f] = "schedule" /\ agenda' = Append(agenda, f)
      /\ UNCHANGED <<opc, prior, running, finished>>
  BY DEF Push, work
<1>2. f \notin Range(agenda)
  <2>1. \A k \in 1 .. Len(agenda) : call[agenda[k]] = "returned"
    BY DEF PoolInv, HistoryInv, QueueInv
  <2>2. QED  BY <1>1, <2>1, PoolFacts
<1>3. f \notin Begun
  BY <1>2, PoolFacts, ExecutingIs
<1>4. UNCHANGED <<Executing, Begun, WaitState>>
  BY <1>1 DEF Executing, Begun, WaitState
<1>5. Pending' = Append(Pending, f)
  <2>1. Pending' = Without(Append(agenda, f), Begun)
    BY <1>1, <1>4 DEF Pending
  <2>2. QED  BY <1>3, <2>1, PoolFacts, WithoutAppend DEF Pending
<1>6. QED  BY <1>1, <1>2, <1>4, <1>5, SubmittedIs DEF Pool!Submit

LEMMA FinishMapped ==
  ASSUME PoolInv, NEW w \in Workers, Finish(w)
  PROVE  \E f \in Tasks : Pool!Finish(f)
<1> DEFINE f == running[w]
<1>1. /\ wpc[w] = "running" /\ running' = [running EXCEPT ![w] = NULL]
      /\ finished' = finished \cup {f} /\ UNCHANGED <<opc, agenda, prior>>
  BY DEF Finish, WGoto, queue
<1>2. running \in [Workers -> Tasks \cup {NULL}] /\ f \in Tasks /\ f # NULL
  BY <1>1, Distinct DEF PoolInv, IInv, TypeInv, TypeOK, LocalsOK
<1>3. f \in Executing
  BY <1>2 DEF Executing, Range
<1>4. \A v \in Workers : running[v] = f => v = w
  <2>1. \A v \in Workers : running[v] = f => wpc[v] = "running" /\ funcaoTrabalhar[v] = f
    BY <1>2 DEF PoolInv, RunInv, HistoryInv, PlaceInv
  <2>2. QED  BY <1>2, <2>1 DEF PoolInv, HistoryInv, PlaceInv
<1>5. Executing' = Executing \ {f}
  BY <1>1, <1>2, <1>4 DEF Executing, Range
<1>6. Begun' = Begun
  BY <1>1, <1>3, <1>5 DEF Begun
<1>7. UNCHANGED <<Pending, WaitState>>
  BY <1>1, <1>6 DEF Pending, WaitState
<1>8. Pool!Finish(f)
  BY <1>1, <1>3, <1>5, <1>7 DEF Pool!Finish
<1>9. QED  BY <1>2, <1>8

\* The function that begins and the older ones that have not, of which there
\* are k, and those that are executed, have a worker of their own.
LEMMA EnoughWorkers ==
  ASSUME PoolInv, NEW Q, NEW k \in Nat, NEW e \in Bijection(1 .. k, Q),
         Q \cap Executing = {},
         \A f \in Q : \E w \in Workers : funcaoTrabalhar[w] = f
  PROVE  k + Cardinality(Executing) <= quantThreadsMax
<1> DEFINE S == Q \cup Executing
           W == {w \in Workers : funcaoTrabalhar[w] \in S}
           g == [w \in W |-> funcaoTrabalhar[w]]
<1>1. IsFiniteSet(Workers) /\ Cardinality(Workers) = quantThreadsMax
  <2>1. quantThreadsMax \in Nat \ {0} /\ quantThreadsMax - 1 \in Int /\ ~(0 > quantThreadsMax - 1)
    BY ThreadPoolAssumption
  <2>2. QED  BY <2>1, FS_Interval DEF Workers
<1>2. IsFiniteSet(W) /\ Cardinality(W) <= quantThreadsMax
  <2>1. W \subseteq Workers
    OBVIOUS
  <2>2. QED  BY <1>1, <2>1, FS_Subset
<1>3. IsFiniteSet(S) /\ Cardinality(S) <= Cardinality(W)
  <2>1. g \in [W -> S]
    OBVIOUS
  <2>2. \A f \in S : \E w \in W : g[w] = f
    BY ExecutingIs
  <2>3. g \in Surjection(W, S)
    BY <2>1, <2>2 DEF Surjection
  <2> HIDE DEF g, W, S
  <2>4. QED  BY <1>2, <2>3, FS_Surjection
<1>4. IsFiniteSet(Q) /\ Cardinality(Q) = k
  <2>1. IsFiniteSet(1 .. k) /\ ExistsBijection(1 .. k, Q)
    BY FS_Interval DEF ExistsBijection
  <2>2. QED  BY <2>1, FS_Bijection, FS_CountingElements
<1>5. IsFiniteSet(Executing)
  <2>1. Executing \subseteq S
    OBVIOUS
  <2> HIDE DEF S
  <2>2. QED  BY <1>3, <2>1, FS_Subset
<1>6. Cardinality(S) = k + Cardinality(Executing)
  <2>1. Cardinality(Q \cup Executing)
          = Cardinality(Q) + Cardinality(Executing) - Cardinality(Q \cap Executing)
    BY <1>4, <1>5, FS_Union
  <2>2. Cardinality(Q \cap Executing) = 0 /\ Cardinality(Executing) \in Nat
    BY <1>5, FS_EmptySet, FS_CardinalityType
  <2>3. QED  BY <1>4, <2>1, <2>2
<1>7. Cardinality(S) \in Nat /\ Cardinality(W) \in Nat /\ quantThreadsMax \in Nat
  BY <1>2, <1>3, FS_CardinalityType, ThreadPoolAssumption
<1> HIDE DEF S, W
<1>8. QED  BY <1>2, <1>3, <1>6, <1>7

LEMMA BeginMapped ==
  ASSUME PoolInv, NEW w \in Workers, Begin(w)
  PROVE  \E k \in DOMAIN Pending : Pool!Begin(k)
<1> DEFINE f == funcaoTrabalhar[w]
           n == Len(agenda)
<1>1. /\ wpc[w] = "call" /\ running' = [running EXCEPT ![w] = f]
      /\ UNCHANGED <<opc, agenda, prior, finished>>
  BY DEF Begin, WGoto, queue
<1>2. f \in Taken /\ f # funcao /\ f \notin finished /\ f # NULL
  BY <1>1 DEF PoolInv, HistoryInv, PlaceInv
<1>3. PICK p \in 1 .. n : p <= Count /\ agenda[p] = f
  <2>1. PICK p \in 1 .. Count : agenda[p] = f
    BY <1>2 DEF Taken
  <2>2. QED  BY <2>1, PoolFacts
<1>4. p \in 0 .. n /\ n \in 0 .. n /\ n \in p .. n
  BY PoolFacts
<1>5. f \notin Begun
  <2>1. f \notin Executing
    BY <1>1, <1>2, ExecutingIs DEF PoolInv, HistoryInv, PlaceInv
  <2>2. QED  BY <1>2, <2>1 DEF Begun
<1>6. Executing' = Executing \cup {f} /\ Begun' = Begun \cup {f}
  <2>1. running \in [Workers -> Tasks \cup {NULL}] /\ running[w] = NULL
    BY <1>1 DEF PoolInv, IInv, TypeInv, TypeOK, RunInv
  <2>2. Executing' = Executing \cup {f}
    BY <1>1, <1>2, <2>1 DEF Executing, Range
  <2>3. QED  BY <1>1, <2>2 DEF Begun
<1>7. PICK q : Rest(Tasks, agenda, Begun, q) /\ Pending = q[n]
  BY PoolFacts, WithoutIs DEF Pending
<1>8. PICK r : Rest(Tasks, agenda, Begun \cup {agenda[p]}, r) /\ Pending' = r[n]
  <2>1. Pending' = Without(agenda, Begun \cup {agenda[p]})
    BY <1>1, <1>3, <1>6 DEF Pending
  <2>2. QED  BY <2>1, PoolFacts, WithoutIs
<1> DEFINE k == Len(q[p])
<1>9. /\ k \in 1 .. Len(Pending) /\ Pending[k] = f
      /\ Pending' = SubSeq(Pending, 1, k - 1) \o SubSeq(Pending, k + 1, Len(Pending))
  <2>1. agenda[p] \notin Begun /\ agenda \in Seq(Tasks) /\ NoRepeat(agenda)
    BY <1>3, <1>5, PoolFacts DEF NoRepeat
  <2>2. LessOne(q[n], k, agenda[p], r[n])
    BY <1>4, <1>7, <1>8, <2>1, RestRemoved
  <2>3. QED  BY <1>3, <1>7, <1>8, <2>2 DEF LessOne
<1>10. k + Cardinality(Executing) <= quantThreadsMax
  <2> DEFINE e == [j \in 1 .. k |-> q[p][j]]
             Q == {q[p][j] : j \in 1 .. k}
  <2>1. /\ \A j \in 1 .. k : q[p][j] \notin Begun /\ \E m \in 1 .. p : q[p][j] = agenda[m]
        /\ \A i1, i2 \in 1 .. k : q[p][i1] = q[p][i2] => i1 = i2
    BY <1>4, <1>7, PoolFacts, RestElements
  <2>2. e \in Bijection(1 .. k, Q)
    BY <2>1 DEF Bijection, Injection, Surjection, IsInjective
  <2>3. Q \cap Executing = {}
    BY <2>1 DEF Begun
  <2>4. ASSUME NEW j \in 1 .. k
        PROVE  \E v \in Workers : funcaoTrabalhar[v] = q[p][j]
    <3>1. PICK m \in 1 .. p : q[p][j] = agenda[m]
      BY <2>1
    <3>2. m \in 1 .. Count /\ m \in 1 .. n /\ Count \in 1 .. n
      BY <1>3, <3>1, PoolFacts
    <3>3. q[p][j] \in Taken /\ q[p][j] \notin finished
      BY <2>1, <3>1, <3>2 DEF Taken, Begun
    <3>4. q[p][j] # funcao
      <4>1. CASE m = p
        BY <1>2, <1>3, <3>1, <4>1
      <4>2. CASE m # p
        <5>1. m # Count
          BY <1>3, <3>1, <4>2, PoolFacts
        <5>2. agenda[m] # agenda[Count] /\ agenda[m] # NULL
          BY <3>2, <5>1, PoolFacts
        <5>3. QED  BY <3>1, <5>2 DEF PoolInv, HistoryInv, QueueInv
      <4>3. QED  BY <4>1, <4>2
    <3>5. QED  BY <3>3, <3>4 DEF PoolInv, HistoryInv, PlaceInv
  <2>5. \A x \in Q : \E v \in Workers : funcaoTrabalhar[v] = x
    BY <2>4
  <2>6. k \in Nat
    BY <1>9
  <2> HIDE DEF k, e, Q
  <2>7. QED  BY <2>2, <2>3, <2>5, <2>6, EnoughWorkers
<1>11. WaitState # "returned" /\ UNCHANGED WaitState
  <2>1. opc \notin {"returned", "destroyed"}
    BY <1>1, Destroyed DEF PoolInv, DestroySafe
  <2>2. QED  BY <1>1, <2>1 DEF WaitState
<1>12. k \in DOMAIN Pending
  <2>1. Pending \in Seq(Tasks)
    BY <1>4, <1>7 DEF Rest
  <2> HIDE DEF k
  <2>2. QED  BY <1>9, <2>1
<1>13. /\ Pool!Cardinality(Executing) = Cardinality(Executing)
       /\ Pool!RemoveAt(Pending, k)
            = SubSeq(Pending, 1, k - 1) \o SubSeq(Pending, k + 1, Len(Pending))
  BY DEF Pool!Cardinality, Cardinality, Pool!RemoveAt
<1>14. Pool!Begin(k)
  <2> HIDE DEF k
  <2>1. QED  BY <1>1, <1>6, <1>9, <1>10, <1>11, <1>13 DEF Pool!Begin
<1>15. QED  BY <1>12, <1>14

LEMMA CloseMapped == ASSUME PoolInv, Close PROVE Pool!Close
<1>1. /\ opc = "close" /\ opc' = "joinD" /\ prior' = Range(agenda)
      /\ UNCHANGED <<agenda, running, finished>>
  BY DEF Close, work
<1>2. WaitState = "open" /\ WaitState' = "closed"
  BY <1>1 DEF WaitState
<1>3. UNCHANGED <<Pending, Executing>>
  BY <1>1 DEF Pending, Without, Begun, Executing
<1>4. QED  BY <1>1, <1>2, <1>3, SubmittedIs DEF Pool!Close

\* When the last worker has been joined every slot is empty, and what was
\* pushed before wait() closed the pool can only be finished.
LEMMA ReturnMapped ==
  ASSUME PoolInv, PoolInv', WaitState = "closed", opc' = "returned",
         UNCHANGED <<agenda, running, finished, prior>>, dpc' = dpc, wpc' = wpc,
         funcaoTrabalhar' = funcaoTrabalhar, funcao' = funcao, UNCHANGED filaFuncoes
  PROVE  Pool!Return
<1>1. dpc = "exited" /\ \A w \in Workers : wpc[w] \in {"unborn", "exited"}
  <2>1. DestroySafe'
    BY Destroyed, PTL DEF PoolInv
  <2>2. QED  BY <2>1 DEF DestroySafe
<1>2. \A w \in Workers : running[w] = NULL /\ funcaoTrabalhar[w] = NULL
  BY <1>1 DEF PoolInv, RunInv, IInv, HandoffInv
<1>3. Executing = {}
  BY <1>1, ExecutingIs
<1>4. funcao = NULL /\ prior \subseteq Taken
  BY <1>1 DEF PoolInv, HistoryInv, QueueInv
<1>5. prior \subseteq finished
  BY <1>2, <1>4, PoolFacts DEF PoolInv, HistoryInv, PlaceInv
<1>6. UNCHANGED <<Pending, Executing>>
  BY DEF Pending, Without, Begun, Executing
<1>7. WaitState' = "returned"
  BY DEF WaitState
<1>8. QED  BY <1>3, <1>5, <1>6, <1>7 DEF Pool!Return

LEMMA StepMapped == PoolInv /\ PoolInv' /\ [Next]_vars => [Pool!Next]_Pool!vars
<1> SUFFICES ASSUME PoolInv, PoolInv', [Next]_vars
             PROVE  Pool!Next \/ UNCHANGED Pool!vars
  OBVIOUS
<1>1. ASSUME NEW f \in Tasks, Call(f) \/ Schedule(f)
      PROVE  Pool!Next \/ UNCHANGED Pool!vars
  <2>1. CASE Push(f)
    BY <2>1, PushMapped DEF Pool!Next
  <2>2. CASE ~Push(f)
    <3>1. UNCHANGED <<agenda, running, finished, prior, WaitState>>
      BY <1>1, <2>2 DEF Call, Schedule, CGoto, Lock, data, queue, work, WaitState
    <3>2. QED  BY <3>1, StepUnmapped
  <2>3. QED  BY <2>1, <2>2
<1>2. CASE Dispatcher
  <2>1. UNCHANGED <<agenda, running, finished, prior, opc>>
    BY <1>2 DEF Dispatcher, Fetch, SetExit, Spawn, Choose, Store, DGoto, Lock, CondWait,
                data, queue, work
  <2>2. QED  BY <2>1, StepUnmapped DEF WaitState
<1>3. ASSUME NEW w \in Workers, Trabalhar(w)
      PROVE  Pool!Next \/ UNCHANGED Pool!vars
  <2>1. CASE Begin(w)
    BY <2>1, BeginMapped DEF Pool!Next
  <2>2. CASE Finish(w)
    BY <2>2, FinishMapped DEF Pool!Next
  <2>3. CASE ~Begin(w) /\ ~Finish(w)
    <3>1. UNCHANGED <<agenda, running, finished, prior, opc>>
      BY <1>3, <2>3 DEF Trabalhar, Offer, Check, Clear, WGoto, Lock, CondWait,
                        data, queue, work
    <3>2. QED  BY <3>1, StepUnmapped DEF WaitState
  <2>4. QED  BY <2>1, <2>2, <2>3
<1>4. ASSUME NEW from, from \in {"lockT", "joinT"}, NextWorker(from)
      PROVE  Pool!Next \/ UNCHANGED Pool!vars
  <2>1. /\ opc = from /\ opc' \in {"lockT", "returned"} /\ dpc' = dpc /\ wpc' = wpc
        /\ UNCHANGED <<agenda, running, finished, prior, funcaoTrabalhar, funcao, filaFuncoes>>
    BY <1>4 DEF NextWorker, OGoto, queue, slots, work
  <2>2. WaitState = "closed"
    BY <1>4, <2>1 DEF WaitState
  <2>3. CASE opc' = "lockT"
    <3>1. WaitState' = WaitState
      BY <2>2, <2>3 DEF WaitState
    <3>2. QED  BY <2>1, <3>1, StepUnmapped
  <2>4. CASE opc' = "returned"
    BY <2>1, <2>2, <2>4, ReturnMapped DEF Pool!Next
  <2>5. QED  BY <2>1, <2>3, <2>4
<1>5. CASE Wait
  <2>1. CASE Close
    BY <2>1, CloseMapped DEF Pool!Next
  <2>2. CASE JoinWorker \/ (Uninitialised /\ NextWorker("lockT"))
    BY <1>4, <2>2 DEF JoinWorker
  <2>3. CASE ~Close /\ ~JoinWorker /\ ~(Uninitialised /\ NextWorker("lockT"))
    <3>1. UNCHANGED <<agenda, running, finished, prior, WaitState>>
      BY <1>5, <2>3 DEF Wait, JoinDispatcher, SignalWorker, Uninitialised, OGoto, Lock,
                        data, queue, work, WaitState
    <3>2. QED  BY <3>1, StepUnmapped
  <2>4. QED  BY <2>1, <2>2, <2>3
<1>6. CASE CallWait \/ Destroy \/ SpuriousWakeup \/ Terminated \/ UNCHANGED vars
  <2>1. UNCHANGED <<agenda, running, finished, prior, WaitState>>
    BY <1>6 DEF CallWait, Destroy, SpuriousWakeup, Terminated, OGoto, DGoto, WGoto,
                vars, pcs, data, queue, work, WaitState
  <2>2. QED  BY <2>1, StepUnmapped
<1>7. QED  BY <1>1, <1>2, <1>3, <1>5, <1>6 DEF Next

LEMMA InitMapped == Init => Pool!Init
<1> SUFFICES ASSUME Init PROVE Pool!Init
  OBVIOUS
<1>1. Executing = {}
  BY DEF Init, Executing, Range
<1>2. agenda \in Seq(Tasks) /\ Len(agenda) = 0
  BY DEF Init
<1>3. Pending = <<>>
  <2>1. PICK r : Rest(Tasks, agenda, Begun, r) /\ Pending = r[Len(agenda)]
    BY <1>2, WithoutIs DEF Pending
  <2>2. QED  BY <1>2, <2>1 DEF Rest
<1>4. QED  BY <1>1, <1>3 DEF Init, Pool!Init, WaitState

\* The pool implements what thread-pool.h promises: a function pushed is begun
\* once, in the order of the pushes but for workers that are slow to start, at
\* most quantThreadsMax are executed at a time, and wait() returns when all that
\* was pushed before it is finished and nothing is executed.
THEOREM PoolImplemented == Spec => ImplementsTaskPool
<1>1. Spec => []PoolInv
  BY PoolInductive
<1>2. QED
  BY <1>1, InitMapped, StepMapped, PTL DEF Spec, ImplementsTaskPool, Pool!Spec
===============================================================================
