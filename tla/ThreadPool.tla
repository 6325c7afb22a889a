------------------------------ MODULE ThreadPool ------------------------------
(***************************************************************************)
(* The thread pool of assignments 5 and 6 (thread-pool.cc, the same file   *)
(* in both): schedule() pushes functions on a queue, one dispatcher thread *)
(* pops them and hands each to a worker thread, wait() closes the pool.    *)
(*                                                                         *)
(* A step is one lock operation or one access to shared state between two. *)
(* A thread asleep on a condition variable is at a "sleep" point; a signal *)
(* moves it to the point where it locks the mutex again.                   *)
(***************************************************************************)
EXTENDS Integers, Sequences, Functions

CONSTANTS Tasks,           \* the functions given to schedule(), each once
          quantThreadsMax, \* the constructor's numThreads
          NULL             \* funcaoTrabalhar.f == NULL

ASSUME ThreadPoolAssumption ==
  /\ quantThreadsMax \in Nat \ {0}
  /\ \A f \in Tasks \cup {NULL} : f \notin Int
  /\ NULL \notin Tasks

Workers    == 0 .. quantThreadsMax - 1  \* indices of threadsT
dispatcher == -1
owner      == -2                        \* the thread that calls wait()
Threads    == Tasks \cup Workers \cup {dispatcher, owner}
                                        \* f \in Tasks: who calls schedule(f)
mutexFilaFuncoes == -1
mutexFilaThreads == -2                  \* w \in Workers: threadsT[w].mutex
Mutexes == Workers \cup {mutexFilaFuncoes, mutexFilaThreads}

VARIABLES
  dpc, opc, wpc, call,                  \* program points of the dispatcher, of
                                        \* wait(), of workers, of schedule(f)
  locked,                               \* the mutexes now locked
  filaFuncoes, flagExitDispatcher,
  filaThreads, quantThreads,
  funcaoTrabalhar, flagExitTrabalhar,
  funcao, escolhida,                    \* the dispatcher's locals
  running,                              \* the function a worker executes
  i,                                    \* the loop counter of wait()
  agenda, prior, finished               \* history: pushed, in order; pushed
                                        \* before wait() closed; executed

queue   == <<filaFuncoes, flagExitDispatcher, agenda, prior>>
threads == <<filaThreads, quantThreads>>
slots   == <<funcaoTrabalhar, flagExitTrabalhar>>
locals  == <<funcao, escolhida, i>>
work    == <<running, finished>>
pcs     == <<dpc, opc, wpc, call>>
data    == <<queue, threads, slots, locals, work>>
vars    == <<pcs, locked, data>>

DispatcherPC == {"lockFuncoes", "fetch", "waitFuncao", "sleepFuncao", "setExit",
                 "exited", "lockThreads", "choose", "waitThread", "sleepThread",
                 "lockWorker", "store"}
OwnerPC  == {"idle", "lockClose", "close", "joinD", "lockT", "signalT", "joinT",
             "returned", "destroyed", "undefined"}
WorkerPC == {"unborn", "lockFila", "push", "lockOwn", "check", "waitContinuar",
             "sleepContinuar", "call", "running", "clear", "exited"}
CallerPC == {"idle", "lockSchedule", "schedule", "returned"}

TypeOK ==
  /\ dpc \in DispatcherPC /\ opc \in OwnerPC
  /\ wpc \in [Workers -> WorkerPC] /\ call \in [Tasks -> CallerPC]
  /\ locked \in SUBSET Mutexes
  /\ filaFuncoes \in Seq(Tasks) /\ flagExitDispatcher \in BOOLEAN
  /\ filaThreads \in Seq(Workers) /\ quantThreads \in 0 .. quantThreadsMax
  /\ funcaoTrabalhar \in [Workers -> Tasks \cup {NULL}]
  /\ flagExitTrabalhar \in BOOLEAN
  /\ funcao \in Tasks \cup {NULL} /\ escolhida \in Workers \cup {NULL}
  /\ running \in [Workers -> Tasks \cup {NULL}]
  /\ i \in 0 .. quantThreadsMax
  /\ agenda \in Seq(Tasks) /\ prior \in SUBSET Tasks
  /\ finished \in SUBSET Tasks

\* The constructor. The fields of threadsT stay uninitialised until
\* novaThreadTrabalhar: nothing reads the values given to them here.
Init ==
  /\ dpc = "lockFuncoes" /\ opc = "idle"
  /\ wpc = [w \in Workers |-> "unborn"] /\ call = [f \in Tasks |-> "idle"]
  /\ locked = {}
  /\ filaFuncoes = <<>> /\ flagExitDispatcher = FALSE
  /\ filaThreads = <<>> /\ quantThreads = 0
  /\ funcaoTrabalhar = [w \in Workers |-> NULL] /\ flagExitTrabalhar = FALSE
  /\ funcao = NULL /\ escolhida = NULL /\ i = 0
  /\ running = [w \in Workers |-> NULL] /\ finished = {}
  /\ agenda = <<>> /\ prior = {}

-------------------------------------------------------------------------------
DGoto(from, to)    == dpc = from /\ dpc' = to /\ UNCHANGED <<opc, wpc, call>>
OGoto(from, to)    == opc = from /\ opc' = to /\ UNCHANGED <<dpc, wpc, call>>
WGoto(w, from, to) == /\ wpc[w] = from /\ wpc' = [wpc EXCEPT ![w] = to]
                      /\ UNCHANGED <<dpc, opc, call>>
CGoto(f, from, to) == /\ call[f] = from /\ call' = [call EXCEPT ![f] = to]
                      /\ UNCHANGED <<dpc, opc, wpc>>

Lock(m) == m \notin locked /\ locked' = locked \cup {m} /\ UNCHANGED data

Unlock(m) == locked' = locked \ {m}

\* pthread_cond_wait; SpuriousWakeup below makes it return without a signal.
CondWait(m) == Unlock(m) /\ UNCHANGED data

\* pthread_cond_signal: where a thread at p goes when it sleeps at "sleep".
Signal(p, sleep, lock) == IF p = sleep THEN lock ELSE p

-------------------------------------------------------------------------------
(* schedule(f), called by any thread while the pool exists *)

Call(f) ==
  opc # "destroyed" /\ CGoto(f, "idle", "lockSchedule") /\ UNCHANGED <<locked, data>>

Push(f) ==
  /\ call[f] = "schedule" /\ call' = [call EXCEPT ![f] = "returned"]
  /\ filaFuncoes' = Append(filaFuncoes, f) /\ agenda' = Append(agenda, f)
  /\ dpc' = Signal(dpc, "sleepFuncao", "lockFuncoes")
  /\ Unlock(mutexFilaFuncoes)
  /\ UNCHANGED <<opc, wpc, flagExitDispatcher, prior, threads, slots, locals, work>>

Schedule(f) ==
  \/ CGoto(f, "lockSchedule", "schedule") /\ Lock(mutexFilaFuncoes)
  \/ Push(f)

-------------------------------------------------------------------------------
(* dispatcher() *)

StopAtOnce == flagExitDispatcher                          \* mutant
MayStop == flagExitDispatcher /\ filaFuncoes = <<>>

\* Lines 28-44: wait, stop, or take the oldest function of the queue.
Fetch ==
  /\ \/ /\ DGoto("fetch", "waitFuncao")
        /\ filaFuncoes = <<>> /\ ~flagExitDispatcher
        /\ UNCHANGED <<locked, filaFuncoes, funcao>>
     \/ /\ DGoto("fetch", "setExit")
        /\ MayStop
        /\ Unlock(mutexFilaFuncoes) /\ UNCHANGED <<filaFuncoes, funcao>>
     \/ /\ DGoto("fetch", "lockThreads")
        /\ filaFuncoes # <<>>
        /\ funcao' = Head(filaFuncoes) /\ filaFuncoes' = Tail(filaFuncoes)
        /\ Unlock(mutexFilaFuncoes)
  /\ UNCHANGED <<flagExitDispatcher, agenda, prior, threads, slots,
                 escolhida, i, work>>

\* Under no mutex.
SetExit ==
  /\ DGoto("setExit", "exited")
  /\ flagExitTrabalhar' = TRUE
  /\ UNCHANGED <<locked, queue, threads, funcaoTrabalhar, locals, work>>

NoMoreThreads == quantThreads >= quantThreadsMax

\* novaThreadTrabalhar; the loop goes round with mutexFilaThreads locked.
Spawn ==
  /\ dpc = "choose" /\ filaThreads = <<>> /\ ~NoMoreThreads
  /\ wpc' = [wpc EXCEPT ![quantThreads] = "lockFila"]
  /\ funcaoTrabalhar' = [funcaoTrabalhar EXCEPT ![quantThreads] = NULL]
  /\ quantThreads' = quantThreads + 1
  /\ UNCHANGED <<dpc, opc, call, locked, queue, filaThreads, flagExitTrabalhar,
                 locals, work>>

\* Lines 48-66 otherwise: wait for a worker, or take the first one.
Choose ==
  /\ \/ /\ DGoto("choose", "waitThread")
        /\ filaThreads = <<>> /\ NoMoreThreads
        /\ UNCHANGED <<locked, filaThreads, escolhida>>
     \/ /\ DGoto("choose", "lockWorker")
        /\ filaThreads # <<>>
        /\ escolhida' = Head(filaThreads) /\ filaThreads' = Tail(filaThreads)
        /\ Unlock(mutexFilaThreads)
  /\ UNCHANGED <<queue, quantThreads, slots, funcao, i, work>>

\* The locals die here: the loop body declares them afresh.
Store ==
  /\ dpc = "store" /\ dpc' = "lockFuncoes"
  /\ funcaoTrabalhar' = [funcaoTrabalhar EXCEPT ![escolhida] = funcao]
  /\ wpc' = [wpc EXCEPT ![escolhida] = Signal(@, "sleepContinuar", "lockOwn")]
  /\ Unlock(escolhida) /\ funcao' = NULL /\ escolhida' = NULL
  /\ UNCHANGED <<opc, call, queue, threads, flagExitTrabalhar, i, work>>

Dispatcher ==
  \/ DGoto("lockFuncoes", "fetch") /\ Lock(mutexFilaFuncoes)
  \/ Fetch
  \/ DGoto("waitFuncao", "sleepFuncao") /\ CondWait(mutexFilaFuncoes)
  \/ SetExit
  \/ DGoto("lockThreads", "choose") /\ Lock(mutexFilaThreads)
  \/ Spawn \/ Choose
  \/ DGoto("waitThread", "sleepThread") /\ CondWait(mutexFilaThreads)
  \/ DGoto("lockWorker", "store") /\ Lock(escolhida)
  \/ Store

-------------------------------------------------------------------------------
(* trabalhar() of worker w *)

Offer(w) ==
  /\ wpc[w] = "push" /\ wpc' = [wpc EXCEPT ![w] = "lockOwn"]
  /\ filaThreads' = Append(filaThreads, w)
  /\ dpc' = Signal(dpc, "sleepThread", "lockThreads")
  /\ Unlock(mutexFilaThreads)
  /\ UNCHANGED <<opc, call, queue, quantThreads, slots, locals, work>>

\* Lines 112-123: wait, exit, or leave the section to call the function.
Check(w) ==
  /\ \/ /\ WGoto(w, "check", "waitContinuar")
        /\ funcaoTrabalhar[w] = NULL /\ ~flagExitTrabalhar
        /\ UNCHANGED locked
     \/ /\ WGoto(w, "check", "exited")
        /\ funcaoTrabalhar[w] = NULL /\ flagExitTrabalhar
        /\ Unlock(w)
     \/ /\ WGoto(w, "check", "call")
        /\ funcaoTrabalhar[w] # NULL
        /\ Unlock(w)
  /\ UNCHANGED data

\* Lines 131-134 read and clear the slot without the worker's mutex.
Begin(w) ==
  /\ WGoto(w, "call", "running")
  /\ running' = [running EXCEPT ![w] = funcaoTrabalhar[w]]
  /\ UNCHANGED <<locked, queue, threads, slots, locals, finished>>

Finish(w) ==
  /\ WGoto(w, "running", "clear")
  /\ finished' = finished \cup {running[w]}
  /\ running' = [running EXCEPT ![w] = NULL]
  /\ UNCHANGED <<locked, queue, threads, slots, locals>>

ClearForgotten(w) ==                                      \* mutant
  WGoto(w, "clear", "lockFila") /\ UNCHANGED <<locked, data>>

Clear(w) ==
  /\ WGoto(w, "clear", "lockFila")
  /\ funcaoTrabalhar' = [funcaoTrabalhar EXCEPT ![w] = NULL]
  /\ UNCHANGED <<locked, queue, threads, flagExitTrabalhar, locals, work>>

Trabalhar(w) ==
  \/ WGoto(w, "lockFila", "push") /\ Lock(mutexFilaThreads)
  \/ Offer(w)
  \/ WGoto(w, "lockOwn", "check") /\ Lock(w)
  \/ Check(w)
  \/ WGoto(w, "waitContinuar", "sleepContinuar") /\ CondWait(w)
  \/ Begin(w) \/ Finish(w) \/ Clear(w)

-------------------------------------------------------------------------------
(* wait() and the destructor, each called once by the owner *)

CallWait == OGoto("idle", "lockClose") /\ UNCHANGED <<locked, data>>

Close ==
  /\ opc = "close" /\ opc' = "joinD"
  /\ flagExitDispatcher' = TRUE /\ prior' = Range(agenda)
  /\ dpc' = Signal(dpc, "sleepFuncao", "lockFuncoes")
  /\ Unlock(mutexFilaFuncoes)
  /\ UNCHANGED <<wpc, call, filaFuncoes, agenda, threads, slots, locals, work>>

JoinDispatcher ==
  OGoto("joinD", "lockT") /\ dpc = "exited" /\ UNCHANGED <<locked, data>>

MoreWorkers == i + 1 < quantThreadsMax

\* The next iteration of the loop over threadsT, or the return from wait().
NextWorker(from) ==
  /\ OGoto(from, IF MoreWorkers THEN "lockT" ELSE "returned")
  /\ i' = i + 1
  /\ UNCHANGED <<locked, queue, threads, slots, funcao, escolhida, work>>

SignalForgotten == OGoto("signalT", "joinT") /\ Unlock(i) /\ UNCHANGED data  \* mutant

SignalWorker ==
  /\ opc = "signalT" /\ opc' = "joinT"
  /\ wpc' = [wpc EXCEPT ![i] = Signal(@, "sleepContinuar", "lockOwn")]
  /\ Unlock(i)
  /\ UNCHANGED <<dpc, call, data>>

JoinWorker == opc = "joinT" /\ wpc[i] = "exited" /\ NextWorker("joinT")

\* threadsT[i] was never initialised: its mutex and td hold what new[] left
\* there. The owner crashes or blocks for ever, or the calls fail and return.
Uninitialised ==
  /\ i >= quantThreads
  /\ NextWorker("lockT") \/ (OGoto("lockT", "undefined") /\ UNCHANGED <<locked, data>>)

\* The pool is deleted when no call of schedule() is in progress.
Destroy ==
  /\ OGoto("returned", "destroyed") /\ UNCHANGED <<locked, data>>
  /\ \A f \in Tasks : call[f] \in {"idle", "returned"}

Wait ==
  \/ OGoto("lockClose", "close") /\ Lock(mutexFilaFuncoes)
  \/ Close \/ JoinDispatcher
  \/ i < quantThreads /\ OGoto("lockT", "signalT") /\ Lock(i)
  \/ SignalWorker
  \/ JoinWorker
  \/ Uninitialised

-------------------------------------------------------------------------------
SpuriousWakeup ==
  /\ \/ DGoto("sleepFuncao", "lockFuncoes") \/ DGoto("sleepThread", "lockThreads")
     \/ \E w \in Workers : WGoto(w, "sleepContinuar", "lockOwn")
  /\ UNCHANGED <<locked, data>>

Terminated == opc \in {"destroyed", "undefined"} /\ UNCHANGED vars

Next ==
  \/ \E f \in Tasks : Call(f) \/ Schedule(f)
  \/ Dispatcher
  \/ \E w \in Workers : Trabalhar(w)
  \/ CallWait \/ Wait \/ Destroy
  \/ SpuriousWakeup \/ Terminated

Spec == Init /\ [][Next]_vars

\* A thread that can run does: a call of schedule() once begun, the dispatcher,
\* the workers (no function runs for ever) and wait() once called. Condition
\* variables wake up spuriously only finitely often.
Fairness ==
  /\ \A f \in Tasks : WF_vars(Schedule(f))
  /\ WF_vars(Dispatcher) /\ WF_vars(Wait)
  /\ \A w \in Workers : WF_vars(Trabalhar(w))
  /\ <>[][~SpuriousWakeup]_vars

FairSpec == Spec /\ Fairness

-------------------------------------------------------------------------------
(* Properties *)

Slotted(f)  == {w \in Workers : funcaoTrabalhar[w] = f /\ wpc[w] # "clear"}
Holds(t, m) ==
  \/ /\ t = dispatcher
     /\ \/ m = mutexFilaFuncoes /\ dpc \in {"fetch", "waitFuncao"}
        \/ m = mutexFilaThreads /\ dpc \in {"choose", "waitThread"}
        \/ m = escolhida /\ dpc = "store"
  \/ /\ t = owner
     /\ \/ m = mutexFilaFuncoes /\ opc = "close"
        \/ m = i /\ opc = "signalT"
  \/ /\ t \in Workers
     /\ \/ m = mutexFilaThreads /\ wpc[t] = "push"
        \/ m = t /\ wpc[t] \in {"check", "waitContinuar"}
  \/ t \in Tasks /\ m = mutexFilaFuncoes /\ call[t] = "schedule"

\* A mutex is locked exactly while one thread is between its lock and its
\* unlock: no two threads are in sections of one mutex, and none is left locked.
LockDiscipline ==
  \A m \in Mutexes :
    /\ m \in locked <=> \E t \in Threads : Holds(t, m)
    /\ \A t, u \in Threads : Holds(t, m) /\ Holds(u, m) => t = u

\* The dispatcher never hands a function to a worker that still has one, and it
\* writes a slot only while the worker is at no point that reads or writes it,
\* although the worker calls and clears its slot without holding its mutex.
HandoffSafe ==
  /\ dpc \in {"lockWorker", "store"} =>
       /\ funcaoTrabalhar[escolhida] = NULL
       /\ escolhida \notin Range(filaThreads)
       /\ wpc[escolhida] \notin {"call", "running", "clear", "exited"}
  /\ dpc = "store" => wpc[escolhida] \in {"lockOwn", "sleepContinuar"}

\* No thread sleeps on a condition that holds: every change a sleeper waits for
\* comes with a signal, and flagExitTrabalhar, which is set without one, is
\* followed by the signal of wait() to every worker not yet signalled.
NoLostWakeup ==
  /\ dpc \in {"waitFuncao", "sleepFuncao"} =>
       filaFuncoes = <<>> /\ ~flagExitDispatcher
  /\ dpc \in {"waitThread", "sleepThread"} => filaThreads = <<>>
  /\ \A w \in Workers : wpc[w] \in {"waitContinuar", "sleepContinuar"} =>
       /\ funcaoTrabalhar[w] = NULL
       /\ flagExitTrabalhar =>
            \/ opc \in {"idle", "lockClose", "close", "joinD"}
            \/ opc \in {"lockT", "signalT"} /\ i <= w
            \/ opc = "joinT" /\ i < w

\* The queue is what remains of the agenda, and every function taken from it is
\* in exactly one place: the dispatcher's hands, one worker, or finished. When
\* the workers are told to exit, every function pushed before the pool was closed
\* has reached one: the claim of the comment at line 126 that wait() needs.
NothingLost ==
  LET taken == SubSeq(agenda, 1, Len(agenda) - Len(filaFuncoes)) IN
  /\ agenda = taken \o filaFuncoes
  /\ funcao # NULL => taken # <<>> /\ funcao = taken[Len(taken)]
  /\ \A f \in Range(taken) :
       \/ f \in finished /\ f # funcao /\ Slotted(f) = {}
       \/ f \notin finished /\ f = funcao /\ Slotted(f) = {}
       \/ /\ f \notin finished /\ f # funcao
          /\ \E w \in Workers : Slotted(f) = {w}
  /\ flagExitTrabalhar => \A f \in prior : f \in finished \/ Slotted(f) # {}

\* Spawning is all or nothing: mutexFilaThreads is held while the first function
\* waits for a worker, so the dispatcher never waits with fewer than all of them.
SpawnsAll ==
  quantThreads \notin {0, quantThreadsMax} => dpc = "choose"

\* When wait() has returned no thread of the pool is left that could touch it,
\* and the destructor may free the queues and threadsT.
DestroySafe ==
  opc \in {"returned", "destroyed"} =>
    /\ dpc = "exited"
    /\ \A w \in Workers : wpc[w] \in {"unborn", "exited"}

\* The pool implements TaskPool, so no function runs twice, at most
\* quantThreadsMax run, and wait() returns after all that was pushed before.
Executing == Range(running) \ {NULL}
Begun == finished \cup Executing
Without(s, B) ==
  LET rest[k \in 0 .. Len(s)] ==
        IF k = 0 THEN <<>>
        ELSE IF s[k] \in B THEN rest[k - 1] ELSE Append(rest[k - 1], s[k])
  IN rest[Len(s)]
Pending == Without(agenda, Begun)
WaitState == IF opc \in {"idle", "lockClose", "close"} THEN "open"
             ELSE IF opc \in {"returned", "destroyed"} THEN "returned"
             ELSE "closed"
Pool == INSTANCE TaskPool WITH
          numThreads <- quantThreadsMax, pending <- Pending,
          running <- Executing, state <- WaitState
ImplementsTaskPool == Pool!Spec

\* A function pushed before wait() closes the pool is executed, whether or not
\* wait() is called. Nothing distinguishes two functions: it is said of one.
Executed(f) == (f \in Range(agenda) /\ ~flagExitDispatcher) ~> f \in finished
PushedIsExecuted == Executed(CHOOSE f \in Tasks : TRUE)

\* wait() returns if some function was pushed before it closed the pool.
WaitReturns == (opc = "joinD" /\ prior # {}) ~> opc = "returned"
===============================================================================
