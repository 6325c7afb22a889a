------------------------------- MODULE TshProofs -------------------------------
(***************************************************************************)
(* Theorems about Tsh for any size of the job table and any number of      *)
(* children: whatever handleSIGCHLD does between two steps of the main     *)
(* program, the table keeps one job for each child that was not waited     *)
(* for, the foreground job is the one that waitfg waits for, the terminal  *)
(* comes back, and no two jobs have the same number.                       *)
(*                                                                         *)
(* TableInv says what the main program may still rely on after a handler   *)
(* ran: above all, in Working and Tested, what becomes of the job in temp  *)
(* and of the status that was tested. TtyGiven stands by itself, Numbered  *)
(* on TableInv.                                                            *)
(***************************************************************************)
EXTENDS Tsh, FiniteSetTheorems, WellFoundedInduction, TLAPS

\* Every set of numbers has a least element.
Less == {ss \in Nat \X Nat : ss[1] < ss[2]}

LEMMA LeastExists ==
  ASSUME NEW T, T \subseteq Nat, T # {}
  PROVE  \E x \in T : \A y \in T : x <= y
<1>1. IsWellFoundedOn(Less, Nat)
  <2>1. Less = OpToRel(<, Nat)
    BY DEF Less, OpToRel
  <2>2. QED  BY <2>1, NatLessThanWellFounded
<1>2. PICK x \in T : \A y \in T : <<y, x>> \notin Less
  BY <1>1, WFMin
<1>3. ASSUME NEW y \in T PROVE x <= y
  <2>1. x \in Nat /\ y \in Nat /\ (y < x => <<y, x>> \in Less)
    BY DEF Less
  <2>2. QED  BY <2>1, <1>2
<1>4. QED  BY <1>3
-------------------------------------------------------------------------------

(* Least and greatest numbers *)

LEMMA MinIsLeast ==
  ASSUME NEW T, T \subseteq Nat, T # {}
  PROVE  Min(T) \in T /\ \A y \in T : Min(T) <= y
BY LeastExists DEF Min

\* Finitely many numbers have an upper bound, the least of which is among them.
LEMMA MaxIsGreatest ==
  ASSUME NEW n \in Nat \ {0}, NEW f, \A k \in 0 .. n - 1 : f[k] \in Nat
  PROVE  LET T == {f[k] : k \in 0 .. n - 1}
         IN  Max(T) \in T /\ \A y \in T : Max(T) >= y
<1> DEFINE T == {f[k] : k \in 0 .. n - 1}
           Unbounded == {k \in 0 .. n - 1 : ~ \E b \in Nat : \A j \in 0 .. k : f[j] <= b}
<1>1. Unbounded = {}
  <2> SUFFICES ASSUME Unbounded # {} PROVE FALSE
    OBVIOUS
  <2>1. PICK m \in Unbounded : \A k \in Unbounded : m <= k
    <3>1. Unbounded \subseteq Nat
      OBVIOUS
    <3>2. QED  BY <3>1, LeastExists
  <2>2. \E b \in Nat : \A j \in 0 .. m - 1 : f[j] <= b
    <3>1. CASE m = 0
      <4>1. \A j \in 0 .. m - 1 : f[j] <= 0
        BY <3>1
      <4>2. QED  BY <4>1
    <3>2. CASE m # 0
      <4>1. m - 1 \in 0 .. n - 1 /\ ~ (m <= m - 1)
        BY <3>2
      <4>2. m - 1 \notin Unbounded
        BY <4>1, <2>1
      <4>3. QED  BY <4>1, <4>2
    <3>3. QED  BY <3>1, <3>2
  <2>3. PICK b \in Nat : \A j \in 0 .. m - 1 : f[j] <= b
    BY <2>2
  <2>4. \A j \in 0 .. m : f[j] <= b + f[m]
    <3> SUFFICES ASSUME NEW j \in 0 .. m PROVE f[j] <= b + f[m]
      OBVIOUS
    <3>1. f[j] \in Nat /\ f[m] \in Nat
      OBVIOUS
    <3>2. CASE j = m  BY <3>1, <3>2
    <3>3. CASE j \in 0 .. m - 1  BY <3>1, <3>3, <2>3
    <3>4. QED  BY <3>2, <3>3
  <2>5. b + f[m] \in Nat
    OBVIOUS
  <2>6. QED  BY <2>4, <2>5
<1> DEFINE Bounds == {b \in Nat : \A k \in 0 .. n - 1 : f[k] <= b}
<1>2. Bounds # {}
  <2>1. n - 1 \in 0 .. n - 1 /\ n - 1 \notin Unbounded
    BY <1>1
  <2>2. QED  BY <2>1
<1>3. PICK b \in Bounds : \A c \in Bounds : b <= c
  BY <1>2, LeastExists
<1>4. \E k \in 0 .. n - 1 : f[k] = b
  <2> SUFFICES ASSUME \A k \in 0 .. n - 1 : f[k] # b PROVE FALSE
    OBVIOUS
  <2>1. \A k \in 0 .. n - 1 : f[k] <= b - 1
    OBVIOUS
  <2>2. b - 1 \in Nat
    BY <2>1
  <2>3. QED  BY <2>1, <2>2, <1>3
<1>5. b \in T /\ \A y \in T : b >= y
  BY <1>3, <1>4
<1>6. QED  BY <1>5 DEF Max
-------------------------------------------------------------------------------
(* The operations of tsh-jobs.c *)

Typed == /\ TypeOK
         /\ pc \in {"update", "restop", "giveTty", "cont", "waitpid", "takeTty", "decide",
                   "bgCont", "bgState"} => temp \in Slots

\* getjobpid finds the job of a child if there is one.
LEMMA Lookup ==
  ASSUME jobs \in [Slots -> Job], NEW p \in 0 .. MaxForks
  PROVE  \/ getjobpid(p) = NULL /\ \A s \in Slots : p = 0 \/ jobs[s].pid # p
         \/ getjobpid(p) \in Slots /\ getjobpid(p) # NULL /\ p # 0 /\ jobs[getjobpid(p)].pid = p
<1>1. CASE SlotsOf(p) = {}
  <2>1. p = 0 \/ p > 0
    BY TshAssumption
  <2>2. QED  BY <1>1, <2>1 DEF getjobpid, SlotsOf
<1>2. CASE SlotsOf(p) # {}
  <2>1. SlotsOf(p) \subseteq Nat
    BY DEF SlotsOf, Slots
  <2>2. Min(SlotsOf(p)) \in SlotsOf(p)
    BY <1>2, <2>1, MinIsLeast
  <2>3. getjobpid(p) \in SlotsOf(p)
    BY <1>2, <2>2 DEF getjobpid
  <2>4. QED  BY <2>3, TshAssumption DEF SlotsOf, Slots
<1>3. QED  BY <1>1, <1>2

LEMMA FreeSlot ==
  ASSUME Free # {}
  PROVE  Min(Free) \in Slots /\ Min(Free) # NULL /\ jobs[Min(Free)].pid = 0
<1>1. Free \subseteq Nat
  BY DEF Free, Slots
<1>2. Min(Free) \in Free
  BY <1>1, MinIsLeast
<1>3. QED  BY <1>2, TshAssumption DEF Free, Slots

\* maxjid is the highest number in the table.
LEMMA HighestJID ==
  ASSUME NEW js \in [Slots -> Job]
  PROVE  /\ maxjid(js) \in Nat /\ \A s \in Slots : js[s].jid <= maxjid(js)
         /\ \E s \in Slots : maxjid(js) = js[s].jid
<1> DEFINE f == [s \in Slots |-> js[s].jid]
<1>1. \A k \in 0 .. kMaxJobs - 1 : f[k] \in Nat
  BY DEF Slots, Job
<1>2. {js[s].jid : s \in Slots} = {f[k] : k \in 0 .. kMaxJobs - 1}
  BY DEF Slots
<1> HIDE DEF f
<1>3. /\ maxjid(js) \in {f[k] : k \in 0 .. kMaxJobs - 1}
      /\ \A y \in {f[k] : k \in 0 .. kMaxJobs - 1} : maxjid(js) >= y
  BY <1>1, <1>2, MaxIsGreatest, TshAssumption DEF maxjid
<1>4. \A s \in Slots : f[s] = js[s].jid /\ f[s] \in Nat /\ s \in 0 .. kMaxJobs - 1
  BY <1>1 DEF f, Slots
<1>5. QED  BY <1>3, <1>4 DEF Slots

LEMMA Foreground ==
  ASSUME jobs \in [Slots -> Job]
  PROVE  fgpid \in 0 .. MaxForks
<1> DEFINE fg == {s \in Slots : jobs[s].state = "kForeground"}
<1>1. CASE fg = {}
  BY <1>1, TshAssumption DEF fgpid
<1>2. CASE fg # {}
  <2>1. fg \subseteq Nat
    BY DEF Slots
  <2>2. Min(fg) \in fg
    BY <1>2, <2>1, MinIsLeast
  <2>3. fgpid = jobs[Min(fg)].pid
    BY <1>2 DEF fgpid
  <2>4. QED  BY <2>2, <2>3 DEF Job
<1>3. QED  BY <1>1, <1>2

LEMMA LoopType ==
  ASSUME i \in 0 .. kMaxJobs, Loop
  PROVE  i' \in 0 .. kMaxJobs /\ pc' = "report"
<1>1. (i + 1) % (kMaxJobs + 1) \in 0 .. kMaxJobs
  BY TshAssumption
<1>2. QED  BY <1>1 DEF Loop
-------------------------------------------------------------------------------
LEMMA InitTyped == Init => Typed
<1> SUFFICES ASSUME Init PROVE Typed
  OBVIOUS
<1>1. NoJob \in Job
  BY TshAssumption DEF NoJob, Job, State, Status
<1>2. jobs \in [Slots -> Job] /\ proc \in [Pids -> Proc]
  BY <1>1 DEF Init, Proc
<1>3. i \in 0 .. kMaxJobs /\ pid \in 0 .. MaxForks /\ tty \in 0 .. MaxForks
  BY TshAssumption DEF Init, shell
<1>4. pc \in PC /\ nextJobID \in Nat \ {0} /\ max \in Nat
  BY DEF Init, PC
<1>5. handler \in BOOLEAN /\ pending \in BOOLEAN /\ blocked \in BOOLEAN /\ backgroundJob \in BOOLEAN
  BY DEF Init
<1>6. temp = NULL /\ pc = "report"
  BY DEF Init
<1>7. QED  BY <1>2, <1>3, <1>4, <1>5, <1>6 DEF Typed, TypeOK

LEMMA NextTyped == Typed /\ [Next]_vars => Typed'
<1> SUFFICES ASSUME Typed, [Next]_vars PROVE Typed'
  OBVIOUS
<1> USE TshAssumption DEF Typed, TypeOK
<1>1. CASE Terminated \/ UNCHANGED vars
  BY <1>1 DEF Terminated, vars, table, locals, signals, children
<1>2. CASE Report
  BY <1>2, LoopType DEF Report, PC, table, signals, children, Slots
<1>3. CASE Update
  BY <1>3 DEF Update, Decide, PC, Job, signals, children
<1>4. CASE Delete
  <2>1. NoJob \in Job
    BY DEF NoJob, Job, State, Status
  <2>2. CASE getjobpid(pid) # NULL
    <3>1. jobs' = clearjob(getjobpid(pid)) /\ max' = maxjid(jobs') /\ pc' = "nextID" /\ UNCHANGED i
      BY <1>4, <2>2 DEF Delete
    <3>2. jobs' \in [Slots -> Job]
      BY <2>1, <3>1 DEF clearjob
    <3>3. max' \in Nat
      BY <3>1, <3>2, HighestJID
    <3>4. QED  BY <1>4, <3>1, <3>2, <3>3 DEF Delete, PC, signals, children
  <2>3. CASE getjobpid(pid) = NULL
    BY <1>4, <2>3, LoopType DEF Delete, PC, signals, children
  <2>4. QED  BY <2>2, <2>3
<1>5. CASE AssignNextID
  BY <1>5, LoopType DEF AssignNextID, NextID, PC, signals, children
<1>6. CASE Restop
  BY <1>6, LoopType DEF Restop, StateStopped, PC, Job, State, Status, signals, children
<1>7. CASE Read
  BY <1>7, LoopType DEF Read, ReadLoop, ReadQuit, ReadCommand, Suspended, ReadBg, ReadFg, PC, Job,
                        table, signals, children
<1>8. CASE Block
  BY <1>8 DEF Block, BlockSIGCHLD, Goto, PC, table, locals, children
<1>9. CASE Fork
  <2>1. CASE Loop /\ UNCHANGED <<pid, proc>>
    BY <1>9, <2>1, LoopType DEF Fork, PC, table, signals
  <2>2. CASE ~(Loop /\ UNCHANGED <<pid, proc>>)
    <3> DEFINE new == {p \in Pids : proc[p] = "none"}
    <3>1. new # {} /\ pid' = Min(new) /\ proc' = [proc EXCEPT ![Min(new)] = "running"]
          /\ pc' = "addjob" /\ UNCHANGED i
      BY <1>9, <2>2 DEF Fork
    <3>2. new \subseteq Nat
      BY DEF Pids
    <3>3. Min(new) \in Pids
      BY <3>1, <3>2, MinIsLeast
    <3>4. QED  BY <1>9, <3>1, <3>3 DEF Fork, PC, Pids, Proc, table, signals
  <2>3. QED  BY <2>1, <2>2
<1>10. CASE Addjob
  <2>1. CASE Free = {}
    BY <1>10, <2>1 DEF Addjob, addjob, Goto, PC, table, signals, children
  <2>2. CASE Free # {}
    BY <1>10, <2>2, FreeSlot DEF Addjob, addjob, Goto, PC, Job, State, signals, children
  <2>3. QED  BY <2>1, <2>2
<1>11. CASE Unblock
  BY <1>11 DEF Unblock, Goto, PC, table, locals, children
<1>12. CASE Listjobs
  BY <1>12, LoopType DEF Listjobs, PC, table, signals, children
<1>13. CASE Getjob
  BY <1>13, Lookup DEF Getjob, Goto, PC, table, signals, children
<1>14. CASE SetFg
  BY <1>14 DEF SetFg, Goto, PC, Job, State, locals, signals, children
<1>15. CASE GiveTty
  BY <1>15 DEF GiveTty, Goto, PC, table, locals, signals
<1>16. CASE Cont
  BY <1>16 DEF Cont, Goto, Continue, Becomes, PC, Proc, table, locals
<1>17. CASE Waitpid
  <2>1. StatusOf(pid) \in Status
    BY DEF StatusOf, Status
  <2>2. CASE UNCHANGED <<jobs, proc>>
    BY <1>17, <2>2, LoopType DEF Waitpid, PC, signals
  <2>3. CASE Waited(pid) /\ jobs' = [jobs EXCEPT ![temp].status = StatusOf(pid)]
    <3>1. proc' \in [Pids -> Proc]
      BY <2>3 DEF Waited, Proc
    <3>2. jobs' \in [Slots -> Job]
      BY <2>1, <2>3 DEF Job
    <3>3. QED  BY <1>17, <3>1, <3>2, LoopType DEF Waitpid, PC, signals
  <2>4. QED  BY <1>17, <2>2, <2>3 DEF Waitpid
<1>18. CASE TakeTty
  BY <1>18 DEF TakeTty, Tcsetpgrp, shell, Goto, PC, table, locals, signals
<1>19. CASE DecideFg
  BY <1>19 DEF DecideFg, Decide, StateStopped, PC, Job, State, signals, children
<1>20. CASE BgCont
  BY <1>20 DEF BgCont, Goto, Continue, Becomes, PC, Proc, table, locals
<1>21. CASE BgState
  BY <1>21, LoopType DEF BgState, PC, Job, State, signals, children
<1>22. CASE Deliver
  BY <1>22 DEF Deliver, table, locals, children
<1>23. CASE HandleSIGCHLD
  <2>1. CASE ReapNone
    BY <2>1 DEF ReapNone, table, locals, children
  <2>2. ASSUME NEW p \in Pids, Reap(p) PROVE Typed'
    <3>1. proc' \in [Pids -> Proc] /\ p \in 0 .. MaxForks
      BY <2>2 DEF Reap, Waited, Proc, Pids
    <3>2. NoJob \in Job /\ StatusOf(p) \in Status
      BY DEF NoJob, Job, State, Status, StatusOf
    <3>3. getjobpid(p) = NULL \/ getjobpid(p) \in Slots
      BY <3>1, Lookup
    <3>4. jobs' \in [Slots -> Job] /\ nextJobID' \in Nat \ {0}
      <4>1. CASE UNCHANGED table
        BY <4>1 DEF table
      <4>2. CASE jobs' = clearjob(getjobpid(p)) /\ nextJobID' = maxjid(jobs') + 1
        <5>1. jobs' \in [Slots -> Job]
          BY <3>2, <4>2 DEF clearjob
        <5>2. QED  BY <4>2, <5>1, HighestJID
      <4>3. CASE /\ UNCHANGED nextJobID
                 /\ jobs' = [jobs EXCEPT ![getjobpid(p)].status = StatusOf(p),
                                ![getjobpid(p)].state =
                                  IF Ended(StatusOf(p)) THEN "kTerminado" ELSE "kStopped"]
        BY <3>2, <4>3 DEF Job, State
      <4>4. QED  BY <2>2, <4>1, <4>2, <4>3 DEF Reap
    <3>5. QED  BY <2>2, <3>1, <3>4 DEF Reap, PC, locals
  <2>3. QED  BY <1>23, <2>1, <2>2 DEF HandleSIGCHLD
<1>24. CASE Forward
  BY <1>24 DEF Forward, ChildStops, Becomes, Proc, Zombies, table, locals
<1>25. ASSUME NEW p \in Pids, Child(p) PROVE Typed'
  BY <1>25 DEF Child, ChildStops, ChildEnds, ChildContinues, Becomes, Proc, Zombies, table, locals
<1>26. QED
  BY <1>1, <1>2, <1>3, <1>4, <1>5, <1>6, <1>7, <1>8, <1>9, <1>10, <1>11, <1>12, <1>13, <1>14,
     <1>15, <1>16, <1>17, <1>18, <1>19, <1>20, <1>21, <1>22, <1>23, <1>24, <1>25
     DEF Next, Main, Waitfg
-------------------------------------------------------------------------------
(* The invariant of the table, in parts *)

\* A handler does not run while eval has SIGCHLD blocked, nor when all is over.
Masked ==
  /\ blocked => ~handler
  /\ handler => Running
  /\ pc \in {"fork", "addjob", "unblock"} => blocked

\* Every job is that of one child, which has been forked.
OneEach ==
  /\ \A s, t \in Slots : jobs[s].pid # 0 /\ jobs[s].pid = jobs[t].pid => s = t
  /\ \A s \in Slots : jobs[s].pid # 0 => proc[jobs[s].pid] # "none"
  /\ pc = "addjob" => proc[pid] # "none" /\ \A s \in Slots : jobs[s].pid # pid

\* What the status of a job tells: a free slot tells nothing.
News ==
  \A s \in Slots : /\ jobs[s].pid = 0 => jobs[s].status = "zero"
                   /\ jobs[s].pid # 0 /\ jobs[s].status = "ended"
                        => proc[jobs[s].pid] = "reaped"

\* eval and waitfg work for a child, and temp is its job, as long as it has one.
AtWork == {"giveTty", "cont", "waitpid", "takeTty", "decide"}
Working ==
  /\ pc \in {"addjob", "unblock", "listjobs", "getjob", "setFg"} \cup AtWork => pid \in Pids
  /\ pc \in AtWork \/ (pc = "setFg" /\ temp # NULL) =>
       jobs[temp].pid = pid \/ (jobs[temp].pid = 0 /\ proc[pid] = "reaped")

\* What was tested before a handler ran still holds where it is used: a job is
\* deleted only if its child was waited for.
Tested ==
  /\ pc = "update" /\ jobs[temp].pid # 0 => jobs[temp].status # "zero"
  /\ pc \in {"takeTty", "decide"} /\ jobs[temp].pid # 0 /\ jobs[temp].status = "zero"
       => proc[pid] = "reaped"
  /\ pc = "delete" => /\ temp \in Slots /\ jobs[temp].pid \in {0, pid}
                      /\ pid # 0 => proc[pid] = "reaped"

Tabled ==
  Running => \A p \in Children : (\E s \in Slots : jobs[s].pid = p) \/ NotAdded(p)

TableInv == Masked /\ OneEach /\ News /\ Working /\ Tested /\ Tabled /\ ForegroundIsWaitedFor

LEMMA InitTable == Init => TableInv
BY DEF Init, TableInv, Masked, OneEach, News, Working, AtWork, Tested, Tabled, Children, NoJob,
       ForegroundIsWaitedFor, Running

LEMMA NextTable == Typed /\ TableInv /\ [Next]_vars => TableInv'
<1> SUFFICES ASSUME Typed, TableInv, [Next]_vars PROVE TableInv'
  OBVIOUS
<1>types. /\ jobs \in [Slots -> Job] /\ proc \in [Pids -> Proc] /\ pid \in 0 .. MaxForks
          /\ temp \in Slots \cup {NULL} /\ NULL \notin Slots /\ 0 \notin Pids
          /\ \A s \in Slots : jobs[s].pid \in 0 .. MaxForks /\ (jobs[s].pid # 0 => jobs[s].pid \in Pids)
          /\ \A s \in Slots : jobs[s].status \in Status
          /\ pc \in {"update", "restop", "giveTty", "cont", "waitpid", "takeTty", "decide",
                       "bgCont", "bgState"} => temp \in Slots
  BY TshAssumption DEF Typed, TypeOK, Slots, Job, Pids
<1>dom. DOMAIN jobs = Slots /\ DOMAIN proc = Pids
  BY <1>types
<1> USE <1>types, <1>dom DEF TableInv, Masked, OneEach, News, Working, AtWork, Tested, Tabled,
           NotAdded, Children, ForegroundIsWaitedFor, InWaitfg, Running
\* A step of a child that neither appears nor disappears.
<1>child. ASSUME UNCHANGED <<jobs, pc, pid, temp, handler, blocked>>,
             NEW p \in Pids, proc[p] \notin {"none", "reaped"},
             NEW x \in {"stopping", "running", "exit0", "killed"}, proc' = [proc EXCEPT ![p] = x]
      PROVE  TableInv'
  <2>1. \A q \in Pids : /\ proc'[q] = "none" <=> proc[q] = "none"
                        /\ proc'[q] = "reaped" <=> proc[q] = "reaped"
    BY <1>child
  <2>2. (Masked /\ OneEach /\ News)'
    BY <2>1, <1>child
  <2>3. (Working /\ Tested)'
    BY <2>1, <1>child
  <2>4. Tabled'
    BY <2>1, <1>child
  <2>5. ForegroundIsWaitedFor'
    BY <2>1, <1>child
  <2>6. QED  BY <2>2, <2>3, <2>4, <2>5
<1>1. CASE Terminated \/ UNCHANGED vars
  BY <1>1 DEF Terminated, vars, table, locals, signals, children
<1>2. CASE Report
  BY <1>2 DEF Report, Loop, table, signals, children
<1>3. CASE Update
  <2>1. /\ pc = "update" /\ UNCHANGED <<jobs, proc, temp, handler, blocked>> /\ temp \in Slots
        /\ IF Ended(jobs[temp].status) THEN pc' = "delete" /\ pid' = jobs[temp].pid
           ELSE pc' = "restop" /\ UNCHANGED pid
    BY <1>3 DEF Update, Decide, signals, children
  <2>2. Ended(jobs[temp].status) /\ jobs[temp].pid # 0 => proc[jobs[temp].pid] = "reaped"
    BY <2>1 DEF Ended, Status
  <2>3. (Masked /\ OneEach /\ News /\ Tabled /\ ForegroundIsWaitedFor)'
    BY <2>1
  <2>4. (Working /\ Tested)'
    BY <2>1, <2>2
  <2>5. QED  BY <2>3, <2>4
<1>4. CASE Delete
  BY <1>4, Lookup DEF Delete, Loop, clearjob, NoJob, signals, children
<1>5. CASE AssignNextID
  BY <1>5 DEF AssignNextID, Loop, signals, children
<1>6. CASE Restop
  BY <1>6 DEF Restop, Loop, StateStopped, signals, children
<1>7. CASE Read
  <2>1. CASE ReadLoop \/ ReadQuit \/ ReadCommand \/ Suspended
    BY <1>7, <2>1 DEF Read, Turn, Loop, ReadLoop, ReadQuit, ReadCommand, Suspended,
                      table, signals, children
  <2>2. ASSUME NEW s \in Slots, ReadBg(s) PROVE TableInv'
    BY <1>7, <2>2 DEF Read, Turn, ReadBg, table, signals, children
  <2>3. ASSUME NEW s \in Slots, ReadFg(s) PROVE TableInv'
    BY <1>7, <2>3 DEF Read, Turn, ReadFg, table, signals, children
  <2>4. QED  BY <1>7, <2>1, <2>2, <2>3 DEF Read
<1>8. CASE Block
  BY <1>8 DEF Block, Turn, BlockSIGCHLD, Goto, table, locals, children
<1>9. CASE Fork
  <2>1. CASE Loop /\ UNCHANGED <<pid, proc>>
    BY <1>9, <2>1 DEF Fork, Turn, Loop, table, signals
  <2>2. CASE ~(Loop /\ UNCHANGED <<pid, proc>>)
    <3> DEFINE new == {p \in Pids : proc[p] = "none"}
    <3>1. /\ new # {} /\ pid' = Min(new) /\ proc' = [proc EXCEPT ![Min(new)] = "running"]
          /\ pc = "fork" /\ pc' = "addjob" /\ UNCHANGED <<jobs, temp, handler, blocked>>
      BY <1>9, <2>2 DEF Fork, table, signals
    <3>2. new \subseteq Nat
      BY DEF Pids
    <3>3. Min(new) \in Pids /\ proc[Min(new)] = "none"
      BY <3>1, <3>2, MinIsLeast
    <3>4. PICK p \in Pids : proc[p] = "none" /\ pid' = p /\ proc' = [proc EXCEPT ![p] = "running"]
      BY <3>1, <3>3
    <3> HIDE DEF new
    <3>5. \A s \in Slots : jobs[s].pid # p
      BY <3>4
    <3>6. \A q \in Pids : q # p => proc'[q] = proc[q]
      BY <3>4
    <3>7. (Masked /\ OneEach /\ News)'
      BY <3>1, <3>4, <3>5, <3>6
    <3>8. (Working /\ Tested)'
      BY <3>1, <3>4, <3>5, <3>6
    <3>9. Tabled'
      BY <3>1, <3>4, <3>5, <3>6
    <3>10. ForegroundIsWaitedFor'
      BY <3>1, <3>4, <3>5, <3>6
    <3>11. QED  BY <3>7, <3>8, <3>9, <3>10
  <2>3. QED  BY <2>1, <2>2
<1>10. CASE Addjob
  BY <1>10, FreeSlot DEF Addjob, addjob, Goto, Turn, table, signals, children
<1>11. CASE Unblock
  BY <1>11 DEF Unblock, Goto, table, locals, children
<1>12. CASE Listjobs
  BY <1>12 DEF Listjobs, Turn, Loop, table, signals, children
<1>13. CASE Getjob
  BY <1>13, Lookup DEF Getjob, Goto, table, signals, children
<1>14. CASE SetFg
  BY <1>14 DEF SetFg, Turn, Goto, locals, signals, children
<1>15. CASE GiveTty
  BY <1>15 DEF GiveTty, Goto, table, locals, signals
<1>16. CASE Cont
  BY <1>16 DEF Cont, Goto, Continue, Becomes, Stopped, table, locals
<1>17. CASE Waitpid
  <2>1. CASE UNCHANGED <<jobs, proc>> /\ WaitFails(pid) /\ Loop
    BY <1>17, <2>1 DEF Waitpid, WaitFails, Loop, signals
  <2>2. CASE /\ pc' = "takeTty" /\ Waitable(pid) /\ Waited(pid)
             /\ jobs' = [jobs EXCEPT ![temp].status = StatusOf(pid)]
    <3>0. pc = "waitpid" /\ UNCHANGED <<pid, temp, handler, blocked>>
      BY <1>17 DEF Waitpid, signals
    <3>1. pc = "waitpid" /\ UNCHANGED <<pid, temp, handler, blocked>> /\ temp \in Slots /\ pid \in Pids
      BY <3>0
    <3>2. proc[pid] \in {"exit0", "killed", "stopping"}
      BY <2>2 DEF Waitable, Zombies
    <3>3. jobs[temp].pid = pid
      BY <3>1, <3>2
    <3>4. /\ proc'[pid] = IF proc[pid] = "stopping" THEN "stopped" ELSE "reaped"
          /\ \A q \in Pids : q # pid => proc'[q] = proc[q]
      BY <2>2, <3>1 DEF Waited
    <3>5. /\ \A s \in Slots : /\ jobs'[s].pid = jobs[s].pid /\ jobs'[s].state = jobs[s].state
                              /\ s # temp => jobs'[s] = jobs[s]
          /\ jobs'[temp].status = StatusOf(pid)
      BY <2>2, <3>1 DEF Job
    <3>6. /\ StatusOf(pid) = "ended" => proc'[pid] = "reaped"
          /\ StatusOf(pid) = "zero" => proc'[pid] = "reaped"
      BY <3>2, <3>4 DEF StatusOf
    <3>7. (Masked /\ OneEach)'
      BY <2>2, <3>1, <3>2, <3>3, <3>4, <3>5
    <3>8. News'
      BY <2>2, <3>1, <3>2, <3>3, <3>4, <3>5, <3>6
    <3>9. (Working /\ Tested)'
      BY <2>2, <3>1, <3>2, <3>3, <3>4, <3>5, <3>6
    <3>10. Tabled'
      BY <2>2, <3>1, <3>2, <3>3, <3>4, <3>5
    <3>11. ForegroundIsWaitedFor'
      BY <2>2, <3>1, <3>2, <3>3, <3>4, <3>5
    <3>12. QED  BY <3>7, <3>8, <3>9, <3>10, <3>11
  <2>3. QED  BY <1>17, <2>1, <2>2 DEF Waitpid
<1>18. CASE TakeTty
  BY <1>18 DEF TakeTty, Tcsetpgrp, Goto, table, locals, signals
<1>19. CASE DecideFg
  <2>1. /\ pc = "decide" /\ UNCHANGED <<proc, temp, handler, blocked>> /\ temp \in Slots /\ pid' = pid
        /\ IF Ended(jobs[temp].status) THEN pc' = "delete" ELSE pc' = "restop"
        /\ jobs' = IF jobs[temp].status = "stopped"
                   THEN [jobs EXCEPT ![temp].state = StateStopped] ELSE jobs
    BY <1>19 DEF DecideFg, Decide, signals, children
  <2>2. \A s \in Slots : /\ jobs'[s].pid = jobs[s].pid /\ jobs'[s].status = jobs[s].status
                         /\ jobs'[s].state = "kForeground" => jobs[s].state = "kForeground"
    BY <2>1 DEF StateStopped, Job
  <2>3. pc' = "delete" => proc[pid] = "reaped"
    BY <2>1 DEF Ended, Status
  <2>4. (Masked /\ OneEach /\ News /\ Tabled)'
    BY <2>1, <2>2
  <2>5. (Working /\ Tested)'
    BY <2>1, <2>2, <2>3
  <2>6. ForegroundIsWaitedFor'
    BY <2>1, <2>2
  <2>7. QED  BY <2>4, <2>5, <2>6
<1>20. CASE BgCont
  BY <1>20 DEF BgCont, Goto, Continue, Becomes, Stopped, table, locals
<1>21. CASE BgState
  BY <1>21 DEF BgState, Loop, signals, children
<1>22. CASE Deliver
  BY <1>22 DEF Deliver, table, locals, children
<1>23. CASE HandleSIGCHLD
  <2>1. CASE ReapNone
    BY <2>1 DEF ReapNone, table, locals, children
  <2>2. ASSUME NEW p \in Pids, Reap(p) PROVE TableInv'
    <3> DEFINE s == getjobpid(p)
    <3>1. /\ handler /\ proc[p] \in {"exit0", "killed", "stopping"}
          /\ UNCHANGED <<pid, temp, blocked>>
      BY <2>2 DEF Reap, Waitable, Zombies, locals
    <3>2. /\ proc'[p] = IF proc[p] = "stopping" THEN "stopped" ELSE "reaped"
          /\ \A q \in Pids : q # p => proc'[q] = proc[q]
      BY <2>2 DEF Reap, Waited
    <3>3. \/ s = NULL /\ \A t \in Slots : jobs[t].pid # p
          \/ s \in Slots /\ s # NULL /\ jobs[s].pid = p
      BY <1>types, Lookup, TshAssumption DEF Pids
    <3> HIDE DEF s
    <3>4. CASE proc[p] = "exit0" /\ s # NULL
      <4>1. jobs' = [jobs EXCEPT ![s] = NoJob] /\ ~handler' /\ pc' = pc
        BY <2>2, <3>4 DEF Reap, clearjob, s
      <4>2. jobs'[s].pid = 0 /\ jobs'[s].status = "zero" /\ \A t \in Slots : t # s => jobs'[t] = jobs[t]
        BY <3>3, <3>4, <4>1 DEF NoJob
      <4>3. (Masked /\ OneEach)'
        BY <3>1, <3>2, <3>3, <3>4, <4>1, <4>2
      <4>4. News'
        BY <3>1, <3>2, <3>3, <3>4, <4>1, <4>2
      <4>5. (Working /\ Tested)'
        <5>1. pid # 0 => pid \in Pids
          BY <1>types, TshAssumption DEF Pids
        <5>2. \A q \in Pids : proc[q] = "reaped" => proc'[q] = "reaped"
          BY <3>1, <3>2
        <5>3. proc'[p] = "reaped"
          BY <3>2, <3>4
        <5>4. \A t \in Slots : jobs'[t] = jobs[t] \/ (t = s /\ jobs'[t].pid = 0)
          BY <4>2
        <5>5. Working'
          BY <3>1, <3>3, <3>4, <4>1, <5>2, <5>3, <5>4
        <5>6. Tested'
          BY <3>1, <3>3, <3>4, <4>1, <5>1, <5>2, <5>3, <5>4
        <5>7. QED  BY <5>5, <5>6
      <4>6. Tabled'
        BY <3>1, <3>2, <3>3, <3>4, <4>1, <4>2
      <4>7. ForegroundIsWaitedFor'
        BY <3>1, <3>2, <3>3, <3>4, <4>1, <4>2
      <4>8. QED  BY <4>3, <4>4, <4>5, <4>6, <4>7
    <3>5. CASE proc[p] = "exit0" /\ s = NULL
      <4>1. jobs' = jobs /\ ~handler' /\ pc' = pc
        BY <2>2, <3>5 DEF Reap, table, s
      <4>2. (Masked /\ OneEach /\ News)'
        BY <3>1, <3>2, <3>3, <3>5, <4>1
      <4>3. (Working /\ Tested)'
        BY <3>1, <3>2, <3>3, <3>5, <4>1
      <4>4. (Tabled /\ ForegroundIsWaitedFor)'
        BY <3>1, <3>2, <3>3, <3>5, <4>1
      <4>5. QED  BY <4>2, <4>3, <4>4
    <3>6. CASE proc[p] # "exit0" /\ s # NULL
      <4>1. /\ jobs' = [jobs EXCEPT ![s].status = StatusOf(p),
                          ![s].state = IF Ended(StatusOf(p)) THEN "kTerminado" ELSE "kStopped"]
            /\ handler' = handler /\ pc' = pc
        BY <2>2, <3>6 DEF Reap, s
      <4>2. /\ \A t \in Slots : /\ jobs'[t].pid = jobs[t].pid
                                /\ t # s => jobs'[t] = jobs[t]
            /\ jobs'[s].status = StatusOf(p) /\ jobs'[s].state # "kForeground"
        BY <3>3, <3>6, <4>1 DEF Job
      <4>3. /\ StatusOf(p) = "ended" => proc'[p] = "reaped"
            /\ StatusOf(p) # "zero"
        BY <3>1, <3>2, <3>6 DEF StatusOf
      <4>4. (Masked /\ OneEach)'
        BY <3>1, <3>2, <3>3, <3>6, <4>1, <4>2
      <4>5. News'
        BY <3>1, <3>2, <3>3, <3>6, <4>1, <4>2, <4>3
      <4>6. (Working /\ Tested)'
        <5>1. pid # 0 => pid \in Pids
          BY <1>types, TshAssumption DEF Pids
        <5>2. \A q \in Pids : proc[q] = "reaped" => proc'[q] = "reaped"
          BY <3>1, <3>2
        <5>3. \A t \in Slots : jobs'[t].pid = jobs[t].pid
                               /\ (jobs'[t].status = "zero" => jobs[t].status = "zero")
          BY <3>3, <3>6, <4>2, <4>3
        <5>4. Working'
          <6>1. (pc \in AtWork \/ (pc = "setFg" /\ temp # NULL)) =>
                  /\ temp \in Slots /\ pid \in Pids
                  /\ jobs[temp].pid = pid \/ (jobs[temp].pid = 0 /\ proc[pid] = "reaped")
            OBVIOUS
          <6>2. QED  BY <3>1, <4>1, <5>2, <5>3, <6>1
        <5>5. Tested'
          <6>1. pc \in {"takeTty", "decide"} => temp \in Slots /\ pid \in Pids
            OBVIOUS
          <6>2. QED  BY <3>1, <4>1, <5>1, <5>2, <5>3, <6>1
        <5>6. QED  BY <5>4, <5>5
      <4>7. Tabled'
        BY <3>1, <3>2, <3>3, <3>6, <4>1, <4>2
      <4>8. ForegroundIsWaitedFor'
        BY <3>1, <3>2, <3>3, <3>6, <4>1, <4>2
      <4>9. QED  BY <4>4, <4>5, <4>6, <4>7, <4>8
    <3>7. CASE proc[p] # "exit0" /\ s = NULL
      <4>1. jobs' = jobs /\ ~handler' /\ pc' = "crashed"
        BY <2>2, <3>7 DEF Reap, table, s
      <4>2. NotAdded(p) /\ pc \notin InWaitfg
        BY <3>1, <3>3, <3>7
      <4>3. (Masked /\ OneEach /\ News)'
        BY <3>1, <3>2, <3>3, <3>7, <4>1
      <4>4. (Working /\ Tested /\ Tabled /\ ForegroundIsWaitedFor)'
        BY <3>1, <3>2, <3>3, <3>7, <4>1, <4>2
      <4>5. QED  BY <4>3, <4>4
    <3>8. QED  BY <3>4, <3>5, <3>6, <3>7
  <2>3. QED  BY <1>23, <2>1, <2>2 DEF HandleSIGCHLD
<1>24. CASE Forward
  <2>1. fgpid \in Pids
    BY <1>24, Foreground, TshAssumption DEF Forward, Pids
  <2>2. \E x \in {"stopping", "killed"} :
          proc[fgpid] \notin {"none", "reaped"} /\ proc' = [proc EXCEPT ![fgpid] = x]
    BY <1>24 DEF Forward, ChildStops, Becomes
  <2>3. UNCHANGED <<jobs, pc, pid, temp, handler, blocked>>
    BY <1>24 DEF Forward, table, locals
  <2>4. QED  BY <2>1, <2>2, <2>3, <1>child
<1>25. ASSUME NEW p \in Pids, Child(p) PROVE TableInv'
  <2>1. \E x \in {"stopping", "running", "exit0", "killed"} :
          proc[p] \notin {"none", "reaped"} /\ proc' = [proc EXCEPT ![p] = x]
    BY <1>25 DEF Child, ChildStops, ChildEnds, ChildContinues, Becomes, Stopped
  <2>2. UNCHANGED <<jobs, pc, pid, temp, handler, blocked>>
    BY <1>25 DEF Child, table, locals
  <2>3. QED  BY <2>1, <2>2, <1>child
<1>26. QED
  BY <1>1, <1>2, <1>3, <1>4, <1>5, <1>6, <1>7, <1>8, <1>9, <1>10, <1>11, <1>12, <1>13, <1>14,
     <1>15, <1>16, <1>17, <1>18, <1>19, <1>20, <1>21, <1>22, <1>23, <1>24, <1>25
     DEF Next, Main, Waitfg
-------------------------------------------------------------------------------
\* A living child has the terminal only while waitfg waits for it.
TtyGiven ==
  \/ tty = shell \/ proc[tty] = "reaped" \/ pc = "crashed"
  \/ tty = pid /\ pc \in {"cont", "waitpid", "takeTty"}

\* fork() gives the first process identifier that is free.
LEMMA NewChild ==
  ASSUME Fork, pc' = "addjob"
  PROVE  /\ pid' \in Pids /\ proc[pid'] = "none" /\ proc' = [proc EXCEPT ![pid'] = "running"]
         /\ \A p \in Pids : proc[p] = "none" => pid' <= p
         /\ pc = "fork" /\ pc' = "addjob"
<1> DEFINE new == {p \in Pids : proc[p] = "none"}
<1>1. /\ new # {} /\ pid' = Min(new) /\ proc' = [proc EXCEPT ![Min(new)] = "running"]
      /\ pc = "fork" /\ pc' = "addjob"
  BY DEF Fork, Loop
<1>2. new \subseteq Nat
  BY DEF Pids
<1>3. Min(new) \in new /\ \A p \in new : Min(new) <= p
  BY <1>1, <1>2, MinIsLeast
<1>4. QED  BY <1>1, <1>3

\* Once waited for, a child stays so.
LEMMA NextTty == Typed /\ TtyGiven /\ [Next]_vars => TtyGiven'
<1> SUFFICES ASSUME Typed, TtyGiven, [Next]_vars PROVE TtyGiven'
  OBVIOUS
<1>types. /\ DOMAIN proc = Pids /\ (tty # shell => tty \in Pids) /\ pid \in 0 .. MaxForks
  BY TshAssumption DEF Typed, TypeOK, Pids, shell
<1> USE <1>types DEF TtyGiven
<1>1. CASE Terminated \/ UNCHANGED vars
  BY <1>1 DEF Terminated, vars, table, locals, signals, children
<1>2. CASE Report
  BY <1>2 DEF Report, Loop, table, signals, children
<1>3. CASE Update
  BY <1>3 DEF Update, Decide, signals, children
<1>4. CASE Delete
  BY <1>4 DEF Delete, Loop, signals, children
<1>5. CASE AssignNextID
  BY <1>5 DEF AssignNextID, NextID, Loop, signals, children
<1>6. CASE Restop
  BY <1>6 DEF Restop, Loop, StateStopped, signals, children
<1>7. CASE Read
  BY <1>7 DEF Read, Loop, ReadLoop, ReadQuit, ReadCommand, Suspended, ReadBg, ReadFg,
              table, signals, children
<1>8. CASE Block
  BY <1>8 DEF Block, Goto, table, locals, children
<1>9. CASE Fork
  <2>1. CASE pc' # "addjob"
    BY <1>9, <2>1 DEF Fork, Loop
  <2>2. CASE pc' = "addjob"
    BY <1>9, <2>2, NewChild DEF Fork
  <2>3. QED  BY <2>1, <2>2
<1>10. CASE Addjob
  BY <1>10 DEF Addjob, Goto, signals, children
<1>11. CASE Unblock
  BY <1>11 DEF Unblock, Goto, table, locals, children
<1>12. CASE Listjobs
  BY <1>12 DEF Listjobs, Loop, table, signals, children
<1>13. CASE Getjob
  BY <1>13 DEF Getjob, Goto, table, signals, children
<1>14. CASE SetFg
  BY <1>14 DEF SetFg, Goto, locals, signals, children
<1>15. CASE GiveTty
  BY <1>15 DEF GiveTty, Goto, table, locals, signals
<1>16. CASE Cont
  BY <1>16 DEF Cont, Goto, Continue, Becomes, Stopped, table, locals
<1>17. CASE Waitpid
  BY <1>17 DEF Waitpid, Loop, Waited, Waitable, Zombies, WaitFails, signals
<1>18. CASE TakeTty
  BY <1>18 DEF TakeTty, Tcsetpgrp, Goto, table, locals, signals
<1>19. CASE DecideFg
  BY <1>19 DEF DecideFg, Decide, StateStopped, signals, children
<1>20. CASE BgCont
  BY <1>20 DEF BgCont, Goto, Continue, Becomes, Stopped, table, locals
<1>21. CASE BgState
  BY <1>21 DEF BgState, Loop, signals, children
<1>22. CASE Deliver
  BY <1>22 DEF Deliver, table, locals, children
<1>23. CASE HandleSIGCHLD
  BY <1>23 DEF HandleSIGCHLD, Reap, ReapNone, Waited, Waitable, Zombies, table, locals, children
<1>24. CASE Forward
  BY <1>24 DEF Forward, ChildStops, Becomes, table, locals
<1>25. ASSUME NEW p \in Pids, Child(p) PROVE TtyGiven'
  BY <1>25 DEF Child, ChildStops, ChildEnds, ChildContinues, Becomes, Stopped, table, locals
<1>26. QED
  BY <1>1, <1>2, <1>3, <1>4, <1>5, <1>6, <1>7, <1>8, <1>9, <1>10, <1>11, <1>12, <1>13, <1>14,
     <1>15, <1>16, <1>17, <1>18, <1>19, <1>20, <1>21, <1>22, <1>23, <1>24, <1>25
     DEF Next, Main, Waitfg
-------------------------------------------------------------------------------
\* The next number is at most that of the next child to be forked.
ComingID == IF pc = "nextID" THEN max + 1 ELSE nextJobID
Numbered ==
  /\ \A s \in Slots : jobs[s].jid = 0 <=> jobs[s].pid = 0
  /\ \A s \in Slots : jobs[s].jid < ComingID
  /\ \A s, t \in Slots : jobs[s].pid # 0 /\ jobs[s].jid = jobs[t].jid => s = t
  /\ ComingID <= MaxForks + 1 /\ \A p \in Pids : proc[p] = "none" => ComingID <= p
  /\ pc = "addjob" => nextJobID <= pid /\ \A p \in Pids : proc[p] = "none" => pid < p

\* A job less lowers the next number to that after the highest left.
LEMMA Cleared ==
  ASSUME Typed, Numbered, NEW s \in Slots, jobs' = clearjob(s)
  PROVE  /\ \A t \in Slots : /\ jobs'[t].jid = 0 <=> jobs'[t].pid = 0
                             /\ jobs'[t].jid < ComingID /\ jobs'[t].jid <= maxjid(jobs')
         /\ \A t, u \in Slots : jobs'[t].pid # 0 /\ jobs'[t].jid = jobs'[u].jid => t = u
         /\ maxjid(jobs') \in Nat /\ maxjid(jobs') < ComingID
<1>1. jobs \in [Slots -> Job] /\ ComingID \in Nat \ {0}
  BY DEF Typed, TypeOK, ComingID
<1>2. jobs'[s] = NoJob /\ \A t \in Slots : t # s => jobs'[t] = jobs[t]
  BY <1>1 DEF clearjob
<1>3. jobs' \in [Slots -> Job]
  BY <1>1, TshAssumption DEF clearjob, NoJob, Job, State, Status
<1>4. \A t \in Slots : (jobs'[t].jid = 0 <=> jobs'[t].pid = 0) /\ jobs'[t].jid < ComingID
  BY <1>1, <1>2 DEF NoJob, Numbered
<1>5. \A t, u \in Slots : jobs'[t].pid # 0 /\ jobs'[t].jid = jobs'[u].jid => t = u
  BY <1>1, <1>2, <1>4 DEF NoJob, Numbered
<1>6. QED  BY <1>3, <1>4, <1>5, HighestJID

LEMMA InitNumbered == Init => Numbered
<1> SUFFICES ASSUME Init PROVE Numbered
  OBVIOUS
<1>1. \A s \in Slots : jobs[s] = NoJob
  BY DEF Init
<1>2. ComingID = 1 /\ pc = "report"
  BY DEF Init, ComingID
<1>3. 1 <= MaxForks + 1 /\ \A p \in Pids : 1 <= p
  BY TshAssumption DEF Pids
<1>4. QED  BY <1>1, <1>2, <1>3 DEF Numbered, NoJob

LEMMA NextNumbered ==
  MaxForks < kMaxJobID /\ Typed /\ TableInv /\ Numbered /\ [Next]_vars => Numbered'
<1> SUFFICES ASSUME MaxForks < kMaxJobID, Typed, TableInv, Numbered, [Next]_vars PROVE Numbered'
  OBVIOUS
<1>types. /\ DOMAIN proc = Pids /\ jobs \in [Slots -> Job] /\ max \in Nat /\ nextJobID \in Nat \ {0}
          /\ pid \in 0 .. MaxForks
          /\ \A s \in Slots : jobs[s].jid \in Nat
          /\ pc \in {"update", "restop", "giveTty", "cont", "waitpid", "takeTty", "decide",
                       "bgCont", "bgState"} => temp \in Slots
  BY DEF Typed, TypeOK, Job
<1>cleared. ASSUME NEW s \in Slots, jobs' = clearjob(s),
             \A q \in Pids : proc'[q] = "none" => proc[q] = "none",
             \/ pc' = "nextID" /\ max' = maxjid(jobs') /\ pc # "addjob"
             \/ pc' = pc /\ UNCHANGED <<max, pid>> /\ nextJobID' = maxjid(jobs') + 1
      PROVE  Numbered'
  <2>1. /\ \A t \in Slots : /\ jobs'[t].jid = 0 <=> jobs'[t].pid = 0
                            /\ jobs'[t].jid < ComingID /\ jobs'[t].jid <= maxjid(jobs')
        /\ \A t, u \in Slots : jobs'[t].pid # 0 /\ jobs'[t].jid = jobs'[u].jid => t = u
        /\ maxjid(jobs') \in Nat /\ maxjid(jobs') < ComingID
    BY <1>cleared, Cleared
  <2>0. \A t \in Slots : jobs'[t].jid \in Nat
    <3>1. \A t \in Slots : jobs'[t] = IF t = s THEN NoJob ELSE jobs[t]
      BY <1>types, <1>cleared DEF clearjob
    <3>2. NoJob.jid = 0
      BY DEF NoJob
    <3>3. QED  BY <1>types, <3>1, <3>2
  <2>2. ComingID' <= ComingID /\ \A t \in Slots : jobs'[t].jid < ComingID'
    <3>1. CASE ComingID' = maxjid(jobs') + 1
      <4>1. ComingID \in Nat
        BY <1>types DEF ComingID
      <4>2. QED  BY <2>0, <2>1, <3>1, <4>1
    <3>2. CASE ComingID' = ComingID
      <4>1. ComingID \in Nat
        BY <1>types DEF ComingID
      <4>2. QED  BY <2>1, <3>2, <4>1
    <3>3. QED  BY <1>cleared, <3>1, <3>2 DEF ComingID
  <2>3. ComingID \in Nat /\ ComingID' \in Nat
    BY <1>types, <1>cleared, <2>1 DEF ComingID
  <2>4. ComingID' <= MaxForks + 1 /\ \A p \in Pids : proc'[p] = "none" => ComingID' <= p
    BY <1>cleared, <2>2, <2>3, TshAssumption DEF Numbered, Pids
  <2>5. pc' = "addjob" => nextJobID' <= pid' /\ \A p \in Pids : proc'[p] = "none" => pid' < p
    BY <1>types, <1>cleared, <2>2, <2>3 DEF Numbered, ComingID
  <2>6. QED  BY <2>1, <2>2, <2>4, <2>5 DEF Numbered
<1> USE <1>types DEF Numbered, ComingID
<1>1. CASE Terminated \/ UNCHANGED vars
  BY <1>1 DEF Terminated, vars, table, locals, signals, children
<1>2. CASE Report
  BY <1>2 DEF Report, Loop, table, signals, children
<1>3. CASE Update
  BY <1>3 DEF Update, Decide, signals, children
<1>4. CASE Delete
  <2>1. CASE getjobpid(pid) = NULL
    BY <1>4, <2>1 DEF Delete, Loop, signals, children
  <2>2. CASE getjobpid(pid) # NULL
    <3>1. /\ jobs' = clearjob(getjobpid(pid)) /\ max' = maxjid(jobs') /\ pc' = "nextID"
          /\ pc = "delete" /\ UNCHANGED <<nextJobID, proc>>
      BY <1>4, <2>2 DEF Delete, children
    <3>2. getjobpid(pid) \in Slots
      BY <2>2, Lookup
    <3>3. QED  BY <3>1, <3>2, <1>cleared
  <2>3. QED  BY <2>1, <2>2
<1>5. CASE AssignNextID
  BY <1>5 DEF AssignNextID, NextID, Loop, signals, children
<1>6. CASE Restop
  <2>1. \A s \in Slots : jobs'[s].pid = jobs[s].pid /\ jobs'[s].jid = jobs[s].jid
    BY <1>6 DEF Restop, StateStopped, Job
  <2>2. QED  BY <1>6, <2>1 DEF Restop, Loop, signals, children
<1>7. CASE Read
  BY <1>7 DEF Read, Loop, ReadLoop, ReadQuit, ReadCommand, Suspended, ReadBg, ReadFg,
              table, signals, children
<1>8. CASE Block
  BY <1>8 DEF Block, Goto, table, locals, children
<1>9. CASE Fork
  <2>1. CASE pc' # "addjob"
    BY <1>9, <2>1 DEF Fork, Loop, table, signals
  <2>2. CASE pc' = "addjob"
    <3>1. /\ pid' \in Pids /\ proc[pid'] = "none" /\ proc' = [proc EXCEPT ![pid'] = "running"]
          /\ \A p \in Pids : proc[p] = "none" => pid' <= p
          /\ pc = "fork" /\ pc' = "addjob"
      BY <1>9, <2>2, NewChild
    <3>2. UNCHANGED <<jobs, nextJobID, max>>
      BY <1>9 DEF Fork, table
    <3>3. \A p \in Pids : proc'[p] = "none" => proc[p] = "none" /\ p # pid' /\ pid' < p
      BY <3>1 DEF Pids
    <3>4. QED  BY <3>1, <3>2, <3>3
  <2>3. QED  BY <2>1, <2>2
<1>10. CASE Addjob
  <2>1. CASE Free = {}
    BY <1>10, <2>1 DEF Addjob, addjob, Goto, table, signals, children
  <2>2. CASE Free # {}
    <3> DEFINE s == Min(Free)
    <3>1. s \in Slots /\ jobs[s].pid = 0
      BY <2>2, FreeSlot
    <3>2. /\ pc = "addjob" /\ pc' = "unblock" /\ proc' = proc
          /\ jobs' = [jobs EXCEPT ![s] = [pid |-> pid, jid |-> nextJobID, status |-> @.status,
                       state |-> IF backgroundJob THEN "kBackground" ELSE "kUndefined"]]
          /\ nextJobID' = IF nextJobID + 1 > kMaxJobID THEN 1 ELSE nextJobID + 1
      BY <1>10, <2>2 DEF Addjob, addjob, Goto, children
    <3> HIDE DEF s
    <3>3. pid \in Pids /\ nextJobID <= pid /\ \A p \in Pids : proc[p] = "none" => pid < p
      BY <3>2 DEF TableInv, Working
    <3>4. nextJobID' = nextJobID + 1 /\ nextJobID + 1 <= MaxForks + 1
      BY <3>2, <3>3, TshAssumption DEF Pids
    <3>5. \A p \in Pids : proc'[p] = "none" => nextJobID + 1 <= p
      BY <3>2, <3>3 DEF Pids
    <3>6. /\ jobs'[s].pid = pid /\ jobs'[s].jid = nextJobID
          /\ \A t \in Slots : t # s => jobs'[t] = jobs[t]
      BY <3>1, <3>2
    <3>7. pid # 0 /\ \A t \in Slots : jobs[t].jid < nextJobID
      BY <3>2, <3>3 DEF Pids
    <3>8. ComingID' = nextJobID + 1
      BY <3>2, <3>4
    <3>9. \A t \in Slots : jobs'[t].jid < nextJobID + 1 /\ (jobs'[t].jid = 0 <=> jobs'[t].pid = 0)
      <4> SUFFICES ASSUME NEW t \in Slots
          PROVE  jobs'[t].jid < nextJobID + 1 /\ (jobs'[t].jid = 0 <=> jobs'[t].pid = 0)
        OBVIOUS
      <4>1. CASE t = s
        BY <3>6, <3>7, <4>1
      <4>2. CASE t # s
        <5>1. jobs[t].jid < nextJobID /\ jobs[t].jid \in Nat /\ nextJobID \in Nat
          BY <3>7
        <5>2. jobs'[t] = jobs[t] /\ (jobs[t].jid = 0 <=> jobs[t].pid = 0)
          BY <3>6, <4>2
        <5>3. QED  BY <5>1, <5>2
      <4>3. QED  BY <4>1, <4>2
    <3>10. \A t, u \in Slots : jobs'[t].pid # 0 /\ jobs'[t].jid = jobs'[u].jid => t = u
      BY <3>6, <3>7
    <3>11. QED  BY <3>2, <3>4, <3>5, <3>8, <3>9, <3>10
  <2>3. QED  BY <2>1, <2>2
<1>11. CASE Unblock
  BY <1>11 DEF Unblock, Goto, table, locals, children
<1>12. CASE Listjobs
  BY <1>12 DEF Listjobs, Loop, table, signals, children
<1>13. CASE Getjob
  BY <1>13 DEF Getjob, Goto, table, signals, children
<1>14. CASE SetFg
  <2>1. \A s \in Slots : jobs'[s].pid = jobs[s].pid /\ jobs'[s].jid = jobs[s].jid
    BY <1>14 DEF SetFg, Goto, Job, locals, children
  <2>2. QED  BY <1>14, <2>1 DEF SetFg, Goto, locals, signals, children
<1>15. CASE GiveTty
  BY <1>15 DEF GiveTty, Goto, table, locals, signals
<1>16. CASE Cont
  BY <1>16 DEF Cont, Goto, Continue, Becomes, Stopped, table, locals
<1>17. CASE Waitpid
  <2>1. \A s \in Slots : jobs'[s].pid = jobs[s].pid /\ jobs'[s].jid = jobs[s].jid
    BY <1>17 DEF Waitpid, Job
  <2>2. QED  BY <1>17, <2>1 DEF Waitpid, Loop, Waited, Waitable, Zombies, WaitFails, signals
<1>18. CASE TakeTty
  BY <1>18 DEF TakeTty, Tcsetpgrp, Goto, table, locals, signals
<1>19. CASE DecideFg
  <2>1. \A s \in Slots : jobs'[s].pid = jobs[s].pid /\ jobs'[s].jid = jobs[s].jid
    BY <1>19 DEF DecideFg, Job
  <2>2. QED  BY <1>19, <2>1 DEF DecideFg, Decide, StateStopped, signals, children
<1>20. CASE BgCont
  BY <1>20 DEF BgCont, Goto, Continue, Becomes, Stopped, table, locals
<1>21. CASE BgState
  <2>1. \A s \in Slots : jobs'[s].pid = jobs[s].pid /\ jobs'[s].jid = jobs[s].jid
    BY <1>21 DEF BgState, Job
  <2>2. QED  BY <1>21, <2>1 DEF BgState, Loop, signals, children
<1>22. CASE Deliver
  BY <1>22 DEF Deliver, table, locals, children
<1>23. CASE HandleSIGCHLD
  <2>1. CASE ReapNone
    BY <2>1 DEF ReapNone, table, locals, children
  <2>2. ASSUME NEW p \in Pids, Reap(p) PROVE Numbered'
    <3>1. /\ \A q \in Pids : proc'[q] = "none" => proc[q] = "none"
          /\ UNCHANGED <<max, pid>> /\ (pc' = pc \/ (pc' = "crashed" /\ UNCHANGED table))
      BY <2>2 DEF Reap, Waited, locals
    <3>2. p \in 0 .. MaxForks
      BY TshAssumption DEF Pids
    <3>3. \/ UNCHANGED table /\ pc' = pc
          \/ UNCHANGED table /\ pc' = "crashed" /\ getjobpid(p) = NULL
          \/ /\ getjobpid(p) # NULL /\ pc' = pc
             /\ jobs' = clearjob(getjobpid(p)) /\ nextJobID' = maxjid(jobs') + 1
          \/ /\ getjobpid(p) # NULL /\ pc' = pc /\ nextJobID' = nextJobID
             /\ jobs' = [jobs EXCEPT ![getjobpid(p)].status = StatusOf(p),
                           ![getjobpid(p)].state =
                             IF Ended(StatusOf(p)) THEN "kTerminado" ELSE "kStopped"]
      BY <2>2 DEF Reap
    <3>4. CASE UNCHANGED table /\ pc' = pc
      BY <3>1, <3>4 DEF table
    <3>5. CASE UNCHANGED table /\ pc' = "crashed" /\ getjobpid(p) = NULL
      <4>1. handler /\ p \in Children
        BY <2>2 DEF Reap, Waitable, Zombies, Children
      <4>2. pc # "nextID"
        <5>1. p # 0 /\ \A s \in Slots : jobs[s].pid # p
          BY <3>2, <3>5, Lookup, TshAssumption DEF Pids
        <5>2. Running /\ NotAdded(p)
          BY <4>1, <5>1 DEF TableInv, Tabled, Masked
        <5>3. QED  BY <5>2 DEF NotAdded
      <4>3. QED  BY <3>1, <3>5, <4>2 DEF table
    <3>6. CASE /\ getjobpid(p) # NULL /\ pc' = pc
               /\ jobs' = clearjob(getjobpid(p)) /\ nextJobID' = maxjid(jobs') + 1
      BY <3>1, <3>2, <3>6, <1>cleared, Lookup
    <3>7. CASE /\ getjobpid(p) # NULL /\ pc' = pc /\ nextJobID' = nextJobID
               /\ jobs' = [jobs EXCEPT ![getjobpid(p)].status = StatusOf(p),
                             ![getjobpid(p)].state =
                               IF Ended(StatusOf(p)) THEN "kTerminado" ELSE "kStopped"]
      <4>1. \A s \in Slots : jobs'[s].pid = jobs[s].pid /\ jobs'[s].jid = jobs[s].jid
        BY <3>2, <3>7, Lookup DEF Job
      <4>2. QED  BY <3>1, <3>7, <4>1
    <3>8. QED  BY <3>3, <3>4, <3>5, <3>6, <3>7
  <2>3. QED  BY <1>23, <2>1, <2>2 DEF HandleSIGCHLD
<1>24. CASE Forward
  BY <1>24 DEF Forward, ChildStops, Becomes, table, locals
<1>25. ASSUME NEW p \in Pids, Child(p) PROVE Numbered'
  BY <1>25 DEF Child, ChildStops, ChildEnds, ChildContinues, Becomes, Stopped, table, locals
<1>26. QED
  BY <1>1, <1>2, <1>3, <1>4, <1>5, <1>6, <1>7, <1>8, <1>9, <1>10, <1>11, <1>12, <1>13, <1>14,
     <1>15, <1>16, <1>17, <1>18, <1>19, <1>20, <1>21, <1>22, <1>23, <1>24, <1>25
     DEF Next, Main, Waitfg
-------------------------------------------------------------------------------
LEMMA Invariance == Spec => []Typed /\ []TableInv
<1>1. Init => Typed /\ TableInv
  BY InitTyped, InitTable
<1>2. Typed /\ TableInv /\ [Next]_vars => Typed' /\ TableInv'
  BY NextTyped, NextTable
<1>3. QED  BY <1>1, <1>2, PTL DEF Spec

\* Every variable keeps its type, however handlers interrupt the shell: where
\* waitfg and do_bg use the job in temp there is one.
THEOREM TypeCorrect == Spec => []TypeOK
<1>1. Typed => TypeOK
  BY DEF Typed
<1>2. QED  BY <1>1, Invariance, PTL

\* Every child that was not waited for has exactly one job, and handleSIGCHLD
\* finds the job of each child it waits for, unless the table was full when eval
\* wanted to add it.
THEOREM ChildrenInTable == Spec => []ChildrenTabled
<1>1. ASSUME Typed, TableInv PROVE ChildrenTabled
  <2> USE <1>1 DEF TableInv
  <2>1. ASSUME Running, NEW p \in Children PROVE Cardinality(SlotsOf(p)) = 1 \/ NotAdded(p)
    <3>1. CASE \E s \in Slots : jobs[s].pid = p
      <4>1. PICK s \in Slots : jobs[s].pid = p
        BY <3>1
      <4>2. p > 0
        BY TshAssumption DEF Children, Pids
      <4>3. SlotsOf(p) = {s}
        BY <4>1, <4>2 DEF SlotsOf, OneEach
      <4>4. QED  BY <4>3, FS_Singleton
    <3>2. QED  BY <2>1, <3>1 DEF Tabled
  <2>2. ASSUME handler, NEW p \in Pids, Waitable(p)
        PROVE  getjobpid(p) # NULL \/ (NotAdded(p) /\ pc # "addjob")
    <3>1. p \in Children /\ Running /\ pc # "addjob"
      BY <2>2 DEF Waitable, Zombies, Children, Masked
    <3>2. p \in 0 .. MaxForks /\ p # 0 /\ jobs \in [Slots -> Job]
      BY TshAssumption DEF Pids, Typed, TypeOK
    <3>3. QED  BY <3>1, <3>2, Lookup DEF Tabled
  <2>3. QED  BY <2>1, <2>2 DEF ChildrenTabled, Typed
<1>2. QED  BY <1>1, Invariance, PTL

\* SIGINT and SIGTSTP go on to the child that waitfg waits for and to no other
\* that lives, for any size of the table and number of children.
THEOREM ForegroundCorrect == Spec => []ForegroundIsWaitedFor
<1>1. TableInv => ForegroundIsWaitedFor
  BY DEF TableInv
<1>2. QED  BY <1>1, Invariance, PTL

\* The shell has the terminal when it prompts, whoever waited for the job that
\* had it: waitfg, or a handler that came first.
THEOREM TerminalComesBack == Spec => []PromptHasTerminal
<1>1. Init => TtyGiven
  BY DEF Init, TtyGiven
<1>2. Typed /\ TtyGiven /\ [Next]_vars => TtyGiven'
  BY NextTty
<1>3. TtyGiven => PromptHasTerminal
  BY DEF TtyGiven, PromptHasTerminal
<1>4. QED  BY <1>1, <1>2, <1>3, Invariance, PTL DEF Spec

\* No two jobs have the same number, although a handler may delete a job while
\* deletejob is between maxjid and its assignment, as long as fewer children are
\* forked than there are numbers.
THEOREM NumbersDistinct == MaxForks < kMaxJobID => (Spec => []JobIDsFresh)
<1> SUFFICES ASSUME MaxForks < kMaxJobID PROVE Spec => []JobIDsFresh
  OBVIOUS
<1>1. Init => Numbered
  BY InitNumbered
<1>2. Typed /\ TableInv /\ Numbered /\ [Next]_vars => Numbered'
  BY NextNumbered
<1>3. ASSUME Typed, Numbered PROVE JobIDsFresh
  <2>1. max \in Nat /\ \A s \in Slots : jobs[s].jid \in Nat
    BY <1>3 DEF Typed, TypeOK, Job
  <2>2. QED  BY <1>3, <2>1 DEF Numbered, ComingID, JobIDsFresh
<1>4. QED  BY <1>1, <1>2, <1>3, Invariance, PTL DEF Spec
===============================================================================
