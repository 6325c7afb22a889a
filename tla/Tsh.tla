--------------------------------- MODULE Tsh ----------------------------------
(***************************************************************************)
(* The shell of assignment 3 (tsh.c, tsh-jobs.c): the main program, which  *)
(* reads and evaluates commands, its signal handlers, which interrupt it   *)
(* between any two steps, and its children, which end, stop and continue   *)
(* when they like.                                                         *)
(*                                                                         *)
(* A step of the main program is one system call or one access to the job  *)
(* table between which a handler may run. SIGCHLDs coalesce: one pending   *)
(* signal may stand for several children.                                  *)
(***************************************************************************)
EXTENDS Integers, FiniteSetsExt

CONSTANTS kMaxJobs, kMaxJobID,
          MaxForks,             \* bound: how many children are ever forked
          NULL

ASSUME TshAssumption ==
  /\ kMaxJobs \in Nat \ {0} /\ kMaxJobID \in Nat \ {0} /\ MaxForks \in Nat
  /\ NULL \notin Int

Slots == 0 .. kMaxJobs - 1
Pids  == 1 .. MaxForks          \* in the order of fork()

VARIABLES
  jobs, nextJobID,
  pc,                           \* of the main program
  i,                            \* the loop counter of main
  pid, temp, backgroundJob,     \* arguments and locals of eval and waitfg
  max,                          \* result of maxjid in a call of deletejob
  handler,                      \* is handleSIGCHLD running?
  pending, blocked,             \* SIGCHLD
  proc,                         \* the children
  tty                           \* who has the terminal: 0 is the shell

shell    == 0
table    == <<jobs, nextJobID>>
locals   == <<i, pid, temp, backgroundJob, max>>
signals  == <<handler, pending, blocked>>
children == <<proc, tty>>
vars     == <<table, pc, locals, signals, children>>

\* 0 is the status of a child that exited with 0, and of a job without news;
\* "ended" stands for any other exit and for a fatal signal.
Status == {"zero", "stopped", "ended"}
State  == {"kUndefined", "kBackground", "kForeground", "kStopped", "kTerminado"}
Job    == [pid : 0 .. MaxForks, jid : Nat, state : State, status : Status]

\* A child that was stopped and not yet waited for is "stopping"; one that
\* exited with 0, or ended otherwise, and was not waited for is a zombie.
Zombies == {"exit0", "killed"}
Proc    == {"none", "running", "stopping", "stopped", "reaped"} \cup Zombies
Stopped == {"stopping", "stopped"}

PC == {"report", "update", "delete", "nextID", "restop", "prompt", "block",
       "fork", "addjob", "unblock", "listjobs", "getjob", "setFg", "giveTty",
       "cont", "waitpid", "takeTty", "decide", "bgCont", "bgState",
       "exited", "crashed", "suspended"}

TypeOK ==
  /\ jobs \in [Slots -> Job] /\ nextJobID \in Nat \ {0}
  /\ pc \in PC /\ i \in 0 .. kMaxJobs
  /\ pid \in 0 .. MaxForks /\ temp \in Slots \cup {NULL}
  /\ backgroundJob \in BOOLEAN /\ max \in Nat
  /\ handler \in BOOLEAN /\ pending \in BOOLEAN /\ blocked \in BOOLEAN
  /\ proc \in [Pids -> Proc] /\ tty \in 0 .. MaxForks

-------------------------------------------------------------------------------
(* tsh-jobs.c *)

NoJob == [pid |-> 0, jid |-> 0, state |-> "kUndefined", status |-> "zero"]

SlotsOf(p) == {s \in Slots : p > 0 /\ jobs[s].pid = p}
getjobpid(p) == IF SlotsOf(p) = {} THEN NULL ELSE Min(SlotsOf(p))

maxjid(js) == Max({js[s].jid : s \in Slots})

fgpid == LET fg == {s \in Slots : jobs[s].state = "kForeground"}
         IN  IF fg = {} THEN 0 ELSE jobs[Min(fg)].pid

clearjob(s) == [jobs EXCEPT ![s] = NoJob]

Free == {s \in Slots : jobs[s].pid = 0}
addjob(p, state) ==
  IF Free = {} THEN UNCHANGED table
  ELSE /\ jobs' = [jobs EXCEPT ![Min(Free)] =
                     [pid |-> p, jid |-> nextJobID, state |-> state,
                      status |-> @.status]]
       /\ nextJobID' = IF nextJobID + 1 > kMaxJobID THEN 1 ELSE nextJobID + 1

\* WIFEXITED(status) || WIFSIGNALED(status)
Ended(status) == status # "stopped"

-------------------------------------------------------------------------------
(* The children: external programs, stopped and continued by anyone *)

Becomes(p, state) == proc' = [proc EXCEPT ![p] = state] /\ pending' = TRUE

ChildStops(p) == proc[p] = "running" /\ Becomes(p, "stopping")
ChildEnds(p) ==
  \/ proc[p] = "running" /\ Becomes(p, "exit0")
  \/ proc[p] \in {"running"} \cup Stopped /\ Becomes(p, "killed")
ChildContinues(p) == proc[p] \in Stopped /\ Becomes(p, "running")

\* kill(p, SIGCONT): without effect if p is 0 or was waited for.
Continue(p) ==
  IF p > 0 /\ proc[p] \in Stopped THEN Becomes(p, "running")
  ELSE UNCHANGED <<proc, pending>>

Child(p) ==
  /\ ChildStops(p) \/ ChildEnds(p) \/ ChildContinues(p)
  /\ UNCHANGED <<table, pc, locals, handler, blocked, tty>>

\* waitpid(p, &status, WUNTRACED) when it need not wait
Waitable(p) == proc[p] \in Zombies \cup {"stopping"}
Waited(p) == proc' = [proc EXCEPT ![p] = IF @ = "stopping" THEN "stopped" ELSE "reaped"]
StatusOf(p) ==
  CASE proc[p] = "exit0"  -> "zero"
    [] proc[p] = "killed" -> "ended"
    [] OTHER              -> "stopped"

-------------------------------------------------------------------------------
(* handleSIGCHLD, and handleSIGINT and handleSIGTSTP, which may interrupt it *)

Running == pc \notin {"exited", "crashed", "suspended"}

Deliver ==
  /\ Running /\ pending /\ ~blocked /\ ~handler
  /\ handler' = TRUE /\ pending' = FALSE
  /\ UNCHANGED <<table, pc, locals, blocked, children>>

\* One call of waitpid(-1, ...) and the body of the loop. After a child that
\* exited with 0 the handler returns (line 247).
Reap(p) ==
  /\ handler /\ Waitable(p) /\ Waited(p)
  /\ \/ /\ proc[p] = "exit0"
        /\ handler' = FALSE
        /\ IF getjobpid(p) = NULL THEN UNCHANGED table
           ELSE /\ jobs' = clearjob(getjobpid(p))
                /\ nextJobID' = maxjid(jobs') + 1
        /\ UNCHANGED pc
     \/ /\ proc[p] # "exit0" /\ getjobpid(p) # NULL
        /\ jobs' = [jobs EXCEPT ![getjobpid(p)].status = StatusOf(p),
                      ![getjobpid(p)].state =
                          IF Ended(StatusOf(p)) THEN "kTerminado" ELSE "kStopped"]
        /\ UNCHANGED <<nextJobID, handler, pc>>
     \/ /\ proc[p] # "exit0" /\ getjobpid(p) = NULL
        /\ pc' = "crashed" /\ handler' = FALSE /\ UNCHANGED table
  /\ UNCHANGED <<locals, pending, blocked, tty>>

ReapNone ==
  /\ handler /\ \A p \in Pids : ~Waitable(p)
  /\ handler' = FALSE
  /\ UNCHANGED <<table, pc, locals, pending, blocked, children>>

HandleSIGCHLD == (\E p \in Pids : Reap(p)) \/ ReapNone

\* SIGINT or SIGTSTP for the shell goes on to the group of the foreground job.
Forward ==
  /\ Running /\ fgpid # 0
  /\ ChildStops(fgpid) \/ (proc[fgpid] = "running" /\ Becomes(fgpid, "killed"))
  /\ UNCHANGED <<table, pc, locals, handler, blocked, tty>>

-------------------------------------------------------------------------------
(* The main program *)

\* A pending signal that is not blocked is delivered first. Only waitpid may find
\* the child before the signal that announces it.
Turn == ~handler /\ (pending => blocked)
Goto(from, to) == Turn /\ pc = from /\ pc' = to

\* Back to the head of main's loop, or on to the next job of lines 478-491,
\* which look at jobs[i]; at the end of them, and in eval, i is kMaxJobs.
Loop == pc' = "report" /\ i' = (i + 1) % (kMaxJobs + 1)

Report ==
  /\ Turn /\ pc = "report"
  /\ \/ i = kMaxJobs /\ pc' = "prompt" /\ UNCHANGED <<i, temp>>
     \/ i < kMaxJobs /\ jobs[i].status = "zero" /\ Loop /\ UNCHANGED temp
     \/ i < kMaxJobs /\ jobs[i].status # "zero"
        /\ pc' = "update" /\ temp' = i /\ UNCHANGED i
  /\ UNCHANGED <<table, pid, backgroundJob, max, signals, children>>

\* The test of atualizarAtributosJob and of lines 122-135 of waitfg: a handler
\* may run between the test and what follows from it.
Decide(p) ==
  /\ IF Ended(jobs[temp].status) THEN pc' = "delete" /\ pid' = p
                                 ELSE pc' = "restop" /\ UNCHANGED pid
  /\ UNCHANGED <<nextJobID, i, temp, backgroundJob, max, signals, children>>

Update ==
  Turn /\ pc = "update" /\ Decide(jobs[temp].pid) /\ UNCHANGED jobs

\* deletejob, interruptible between maxjid and the assignment of nextJobID
Delete ==
  /\ Turn /\ pc = "delete"
  /\ \/ /\ getjobpid(pid) # NULL
        /\ jobs' = clearjob(getjobpid(pid)) /\ max' = maxjid(jobs')
        /\ pc' = "nextID" /\ UNCHANGED i
     \/ getjobpid(pid) = NULL /\ Loop /\ UNCHANGED <<jobs, max>>
  /\ UNCHANGED <<nextJobID, pid, temp, backgroundJob, signals, children>>

NextIDReused == max                                       \* mutant
NextID == max + 1

AssignNextID ==
  /\ Turn /\ pc = "nextID" /\ Loop /\ nextJobID' = NextID
  /\ UNCHANGED <<jobs, pid, temp, backgroundJob, max, signals, children>>

StateKept == "kForeground"                                \* mutant
StateStopped == "kStopped"

Restop ==
  /\ Turn /\ pc = "restop" /\ Loop
  /\ jobs' = [jobs EXCEPT ![temp].status = "zero", ![temp].state = StateStopped]
  /\ UNCHANGED <<nextJobID, pid, temp, backgroundJob, max, signals, children>>

\* fgets, parseline and handleBuiltin. ReadLoop is an empty line, jobs, and bg or
\* fg of a job that is not in the table. The shell is stopped by SIGTTIN (or its read fails and it
\* exits) when the terminal is not its own.
ReadLoop    == tty = shell /\ Loop /\ UNCHANGED <<pid, temp, backgroundJob>>
ReadQuit    == tty = shell /\ pc' = "exited" /\ UNCHANGED <<i, pid, temp, backgroundJob>>
ReadCommand == /\ tty = shell /\ pc' = "block"
               /\ backgroundJob' \in BOOLEAN /\ UNCHANGED <<i, pid, temp>>
ReadBg(s)   == /\ tty = shell /\ jobs[s].pid # 0 /\ pc' = "bgCont"
               /\ temp' = s /\ UNCHANGED <<i, pid, backgroundJob>>
ReadFg(s)   == /\ tty = shell /\ jobs[s].pid # 0 /\ pc' = "getjob"
               /\ pid' = jobs[s].pid /\ UNCHANGED <<i, temp, backgroundJob>>
Suspended   == /\ tty # shell /\ pc' = "suspended"
               /\ UNCHANGED <<i, pid, temp, backgroundJob>>

Read ==
  /\ Turn /\ pc = "prompt"
  /\ \/ ReadLoop \/ ReadQuit \/ ReadCommand \/ Suspended
     \/ \E s \in Slots : ReadBg(s) \/ ReadFg(s)
  /\ UNCHANGED <<table, max, signals, children>>

(* eval *)

BlockForgotten == UNCHANGED blocked                       \* mutant
BlockSIGCHLD == blocked' = TRUE

Block ==
  /\ Goto("block", "fork") /\ BlockSIGCHLD
  /\ UNCHANGED <<table, locals, handler, pending, children>>

\* A syntax error and a failed fork() return with SIGCHLD blocked.
Fork ==
  /\ Turn /\ pc = "fork"
  /\ \/ Loop /\ UNCHANGED <<pid, proc>>
     \/ LET new == {p \in Pids : proc[p] = "none"} IN
        /\ new # {} /\ pid' = Min(new)
        /\ proc' = [proc EXCEPT ![Min(new)] = "running"]
        /\ pc' = "addjob" /\ UNCHANGED i
  /\ UNCHANGED <<table, temp, backgroundJob, max, signals, tty>>

Addjob ==
  /\ Goto("addjob", "unblock")
  /\ addjob(pid, IF backgroundJob THEN "kBackground" ELSE "kUndefined")
  /\ temp' = IF Free = {} THEN NULL ELSE Min(Free)
  /\ UNCHANGED <<i, pid, backgroundJob, max, signals, children>>

Unblock ==
  /\ Goto("unblock", IF backgroundJob THEN "listjobs" ELSE "getjob")
  /\ blocked' = FALSE
  /\ UNCHANGED <<table, locals, handler, pending, children>>

\* listjobs(ret): NULL if the table was full. It reads kMaxJobs jobs from ret on,
\* beyond the end of the table when ret is not its first job.
Listjobs ==
  /\ Turn /\ pc = "listjobs"
  /\ \/ temp # NULL /\ Loop
     \/ temp # 0 /\ pc' = "crashed" /\ UNCHANGED i
  /\ UNCHANGED <<table, pid, temp, backgroundJob, max, signals, children>>

(* waitfg, and do_fg but for its search for the job *)

Getjob ==
  /\ Goto("getjob", "setFg") /\ temp' = getjobpid(pid)
  /\ UNCHANGED <<table, i, pid, backgroundJob, max, signals, children>>

SetFg ==
  /\ Goto("setFg", IF temp = NULL THEN "crashed" ELSE "giveTty")
  /\ jobs' = IF temp = NULL THEN jobs
             ELSE [jobs EXCEPT ![temp].state = "kForeground"]
  /\ UNCHANGED <<nextJobID, locals, signals, children>>

\* tcsetpgrp fails when the job is gone, or is so new that it has no process
\* group yet, or when there is no terminal.
GiveTty ==
  /\ Goto("giveTty", "cont")
  /\ (tty' = pid /\ proc[pid] # "reaped") \/ UNCHANGED tty
  /\ UNCHANGED <<table, locals, signals, proc>>

Cont ==
  /\ Goto("cont", "waitpid") /\ Continue(pid)
  /\ UNCHANGED <<table, locals, handler, blocked, tty>>

RetryOnError(p) == FALSE                                  \* mutant
WaitFails(p) == proc[p] = "reaped"

\* Interrupted by a handler, waitpid starts again (SA_RESTART). It fails when the
\* handler has waited for the child.
Waitpid ==
  /\ \/ /\ ~handler /\ pc = "waitpid" /\ pc' = "takeTty" /\ Waitable(pid) /\ Waited(pid)
        /\ jobs' = [jobs EXCEPT ![temp].status = StatusOf(pid)] /\ UNCHANGED i
     \/ /\ ~handler /\ pc = "waitpid" /\ WaitFails(pid) /\ Loop
        /\ UNCHANGED <<jobs, proc>>
  /\ UNCHANGED <<nextJobID, pid, temp, backgroundJob, max, signals, tty>>

TtyKept == tty' = IF proc[pid] = "stopped" THEN tty ELSE shell   \* mutant
Tcsetpgrp == tty' = shell

TakeTty ==
  /\ Goto("takeTty", "decide") /\ Tcsetpgrp
  /\ UNCHANGED <<table, locals, signals, proc>>

DecideFg ==
  /\ Turn /\ pc = "decide" /\ Decide(pid)
  /\ jobs' = IF jobs[temp].status = "stopped"
             THEN [jobs EXCEPT ![temp].state = StateStopped] ELSE jobs

Waitfg == Getjob \/ SetFg \/ GiveTty \/ Cont \/ Waitpid \/ TakeTty \/ DecideFg

(* do_bg: the handler may free the job at any point *)

BgCont ==
  /\ Goto("bgCont", "bgState") /\ Continue(jobs[temp].pid)
  /\ UNCHANGED <<table, locals, handler, blocked, tty>>

BgState ==
  /\ Turn /\ pc = "bgState" /\ Loop
  /\ jobs' = [jobs EXCEPT ![temp].state = "kBackground"]
  /\ UNCHANGED <<nextJobID, pid, temp, backgroundJob, max, signals, children>>

-------------------------------------------------------------------------------
Init ==
  /\ jobs = [s \in Slots |-> NoJob] /\ nextJobID = 1
  /\ pc = "report" /\ i = 0
  /\ pid = 0 /\ temp = NULL /\ backgroundJob = FALSE /\ max = 0
  /\ handler = FALSE /\ pending = FALSE /\ blocked = FALSE
  /\ proc = [p \in Pids |-> "none"] /\ tty = shell

Main ==
  \/ Report \/ Update \/ Delete \/ AssignNextID \/ Restop
  \/ Block \/ Fork \/ Addjob \/ Unblock \/ Listjobs
  \/ Waitfg \/ BgCont \/ BgState

Terminated == ~Running /\ UNCHANGED vars

Next ==
  \/ Main \/ Read
  \/ Deliver \/ HandleSIGCHLD \/ Forward
  \/ \E p \in Pids : Child(p)
  \/ Terminated

Spec == Init /\ [][Next]_vars

\* The kernel runs the shell and delivers its signals; the user need not type and
\* the children need not end, but they stop and continue only finitely often.
Fairness ==
  /\ WF_vars(Main) /\ WF_vars(Deliver) /\ WF_vars(HandleSIGCHLD)
  /\ <>[][\A p \in Pids : ~ChildStops(p) /\ ~ChildContinues(p)]_vars

FairSpec == Spec /\ Fairness

-------------------------------------------------------------------------------
(* Properties *)

Children    == {p \in Pids : proc[p] \notin {"none", "reaped"}}
\* Where eval or do_fg has set the job to foreground and not yet given it up.
InWaitfg    == {"giveTty", "cont", "waitpid", "takeTty", "decide", "delete", "restop"}

\* The child that eval has forked and not added to the table, or could not add to
\* it because it was full: eval uses addjob's NULL and the shell crashes.
NotAdded(p) ==
  /\ pid = p
  /\ pc = "addjob" \/ (temp = NULL /\ pc \in {"unblock", "listjobs", "getjob", "setFg"})

\* Every child that was not waited for has one job in the table, so that the user
\* can see it, and handleSIGCHLD finds the job of a child it waits for (line 250),
\* as eval adds the job before it unblocks SIGCHLD. Types are as they should be.
ChildrenTabled ==
  /\ TypeOK
  /\ Running => \A p \in Children : Cardinality(SlotsOf(p)) = 1 \/ NotAdded(p)
  /\ handler => \A p \in Pids :
       Waitable(p) => getjobpid(p) # NULL \/ (NotAdded(p) /\ pc # "addjob")

\* Job numbers in the table are distinct and less than the next one, although a
\* handler may delete a job while main is inside deletejob. (Numbers that have
\* not reached kMaxJobID.)
JobIDsFresh ==
  \A s \in Slots : jobs[s].pid # 0 =>
    /\ pc # "nextID" => jobs[s].jid < nextJobID
    /\ pc = "nextID" => jobs[s].jid <= max
    /\ \A t \in Slots \ {s} : jobs[t].jid # jobs[s].jid

\* A living child whose job is in state kForeground, so that SIGINT and SIGTSTP
\* are sent on to it, is the one that waitfg waits for.
ForegroundIsWaitedFor ==
  \A s \in Slots : (jobs[s].pid # 0 /\ jobs[s].state = "kForeground") =>
    \/ pc \in InWaitfg /\ temp = s
    \/ proc[jobs[s].pid] = "reaped"

\* The shell never prompts while a living child has the terminal.
PromptHasTerminal ==
  pc = "prompt" => tty = shell \/ proc[tty] = "reaped"

\* When the foreground job has ended the shell comes back to its prompt, whoever
\* waited for it: waitfg, or a handler that interrupted waitfg.
ForegroundEnds ==
  (pc \in InWaitfg /\ pid # 0 /\ proc[pid] \in Zombies \cup {"reaped"})
    ~> (pc = "prompt" \/ ~Running)

\* tsh.c:318, "If the job is running in the foreground, wait for it to terminate
\* and then return": but the handler may delete the job before waitfg finds it.
EvalReturns == pc # "crashed"
===============================================================================
