------------------------------- MODULE TaskPool -------------------------------
(***************************************************************************)
(* What thread-pool.h promises: functions submitted to the pool are        *)
(* executed once each by at most numThreads threads, and wait() returns    *)
(* when all functions submitted before it have been executed in full.      *)
(*                                                                         *)
(* Functions are handed out first in first out but a thread may be slow to *)
(* start: a function begins early only while every older one that has not  *)
(* begun, and every one that is running, has a thread of its own.          *)
(***************************************************************************)
EXTENDS Integers, FiniteSets, SequencesExt

CONSTANTS Tasks, numThreads

VARIABLES pending,            \* submitted and not begun, oldest first
          running, finished,
          state,              \* of wait(): "open", "closed" or "returned"
          prior               \* submitted before wait()

vars == <<pending, running, finished, state, prior>>

Submitted == Range(pending) \cup running \cup finished

Init ==
  /\ pending = <<>> /\ running = {} /\ finished = {}
  /\ state = "open" /\ prior = {}

Submit(f) ==
  /\ f \notin Submitted
  /\ pending' = Append(pending, f)
  /\ UNCHANGED <<running, finished, state, prior>>

Begin(k) ==
  /\ state # "returned"
  /\ k + Cardinality(running) <= numThreads
  /\ running' = running \cup {pending[k]}
  /\ pending' = RemoveAt(pending, k)
  /\ UNCHANGED <<finished, state, prior>>

Finish(f) ==
  /\ f \in running
  /\ running' = running \ {f} /\ finished' = finished \cup {f}
  /\ UNCHANGED <<pending, state, prior>>

Close ==
  /\ state = "open" /\ state' = "closed" /\ prior' = Submitted
  /\ UNCHANGED <<pending, running, finished>>

Return ==
  /\ state = "closed" /\ prior \subseteq finished /\ running = {}
  /\ state' = "returned"
  /\ UNCHANGED <<pending, running, finished, prior>>

Next ==
  \/ \E f \in Tasks : Submit(f) \/ Finish(f)
  \/ \E k \in DOMAIN pending : Begin(k)
  \/ Close \/ Return

Spec == Init /\ [][Next]_vars
===============================================================================
