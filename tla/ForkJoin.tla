------------------------------ MODULE ForkJoin ------------------------------
(***************************************************************************)
(* What SpheresDB's thread pool promises its caller: a submission hands    *)
(* the same job to every worker and returns only when each of them has     *)
(* delivered a result computed for that very job; closing the pool lets    *)
(* every worker leave before the pool is gone.  ThreadPool.tla is the code *)
(* that has to keep this promise.                                          *)
(***************************************************************************)
EXTENDS Naturals

CONSTANTS NumThreads,   \* workers of the pool
          MaxJobs       \* bound: submissions in one behaviour

VARIABLES phase,        \* "idle", "running", "closing" or "closed"
          job,          \* number of the latest submission, 0 before the first
          result,       \* worker -> job its result is for, 0 while it owes one
          left          \* workers that have left the pool

vars == <<phase, job, result, left>>

Threads == 0 .. NumThreads - 1

Init ==
  /\ phase = "idle"
  /\ job = 0
  /\ result = [t \in Threads |-> 0]
  /\ left = {}

Submit ==
  /\ phase = "idle"
  /\ job < MaxJobs
  /\ phase' = "running"
  /\ job' = job + 1
  /\ result' = [t \in Threads |-> 0]
  /\ UNCHANGED left

Deliver(t) ==
  /\ phase = "running"
  /\ result[t] = 0
  /\ result' = [result EXCEPT ![t] = job]
  /\ UNCHANGED <<phase, job, left>>

Return ==
  /\ phase = "running"
  /\ \A t \in Threads : result[t] = job
  /\ phase' = "idle"
  /\ UNCHANGED <<job, result, left>>

Close ==
  /\ phase = "idle"
  /\ phase' = "closing"
  /\ UNCHANGED <<job, result, left>>

Leave(t) ==
  /\ phase = "closing"
  /\ t \notin left
  /\ left' = left \cup {t}
  /\ UNCHANGED <<phase, job, result>>

Finish ==
  /\ phase = "closing"
  /\ left = Threads
  /\ phase' = "closed"
  /\ UNCHANGED <<job, result, left>>

Next ==
  \/ Submit \/ Return \/ Close \/ Finish
  \/ \E t \in Threads : Deliver(t) \/ Leave(t)

Spec == Init /\ [][Next]_vars
=============================================================================
