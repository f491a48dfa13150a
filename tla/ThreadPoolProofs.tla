-------------------------- MODULE ThreadPoolProofs --------------------------
(***************************************************************************)
(* Proofs about ThreadPool.tla for every number of workers and every       *)
(* number of submissions.                                                  *)
(***************************************************************************)
EXTENDS ThreadPool, TLAPS

USE ThreadPoolAssumption DEF ThreadPoolAssumption

\* Constructing the pool (every worker parked on task id 0, every job_done
\* flag up) establishes the invariant.
LEMMA InitIInv == Init => IInv
<1> SUFFICES ASSUME Init PROVE IInv
  OBVIOUS
<1>1. TypeOK
  <2>1. /\ job_done \in [Threads -> BOOLEAN]
        /\ task_id \in [Threads -> Nat]
        /\ output \in [Threads -> 0 .. MaxJobs]
        /\ wpc \in [Threads -> WorkerPC]
    BY DEF Init, WorkerPC
  <2>2. task = "Nop" /\ job = 0 /\ global_task_id = 0 /\ mpc = "idle" /\ cursor = 0
    BY DEF Init
  <2>3. freed \in BOOLEAN
    BY DEF Init
  <2> QED
    BY <2>1, <2>2, <2>3 DEF TypeOK, MainPC
<1>2. Phases
  BY DEF Init, Phases, Threads, Parked
<1>3. NoUseAfterFree /\ NoLostWakeup
  BY DEF Init, NoUseAfterFree, NoLostWakeup
<1> QED
  BY <1>1, <1>2, <1>3 DEF IInv

\* No step of main, of a worker, or of the caller breaks the invariant.
LEMMA NextIInv == IInv /\ [Next]_vars => IInv'
<1> USE DEF IInv, TypeOK, Threads, WorkerPC, MainPC, Phases, Parked,
            Pending, Running, Delivered, NoUseAfterFree, NoLostWakeup,
            workerVars, mainVars
<1> SUFFICES ASSUME IInv, [Next]_vars
             PROVE  IInv'
  OBVIOUS
<1>1. CASE Submit
  BY <1>1 DEF Submit
<1>2. CASE Destroy
  BY <1>2 DEF Destroy
<1>3. CASE ResetFlag
  <2>1. TypeOK'
    BY <1>3 DEF ResetFlag
  <2>2. Phases'
    BY <1>3 DEF ResetFlag
  <2>3. NoUseAfterFree' /\ NoLostWakeup'
    BY <1>3 DEF ResetFlag
  <2> QED
    BY <2>1, <2>2, <2>3
<1>4. CASE Publish
  <2>1. TypeOK'
    BY <1>4 DEF Publish
  <2>2. Phases'
    BY <1>4 DEF Publish
  <2>3. NoUseAfterFree' /\ NoLostWakeup'
    BY <1>4 DEF Publish
  <2> QED
    BY <2>1, <2>2, <2>3
<1>5. CASE NotifyAll
  \* Waking the sleepers leaves every worker in the stage it is in.
  <2>1. /\ wpc' = [t \in Threads |-> IF wpc[t] = "asleep" THEN "wait" ELSE wpc[t]]
        /\ mpc = "notify" /\ mpc' = "await" /\ cursor' = 0
        /\ UNCHANGED <<task, job, global_task_id, job_done, task_id, output, freed>>
    BY <1>5 DEF NotifyAll
  <2>2. TypeOK'
    BY <2>1
  <2>3. \A t \in Threads : /\ wpc'[t] # "asleep"
                           /\ Parked(t)' <=> Parked(t)
                           /\ ~Parked(t) => wpc'[t] = wpc[t]
    BY <2>1
  <2>4. Phases'
    <3>1. \A t \in Threads : Pending(t)' \/ Running(t)' \/ Delivered(t)'
      BY <2>1, <2>3
    <3>2. \A t \in Threads : Pending(t)' \/ (Running(t)' /\ wpc'[t] = "run")
                              => Pending(t) \/ (Running(t) /\ wpc[t] = "run")
      BY <2>1, <2>3
    <3> QED
      BY <2>1, <3>1, <3>2
  <2>5. NoUseAfterFree' /\ NoLostWakeup'
    BY <2>1, <2>3
  <2> QED
    BY <2>2, <2>4, <2>5
<1>6. CASE AwaitFlag
  <2>1. TypeOK'
    BY <1>6 DEF AwaitFlag
  <2>2. Phases'
    BY <1>6 DEF AwaitFlag
  <2>3. NoUseAfterFree' /\ NoLostWakeup'
    BY <1>6 DEF AwaitFlag
  <2> QED
    BY <2>1, <2>2, <2>3
<1>7. CASE SleepMain
  BY <1>7 DEF SleepMain
<1>8. CASE Return
  <2>1. TypeOK'
    BY <1>8 DEF Return
  <2>2. Phases'
    BY <1>8 DEF Return
  <2>3. NoUseAfterFree' /\ NoLostWakeup'
    BY <1>8 DEF Return
  <2> QED
    BY <2>1, <2>2, <2>3
<1>9. CASE Free
  BY <1>9 DEF Free
<1>10. CASE Join
  BY <1>10 DEF Join
<1>11. ASSUME NEW t \in Threads, Wake(t)
       PROVE  IInv'
  \* Only a pending worker sees another id than its own; it is running now.
  <2>1. Pending(t) /\ mpc \in {"notify", "await", "asleep"}
    BY <1>11 DEF Wake
  <2>2. /\ task_id' = [task_id EXCEPT ![t] = @ + 1]
        /\ wpc' = [wpc EXCEPT ![t] = "run"]
        /\ UNCHANGED <<task, job, global_task_id, job_done, output, mpc, cursor, freed>>
    BY <1>11 DEF Wake
  <2>3. TypeOK'
    BY <2>2
  <2>4. \A u \in Threads \ {t} : wpc'[u] = wpc[u] /\ task_id'[u] = task_id[u]
    BY <2>2
  <2>5. Running(t)'
    BY <2>1, <2>2
  <2>6. Phases'
    <3>1. \A u \in Threads : Pending(u)' \/ Running(u)' \/ Delivered(u)'
      BY <2>1, <2>2, <2>4, <2>5
    <3>2. \A u \in Threads : Pending(u)' \/ (Running(u)' /\ wpc'[u] = "run")
                              => Pending(u) \/ (Running(u) /\ wpc[u] = "run")
      BY <2>1, <2>2, <2>4
    <3> QED
      BY <2>1, <2>2, <3>1, <3>2
  <2>7. NoUseAfterFree' /\ NoLostWakeup'
    BY <2>1, <2>2, <2>4
  <2> QED
    BY <2>3, <2>6, <2>7
<1>12. ASSUME NEW t \in Threads, Sleep(t)
       PROVE  IInv'
  <2>1. TypeOK'
    BY <1>12 DEF Sleep
  <2>2. Phases'
    BY <1>12 DEF Sleep
  <2>3. NoUseAfterFree' /\ NoLostWakeup'
    BY <1>12 DEF Sleep
  <2> QED
    BY <2>1, <2>2, <2>3
<1>13. ASSUME NEW t \in Threads, RunTask(t)
       PROVE  IInv'
  <2>1. CASE task # "Exit"
    \* Only a running worker is in the switch, so a task is open and its
    \* output slice is replaced by one for the current submission.
    <3>1. Running(t) /\ mpc \in {"notify", "await", "asleep"} /\ task = "Work"
      BY <1>13, <2>1 DEF RunTask
    <3>2. /\ output' = [output EXCEPT ![t] = job]
          /\ wpc' = [wpc EXCEPT ![t] = "store"]
          /\ UNCHANGED <<task, job, global_task_id, job_done, task_id, mpc, cursor, freed>>
      BY <1>13, <2>1 DEF RunTask
    <3>3. TypeOK'
      BY <3>2
    <3>4. \A u \in Threads \ {t} : output'[u] = output[u] /\ wpc'[u] = wpc[u]
      BY <3>2
    <3>5. Phases'
      BY <3>1, <3>2, <3>4
    <3>6. NoUseAfterFree' /\ NoLostWakeup'
      BY <3>1, <3>2, <3>4
    <3> QED
      BY <3>3, <3>5, <3>6
  <2>2. CASE task = "Exit"
    <3>1. Running(t) /\ mpc \in {"notify", "await", "asleep"}
      BY <1>13, <2>2 DEF RunTask
    <3>2. /\ wpc' = [wpc EXCEPT ![t] = "storeExit"]
          /\ UNCHANGED <<task, job, global_task_id, job_done, task_id, output, mpc, cursor, freed>>
      BY <1>13, <2>2 DEF RunTask
    <3>3. TypeOK'
      BY <3>2
    <3>4. wpc'[t] = "storeExit" /\ \A u \in Threads \ {t} : wpc'[u] = wpc[u]
      BY <3>2
    <3>5. Phases'
      <4>1. \A u \in Threads : Pending(u)' \/ Running(u)' \/ Delivered(u)'
        BY <2>2, <3>1, <3>2, <3>4
      <4>2. \A u \in Threads : Pending(u)' \/ (Running(u)' /\ wpc'[u] = "run")
                                => Pending(u) \/ (Running(u) /\ wpc[u] = "run")
        BY <3>2, <3>4
      <4> QED
        BY <2>2, <3>1, <3>2, <4>1, <4>2
    <3>6. NoUseAfterFree' /\ NoLostWakeup'
      BY <3>1, <3>2, <3>4
    <3> QED
      BY <3>3, <3>5, <3>6
  <2> QED
    BY <2>1, <2>2
<1>14. ASSUME NEW t \in Threads, StoreDone(t)
       PROVE  IInv'
  \* The flag goes up while a task is open: t has delivered, nobody else moves.
  <2>1. Running(t) /\ mpc \in {"notify", "await", "asleep"}
    BY <1>14 DEF StoreDone
  <2>2. /\ job_done' = [job_done EXCEPT ![t] = TRUE]
        /\ wpc' = [wpc EXCEPT ![t] = IF @ = "store" THEN "signal" ELSE "signalExit"]
        /\ UNCHANGED <<task, job, global_task_id, task_id, output, mpc, cursor, freed>>
    BY <1>14 DEF StoreDone
  <2>3. TypeOK'
    BY <2>2
  <2>4. \A u \in Threads \ {t} : wpc'[u] = wpc[u] /\ job_done'[u] = job_done[u]
    BY <2>2
  <2>5. Delivered(t)'
    BY <1>14, <2>1, <2>2 DEF StoreDone
  <2>6. Phases'
    <3>1. \A u \in Threads : Pending(u)' \/ Running(u)' \/ Delivered(u)'
      BY <2>2, <2>1, <2>4, <2>5
    <3>2. \A u \in Threads : Pending(u)' \/ (Running(u)' /\ wpc'[u] = "run")
                              => Pending(u) \/ (Running(u) /\ wpc[u] = "run")
      BY <2>2, <2>4, <2>5
    <3>3. \A u \in Threads : job_done[u] => job_done'[u]
      BY <2>2
    <3> QED
      BY <2>1, <2>2, <3>1, <3>2, <3>3
  <2>7. NoUseAfterFree' /\ NoLostWakeup'
    BY <1>14, <2>1, <2>2, <2>4 DEF StoreDone
  <2> QED
    BY <2>3, <2>6, <2>7
<1>15. ASSUME NEW t \in Threads, NotifyOne(t)
       PROVE  IInv'
  \* Waking main moves it from "asleep" to "await"; t goes on from "signal" or
  \* "signalExit", which changes no worker's stage.
  <2>1. /\ wpc[t] \in {"signal", "signalExit"}
        /\ mpc' = IF mpc = "asleep" /\ cursor = t THEN "await" ELSE mpc
        /\ wpc' = [wpc EXCEPT ![t] = IF @ = "signal" THEN "wait" ELSE "exited"]
        /\ UNCHANGED <<task, job, global_task_id, job_done, task_id, output, cursor, freed>>
    BY <1>15 DEF NotifyOne
  <2>2. TypeOK'
    BY <2>1
  <2>3. \A u \in Threads : /\ u # t => wpc'[u] = wpc[u]
                           /\ Parked(u)' <=> Parked(u)
                           /\ wpc[u] \in {"signalExit", "exited"} <=> wpc'[u] \in {"signalExit", "exited"}
                           /\ wpc[u] \notin {"signal", "signalExit"} => wpc'[u] = wpc[u]
    BY <2>1
  <2>4. Phases'
    <3>1. \A u \in Threads : Pending(u) \/ Running(u) \/ Delivered(u)
                             => Pending(u)' \/ Running(u)' \/ Delivered(u)'
      BY <2>1, <2>3
    <3>2. \A u \in Threads : Pending(u)' \/ (Running(u)' /\ wpc'[u] = "run")
                              => Pending(u) \/ (Running(u) /\ wpc[u] = "run")
      BY <2>1, <2>3
    <3>3. CASE mpc \in {"idle", "reset"}
      BY <2>1, <2>3, <3>3
    <3>4. CASE mpc \in {"notify", "await", "asleep"}
      BY <2>1, <3>1, <3>2, <3>4
    <3>5. CASE mpc \in {"join", "ended"}
      BY <2>1, <2>3, <3>5
    <3> QED
      BY <3>3, <3>4, <3>5
  <2>5. NoUseAfterFree' /\ NoLostWakeup'
    BY <2>1, <2>3
  <2> QED
    BY <2>2, <2>4, <2>5
<1>16. CASE UNCHANGED vars
  BY <1>16 DEF vars
<1>17. CASE Ended
  BY <1>16, <1>17 DEF Ended
<1> QED
  BY <1>1, <1>2, <1>3, <1>4, <1>5, <1>6, <1>7, <1>8, <1>9, <1>10, <1>11,
     <1>12, <1>13, <1>14, <1>15, <1>16, <1>17
     DEF Next, MainStep, Worker

\* The invariant holds in every reachable state.
THEOREM Invariance == Spec => []IInv
  BY InitIInv, NextIInv, PTL DEF Spec

\* When the destructor frees the shared objects no worker can reach them.
THEOREM MemorySafety == Spec => []NoUseAfterFree
<1>1. IInv => NoUseAfterFree
  BY DEF IInv
<1> QED
  BY <1>1, Invariance, PTL

\* When submit_and_block returns, every slice belongs to that submission.
THEOREM CompleteResults == Spec => []ResultsComplete
<1>1. IInv => ResultsComplete
  BY DEF IInv, Phases, ResultsComplete
<1> QED
  BY <1>1, Invariance, PTL

\* No wakeup is lost, on either side.
THEOREM NoWakeupLost == Spec => []NoLostWakeup
<1>1. IInv => NoLostWakeup
  BY DEF IInv
<1> QED
  BY <1>1, Invariance, PTL

\* The plain fields of the context are written only between tasks: the two
\* steps that write them start at "idle", where the invariant parks everyone.
THEOREM StableContext == Spec => ContextStable
<1> DEFINE A == <<task, job>>' # <<task, job>> =>
                  \A t \in Threads : /\ wpc[t] \in {"wait", "asleep", "signal"}
                                     /\ task_id[t] = global_task_id
<1>1. IInv /\ [Next]_vars => [A]_vars
  <2> SUFFICES ASSUME IInv, Next, <<task, job>>' # <<task, job>>
               PROVE  \A t \in Threads : /\ wpc[t] \in {"wait", "asleep", "signal"}
                                        /\ task_id[t] = global_task_id
    OBVIOUS
  <2>1. Submit \/ Destroy
    BY DEF Next, MainStep, ResetFlag, Publish, NotifyAll, AwaitFlag, SleepMain,
           Return, Free, Join, Worker, Wake, Sleep, RunTask, StoreDone, NotifyOne,
           Ended, vars
  <2>2. mpc = "idle"
    BY <2>1 DEF Submit, Destroy
  <2> QED
    BY <2>2 DEF IInv, Phases, Parked
<1> QED
  BY <1>1, Invariance, PTL DEF Spec, ContextStable

\* Every worker takes up every submission, once: what it computes next is for
\* the submission after the one its output slice is for.
THEOREM JobsOnce == Spec => EachJobOnce
<1> DEFINE A == \A t \in Threads : wpc[t] = "run" /\ wpc'[t] = "store" =>
                                      output[t] + 1 = output'[t]
<1>1. IInv /\ [Next]_vars => [A]_vars
  <2> SUFFICES ASSUME IInv, Next, NEW t \in Threads, wpc[t] = "run", wpc'[t] = "store"
               PROVE  output[t] + 1 = output'[t]
    OBVIOUS
  <2>1. RunTask(t)
    \* A step of another worker, or of main, leaves this one running.
    <3> USE DEF IInv, TypeOK, workerVars, mainVars
    <3>1. ASSUME NEW u \in Threads, Worker(u) PROVE u = t
      BY <3>1 DEF Worker, Wake, Sleep, RunTask, StoreDone, NotifyOne
    <3>2. ~(Submit \/ Destroy \/ MainStep \/ Ended)
      BY DEF Submit, Destroy, MainStep, ResetFlag, Publish, NotifyAll, AwaitFlag, SleepMain,
             Return, Free, Join, Ended, vars
    <3>3. Worker(t)
      BY <3>1, <3>2 DEF Next
    <3> QED
      BY <3>3 DEF Worker, Wake, Sleep, StoreDone, NotifyOne
  <2>2. task # "Exit" /\ output'[t] = job
    BY <2>1 DEF RunTask, IInv, TypeOK
  <2>3. mpc \in {"notify", "await", "asleep"}
    BY DEF IInv, TypeOK, MainPC, Phases, NoUseAfterFree, Parked
  <2>4. task = "Work" /\ Running(t)
    BY <2>2, <2>3 DEF IInv, TypeOK, Phases, Parked, Pending, Running, Delivered
  <2>5. output[t] = job - 1
    BY <2>3, <2>4 DEF IInv, Phases
  <2> QED
    BY <2>2, <2>5 DEF IInv, TypeOK
<1> QED
  BY <1>1, Invariance, PTL DEF Spec, EachJobOnce

-----------------------------------------------------------------------------
(***************************************************************************)
(* The pool implements ForkJoin.                                           *)
(***************************************************************************)
\* A freshly built pool is a ForkJoin with nothing submitted.
LEMMA InitSimulation == Init => FJ!Init
  BY DEF Init, FJ!Init, FJ!Threads, Threads

\* Every step of the pool is a ForkJoin step or invisible: entering
\* submit_and_block is Submit, entering the destructor Close, raising a flag
\* Deliver or Leave, returning Return, freeing Finish.
LEMMA StepSimulation == IInv /\ [Next]_vars => [FJ!Next]_FJ!vars
<1> SUFFICES ASSUME IInv, [Next]_vars
             PROVE  [FJ!Next]_FJ!vars
  OBVIOUS
<1> USE DEF Threads, FJ!Threads
<1>1. CASE Submit
  <2>1. FJ!Submit
    BY <1>1 DEF Submit, FJ!Submit, IInv, Phases, Parked, workerVars
  <2> QED
    BY <2>1 DEF FJ!Next
<1>2. CASE Destroy
  <2>1. FJ!Close
    BY <1>2 DEF Destroy, FJ!Close, IInv, Phases, Parked, workerVars
  <2> QED
    BY <2>1 DEF FJ!Next
<1>3. CASE Return
  <2>1. FJ!Return
    BY <1>3 DEF Return, FJ!Return, IInv, TypeOK, Phases, Pending, Running, Delivered, workerVars
  <2> QED
    BY <2>1 DEF FJ!Next
<1>4. CASE Free
  <2>1. FJ!Finish
    BY <1>4 DEF Free, FJ!Finish, IInv, TypeOK, Phases, Pending, Running, Delivered, workerVars
  <2> QED
    BY <2>1 DEF FJ!Next
<1>5. ASSUME NEW t \in Threads, StoreDone(t)
      PROVE  FJ!Deliver(t) \/ FJ!Leave(t)
  <2>1. Running(t) /\ mpc \in {"notify", "await", "asleep"}
    BY <1>5 DEF StoreDone, IInv, TypeOK, MainPC, Phases, NoUseAfterFree, Parked, Pending, Running, Delivered
  <2>2. CASE wpc[t] = "store"
    BY <1>5, <2>1, <2>2 DEF StoreDone, FJ!Deliver, IInv, TypeOK, Phases, Running, mainVars
  <2>3. CASE wpc[t] = "storeExit"
    BY <1>5, <2>1, <2>3 DEF StoreDone, FJ!Leave, IInv, TypeOK, Phases, Running, mainVars
  <2> QED
    BY <1>5, <2>2, <2>3 DEF StoreDone
<1>6. CASE ResetFlag
  BY <1>6 DEF ResetFlag, FJ!vars, IInv, Phases, TypeOK, workerVars
<1>7. CASE Publish
  BY <1>7 DEF Publish, FJ!vars, IInv, TypeOK, Phases, workerVars
<1>8. CASE NotifyAll
  BY <1>8 DEF NotifyAll, FJ!vars, IInv, TypeOK
<1>9. CASE AwaitFlag \/ SleepMain \/ Join
  BY <1>9 DEF AwaitFlag, SleepMain, Join, FJ!vars, workerVars
<1>10. ASSUME NEW t \in Threads, Wake(t) \/ Sleep(t)
       PROVE  UNCHANGED FJ!vars
  BY <1>10 DEF Wake, Sleep, FJ!vars, mainVars, IInv, TypeOK
<1>11. ASSUME NEW t \in Threads, RunTask(t)
       PROVE  UNCHANGED FJ!vars
  <2>1. Running(t) /\ mpc \in {"notify", "await", "asleep"}
    BY <1>11 DEF RunTask, IInv, TypeOK, MainPC, Phases, NoUseAfterFree, Parked, Pending, Running, Delivered
  <2>2. UNCHANGED <<task, job, job_done, mpc, cursor, freed>>
    BY <1>11 DEF RunTask, mainVars
  <2>3. CASE task # "Exit"
    \* The slice changes before the flag is up, so nothing is visible yet.
    BY <1>11, <2>1, <2>2, <2>3 DEF RunTask, FJ!vars, IInv, TypeOK, Running
  <2>4. CASE task = "Exit"
    BY <1>11, <2>1, <2>2, <2>4 DEF RunTask, FJ!vars, IInv, TypeOK, Running
  <2> QED
    BY <2>3, <2>4
<1>12. ASSUME NEW t \in Threads, NotifyOne(t)
       PROVE  UNCHANGED FJ!vars
  BY <1>12 DEF NotifyOne, FJ!vars, IInv, TypeOK
<1>13. CASE UNCHANGED vars
  BY <1>13 DEF vars, FJ!vars
<1> QED
  BY <1>1, <1>2, <1>3, <1>4, <1>5, <1>6, <1>7, <1>8, <1>9, <1>10, <1>11,
     <1>12, <1>13 DEF Next, MainStep, Worker, Ended, FJ!Next

\* Every behaviour of the pool is a behaviour of the fork-join promise.
THEOREM Refinement == Spec => ImplementsForkJoin
  BY InitSimulation, StepSimulation, Invariance, PTL
     DEF Spec, ImplementsForkJoin, FJ!Spec
=============================================================================
