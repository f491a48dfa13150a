----------------------------- MODULE ThreadPool -----------------------------
(***************************************************************************)
(* The thread pool of SpheresDB: spheres_worker, submit_and_block and the  *)
(* constructor and destructor of ThreadPool, one action per atomic access. *)
(* The submitting thread ("main") and the workers meet only in             *)
(*   - the context (task and inputs), written by main between submissions; *)
(*   - global_task_id, on which idle workers wait;                         *)
(*   - one job_done flag per worker, on which main waits.                  *)
(* An atomic wait(old) is two steps: the check, and falling asleep when    *)
(* the value still is old, in one step with the check (the futex does it); *)
(* only a later notify wakes the sleeper, which then checks again.         *)
(***************************************************************************)
EXTENDS Naturals

CONSTANTS NumThreads,   \* n_threads
          MaxJobs       \* bound: calls of submit_and_block in one behaviour

ASSUME ThreadPoolAssumption == NumThreads \in Nat /\ MaxJobs \in Nat

VARIABLES
  task,                 \* context->task: "Nop", "Work" (any task but Exit), "Exit"
  job,                  \* which submission the context's inputs belong to
  global_task_id,
  job_done,             \* thread_job_done
  task_id,              \* each worker's local task_id
  output,               \* the submission a worker's output slice was computed for
  wpc,                  \* where each worker is
  mpc,                  \* where main is
  cursor,               \* index of main's loop over the flags
  freed                 \* global_task_id and context have been deleted

workerVars == <<task_id, output, wpc>>
mainVars == <<mpc, cursor, freed>>
vars == <<task, job, global_task_id, job_done, task_id, output, wpc, mpc, cursor, freed>>

Threads == 0 .. NumThreads - 1

WorkerPC == {"wait", "asleep", "run", "store", "signal",
             "storeExit", "signalExit", "exited"}
MainPC == {"idle", "reset", "notify", "await", "asleep", "join", "ended"}

TypeOK ==
  /\ task \in {"Nop", "Work", "Exit"}
  /\ job \in 0 .. MaxJobs
  /\ global_task_id \in Nat
  /\ job_done \in [Threads -> BOOLEAN]
  /\ task_id \in [Threads -> Nat]
  /\ output \in [Threads -> 0 .. MaxJobs]
  /\ wpc \in [Threads -> WorkerPC]
  /\ mpc \in MainPC
  /\ cursor \in 0 .. NumThreads
  /\ freed \in BOOLEAN

Init ==
  /\ task = "Nop" /\ job = 0
  /\ global_task_id = 0
  /\ job_done = [t \in Threads |-> TRUE]
  /\ task_id = [t \in Threads |-> 0]
  /\ output = [t \in Threads |-> 0]
  /\ wpc = [t \in Threads |-> "wait"]
  /\ mpc = "idle" /\ cursor = 0 /\ freed = FALSE

(***************************************************************************)
(* Main.                                                                   *)
(***************************************************************************)

Submit ==               \* fill the context, enter submit_and_block
  /\ mpc = "idle"
  /\ job < MaxJobs
  /\ task' = "Work" /\ job' = job + 1
  /\ mpc' = "reset" /\ cursor' = 0
  /\ UNCHANGED <<global_task_id, job_done, freed, workerVars>>

Destroy ==              \* ~ThreadPool
  /\ mpc = "idle"
  /\ task' = "Exit"
  /\ mpc' = "reset" /\ cursor' = 0
  /\ UNCHANGED <<job, global_task_id, job_done, freed, workerVars>>

ResetFlag ==
  /\ mpc = "reset" /\ cursor < NumThreads
  /\ job_done' = [job_done EXCEPT ![cursor] = FALSE]
  /\ cursor' = cursor + 1
  /\ UNCHANGED <<task, job, global_task_id, mpc, freed, workerVars>>

Publish ==              \* global_task_id->fetch_add(1)
  /\ mpc = "reset" /\ cursor = NumThreads
  /\ global_task_id' = global_task_id + 1
  /\ mpc' = "notify"
  /\ UNCHANGED <<task, job, job_done, cursor, freed, workerVars>>

\* Faulty: notify_one instead of notify_all.
NotifyAllButOne ==
  /\ mpc = "notify"
  /\ wpc' = [t \in Threads |-> IF wpc[t] = "asleep" /\ \A u \in Threads : u < t => wpc[u] # "asleep" THEN "wait" ELSE wpc[t]]
  /\ mpc' = "await" /\ cursor' = 0
  /\ UNCHANGED <<task, job, global_task_id, job_done, task_id, output, freed>>

NotifyAll ==
  /\ mpc = "notify"
  /\ wpc' = [t \in Threads |-> IF wpc[t] = "asleep" THEN "wait" ELSE wpc[t]]
  /\ mpc' = "await" /\ cursor' = 0
  /\ UNCHANGED <<task, job, global_task_id, job_done, task_id, output, freed>>

\* Faulty: the wait loop does not advance.
AwaitFlagStuck ==
  /\ mpc = "await" /\ cursor < NumThreads
  /\ job_done[cursor]
  /\ cursor' = cursor
  /\ UNCHANGED <<task, job, global_task_id, job_done, mpc, freed, workerVars>>

AwaitFlag ==
  /\ mpc = "await" /\ cursor < NumThreads
  /\ job_done[cursor]
  /\ cursor' = cursor + 1
  /\ UNCHANGED <<task, job, global_task_id, job_done, mpc, freed, workerVars>>

SleepMain ==
  /\ mpc = "await" /\ cursor < NumThreads
  /\ ~job_done[cursor]
  /\ mpc' = "asleep"
  /\ UNCHANGED <<task, job, global_task_id, job_done, cursor, freed, workerVars>>

\* Faulty: the wait loop leaves out the last worker.
ReturnEarly ==               \* submit_and_block returns
  /\ mpc = "await" /\ cursor + 1 >= NumThreads
  /\ task # "Exit"
  /\ mpc' = "idle"
  /\ UNCHANGED <<task, job, global_task_id, job_done, cursor, freed, workerVars>>

Return ==               \* submit_and_block returns
  /\ mpc = "await" /\ cursor = NumThreads
  /\ task # "Exit"
  /\ mpc' = "idle"
  /\ UNCHANGED <<task, job, global_task_id, job_done, cursor, freed, workerVars>>

\* Faulty: the destructor does not wait for the flags.
FreeEarly ==                 \* delete global_task_id; delete context
  /\ mpc = "await"
  /\ task = "Exit"
  /\ freed' = TRUE
  /\ mpc' = "join"
  /\ UNCHANGED <<task, job, global_task_id, job_done, cursor, workerVars>>

Free ==                 \* delete global_task_id; delete context
  /\ mpc = "await" /\ cursor = NumThreads
  /\ task = "Exit"
  /\ freed' = TRUE
  /\ mpc' = "join"
  /\ UNCHANGED <<task, job, global_task_id, job_done, cursor, workerVars>>

Join ==                 \* the jthreads are joined as members of the pool
  /\ mpc = "join"
  /\ \A t \in Threads : wpc[t] = "exited"
  /\ mpc' = "ended"
  /\ UNCHANGED <<task, job, global_task_id, job_done, cursor, freed, workerVars>>

MainStep ==
  \/ ResetFlag \/ Publish \/ NotifyAll \/ AwaitFlag \/ SleepMain
  \/ Return \/ Free \/ Join

(***************************************************************************)
(* Workers.                                                                *)
(***************************************************************************)

Wake(t) ==
  /\ wpc[t] = "wait"
  /\ global_task_id # task_id[t]
  /\ task_id' = [task_id EXCEPT ![t] = @ + 1]
  /\ wpc' = [wpc EXCEPT ![t] = "run"]
  /\ UNCHANGED <<task, job, global_task_id, job_done, output, mainVars>>

Sleep(t) ==
  /\ wpc[t] = "wait"
  /\ global_task_id = task_id[t]
  /\ wpc' = [wpc EXCEPT ![t] = "asleep"]
  /\ UNCHANGED <<task, job, global_task_id, job_done, task_id, output, mainVars>>

\* Faulty: the switch has no case for the task.
RunTaskDropped(t) ==           \* the switch over context->task
  /\ wpc[t] = "run"
  /\ \/ /\ task # "Exit"
        /\ output' = output
        /\ wpc' = [wpc EXCEPT ![t] = "store"]
     \/ /\ task = "Exit"
        /\ wpc' = [wpc EXCEPT ![t] = "storeExit"]
        /\ UNCHANGED output
  /\ UNCHANGED <<task, job, global_task_id, job_done, task_id, mainVars>>

RunTask(t) ==           \* the switch over context->task
  /\ wpc[t] = "run"
  /\ \/ /\ task # "Exit"
        /\ output' = [output EXCEPT ![t] = job]
        /\ wpc' = [wpc EXCEPT ![t] = "store"]
     \/ /\ task = "Exit"
        /\ wpc' = [wpc EXCEPT ![t] = "storeExit"]
        /\ UNCHANGED output
  /\ UNCHANGED <<task, job, global_task_id, job_done, task_id, mainVars>>

StoreDone(t) ==
  /\ wpc[t] \in {"store", "storeExit"}
  /\ job_done' = [job_done EXCEPT ![t] = TRUE]
  /\ wpc' = [wpc EXCEPT ![t] = IF @ = "store" THEN "signal" ELSE "signalExit"]
  /\ UNCHANGED <<task, job, global_task_id, task_id, output, mainVars>>

NotifyOne(t) ==         \* job_done->notify_one(), then loop or return
  /\ wpc[t] \in {"signal", "signalExit"}
  /\ mpc' = IF mpc = "asleep" /\ cursor = t THEN "await" ELSE mpc
  /\ wpc' = [wpc EXCEPT ![t] = IF @ = "signal" THEN "wait" ELSE "exited"]
  /\ UNCHANGED <<task, job, global_task_id, job_done, task_id, output, cursor, freed>>

Worker(t) == Wake(t) \/ Sleep(t) \/ RunTask(t) \/ StoreDone(t) \/ NotifyOne(t)

Ended == mpc = "ended" /\ UNCHANGED vars

Next == Submit \/ Destroy \/ MainStep \/ (\E t \in Threads : Worker(t)) \/ Ended

Spec == Init /\ [][Next]_vars

\* Every thread is scheduled; nothing obliges main to submit or to destroy.
Fairness == WF_vars(MainStep) /\ \A t \in Threads : WF_vars(Worker(t))

FairSpec == Spec /\ Fairness

(***************************************************************************)
(* Properties.                                                             *)
(***************************************************************************)
\* When ~ThreadPool deletes global_task_id and the context, no worker can
\* touch either again: each is past its last read and on its way out.
NoUseAfterFree ==
  freed => \A t \in Threads : wpc[t] \in {"signalExit", "exited"}

\* When submit_and_block returns, every worker's output slice was computed
\* for this submission: no stale flag of an earlier one let main through.
ResultsComplete ==
  mpc = "idle" => \A t \in Threads : output[t] = job

\* Nobody sleeps through what it waits for: after notify_all no worker sleeps
\* on an old task id, and main sleeps on a set flag only while the worker that
\* set it is still about to call notify_one.
NoLostWakeup ==
  /\ mpc \in {"await", "asleep"} =>
       \A t \in Threads : wpc[t] = "asleep" => task_id[t] = global_task_id
  /\ mpc = "asleep" /\ cursor \in Threads /\ job_done[cursor] =>
       wpc[cursor] \in {"signal", "signalExit"}

\* The context, whose fields are plain memory, is rewritten only while no
\* worker is inside a task or already due to start one.
ContextStable ==
  [][<<task, job>>' # <<task, job>> =>
       \A t \in Threads : /\ wpc[t] \in {"wait", "asleep", "signal"}
                          /\ task_id[t] = global_task_id]_vars

\* A worker takes up every submission: it never skips an id and never runs
\* the same submission twice.
EachJobOnce ==
  [][\A t \in Threads : wpc[t] = "run" /\ wpc'[t] = "store" =>
       output[t] + 1 = output'[t]]_vars

\* Every call of submit_and_block returns; the destructor finishes.
SubmissionReturns == (mpc = "reset" /\ task = "Work") ~> (mpc = "idle")
ShutdownCompletes == (task = "Exit") ~> (mpc = "ended")

\* The pool implements the fork-join promise.  A result counts as delivered
\* once its worker's flag is up, a worker has left once it raised the flag of
\* the exit task.
FJ == INSTANCE ForkJoin WITH
        phase <- CASE mpc = "idle" -> "idle"
                   [] mpc \in {"join", "ended"} -> "closed"
                   [] OTHER -> IF task = "Exit" THEN "closing" ELSE "running",
        result <- [t \in Threads |->
                     IF task # "Exit" /\ (mpc = "reset" \/ ~job_done[t])
                     THEN 0 ELSE output[t]],
        left <- {t \in Threads : wpc[t] \in {"signalExit", "exited"}}

ImplementsForkJoin == FJ!Spec

(***************************************************************************)
(* The inductive invariant behind the safety properties.                   *)
(***************************************************************************)
\* Parked(t): worker t holds no task and will look at global_task_id next.
Parked(t) == wpc[t] \in {"wait", "asleep", "signal"}

\* The three stages of a worker while a submission is open.
Pending(t) == task_id[t] + 1 = global_task_id /\ ~job_done[t] /\ Parked(t)
Running(t) ==
  /\ task_id[t] = global_task_id /\ ~job_done[t]
  /\ \/ wpc[t] = "run"
     \/ wpc[t] = "store" /\ task = "Work" /\ output[t] = job
     \/ wpc[t] = "storeExit" /\ task = "Exit"
Delivered(t) ==
  /\ task_id[t] = global_task_id /\ job_done[t]
  /\ \/ task = "Work" /\ output[t] = job /\ Parked(t)
     \/ task = "Exit" /\ wpc[t] \in {"signalExit", "exited"}

\* Main's position fixes where the workers can be: between submissions all
\* are parked, during one each is pending, running or delivered, and the
\* flags main has already passed stay up.
Phases ==
  /\ mpc = "idle" => /\ task # "Exit"
                     /\ \A t \in Threads : job_done[t] /\ output[t] = job
  /\ mpc = "reset" => /\ task # "Nop"
                      /\ \A t \in Threads : t < cursor <=> ~job_done[t]
                      /\ task = "Work" => job > 0
                      /\ \A t \in Threads :
                           output[t] = IF task = "Work" THEN job - 1 ELSE job
  /\ mpc \in {"idle", "reset"} =>
       \A t \in Threads : task_id[t] = global_task_id /\ Parked(t)
  /\ mpc \in {"notify", "await", "asleep"} =>
       /\ task # "Nop"
       /\ task = "Work" => job > 0
       /\ \A t \in Threads : Pending(t) \/ Running(t) \/ Delivered(t)
       /\ \A t \in Threads : Pending(t) \/ (Running(t) /\ wpc[t] = "run")
            => output[t] = IF task = "Work" THEN job - 1 ELSE job
  /\ mpc \in {"await", "asleep"} => \A t \in Threads : t < cursor => job_done[t]
  /\ mpc = "asleep" => cursor \in Threads
  /\ mpc \in {"join", "ended"} => task = "Exit"
  /\ mpc = "ended" => \A t \in Threads : wpc[t] = "exited"
  /\ freed <=> mpc \in {"join", "ended"}

\* The strengthening that is preserved by every step.
IInv == TypeOK /\ Phases /\ NoUseAfterFree /\ NoLostWakeup
=============================================================================
