----------------------------- MODULE AsyncJobs -----------------------------
(***************************************************************************)
(* AsyncEngine (script/cpp_api/s_async.cpp): Lua queues jobs, workers take *)
(* them by a semaphore and a mutex, run them, and put the results where    *)
(* the environment's step finds them and calls the job's callback.  The    *)
(* callbacks are kept in Lua, by job id (builtin/game/async.lua).          *)
(***************************************************************************)
EXTENDS Naturals, FiniteSets, SequencesExt

CONSTANTS
  Workers,        \* worker threads that may be started
  MaxJobs,        \* bound: jobs ever queued
  NoJob

ASSUME AsyncAssumption ==
  IsFiniteSet(Workers) /\ MaxJobs \in Nat /\ NoJob \notin 1..MaxJobs

Jobs == 1..MaxJobs

VARIABLES
  jobIdCounter, jobQueue,
  jobQueueCounter,      \* the semaphore
  resultQueue,
  workerPc, workerJob,  \* each AsyncWorkerThread, and its job
  autoscaleSeenJobs, autoscaleTimer,
  engine,               \* up; the destructor: stopping, posted, joined
  async_jobs,           \* core.async_jobs: the jobs with a callback
  queueing,             \* the job whose callback core.handle_async() stores next
  ran, called, cancelled   \* what became of each job

asyncVars == <<jobIdCounter, jobQueue, jobQueueCounter, resultQueue, workerPc,
               workerJob, autoscaleSeenJobs, autoscaleTimer, engine, async_jobs,
               queueing, ran, called, cancelled>>

queueVars == <<jobIdCounter, jobQueue, jobQueueCounter>>
scaleVars == <<autoscaleSeenJobs, autoscaleTimer>>
luaVars   == <<async_jobs, queueing, called, cancelled>>
workVars  == <<workerPc, workerJob, ran>>

(* initialize(0) starts one worker.                                        *)
AsyncInit ==
  /\ jobIdCounter = 0 /\ jobQueue = <<>> /\ jobQueueCounter = 0 /\ resultQueue = <<>>
  /\ \E w \in Workers :
       workerPc = [v \in Workers |-> IF v = w THEN "loop" ELSE "none"]
  /\ workerJob = [w \in Workers |-> NoJob]
  /\ autoscaleSeenJobs = {} /\ autoscaleTimer = FALSE
  /\ engine = "up" /\ async_jobs = {} /\ queueing = NoJob
  /\ ran = [j \in Jobs |-> 0] /\ called = [j \in Jobs |-> 0] /\ cancelled = {}

(* Mutant: no script lock.                                                 *)
LuaIsUp == engine = "up"

(* Lua runs under the script lock: what it does comes one after the other. *)
LuaIsFree == queueing = NoJob /\ engine = "up"

(* Mutant: a post only for the first job in an empty queue.                *)
PostedFirst == IF jobQueue = <<>> THEN jobQueueCounter + 1 ELSE jobQueueCounter

Posted == jobQueueCounter + 1

(* core.handle_async(): queueAsyncJob(), then the callback is stored.      *)
QueueAsyncJob ==
  /\ LuaIsFree /\ jobIdCounter < MaxJobs
  /\ LET id == jobIdCounter + 1 IN
       /\ jobIdCounter' = id
       /\ jobQueue' = Append(jobQueue, id)
       /\ jobQueueCounter' = Posted
       /\ queueing' = id
  /\ UNCHANGED <<resultQueue, workVars, scaleVars, engine, async_jobs, called, cancelled>>

StoreCallback ==
  /\ queueing # NoJob
  /\ async_jobs' = async_jobs \union {queueing}
  /\ queueing' = NoJob
  /\ UNCHANGED <<queueVars, resultQueue, workVars, scaleVars, engine, called, cancelled>>

(* Mutant: the oldest job goes instead.                                    *)
WithoutOldest(j) == Tail(jobQueue)

Without(j) == RemoveAt(jobQueue, CHOOSE i \in DOMAIN jobQueue : jobQueue[i] = j)

(* AsyncJob:cancel() of a job that is still in the queue.  The semaphore   *)
(* keeps its count.                                                        *)
CancelAsyncJob(j) ==
  /\ LuaIsFree
  /\ j \in Range(jobQueue)
  /\ jobQueue' = Without(j)
  /\ async_jobs' = async_jobs \ {j}
  /\ cancelled' = cancelled \union {j}
  /\ UNCHANGED <<jobIdCounter, jobQueueCounter, resultQueue, workVars,
                 scaleVars, engine, queueing, called>>

(* stepJobResults(): one result, and the callback that goes with it.       *)
StepJobResult ==
  /\ LuaIsFree /\ resultQueue # <<>>
  /\ resultQueue' = Tail(resultQueue)
  /\ called' = [called EXCEPT ![Head(resultQueue)] = @ + 1]
  /\ async_jobs' = async_jobs \ {Head(resultQueue)}
  /\ UNCHANGED <<queueVars, workVars, scaleVars, engine, queueing, cancelled>>

(* stepAutoscale(): the jobs that wait are noted; those that still wait    *)
(* when the timer has run out each start a worker, while there may be more.*)
NoteWaiting ==
  /\ LuaIsFree /\ ~ autoscaleTimer /\ jobQueue # <<>>
  /\ \E w \in Workers : workerPc[w] = "none"
  /\ autoscaleSeenJobs' = Range(jobQueue) /\ autoscaleTimer' = TRUE
  /\ UNCHANGED <<queueVars, resultQueue, workVars, engine, luaVars>>

AddWorkers ==
  /\ LuaIsFree /\ autoscaleTimer
  /\ \E w \in Workers : workerPc[w] = "none"
  /\ \E new \in SUBSET {w \in Workers : workerPc[w] = "none"} :
       /\ Cardinality(new) = Min({Cardinality(Range(jobQueue) \intersect autoscaleSeenJobs),
                                  Cardinality({w \in Workers : workerPc[w] = "none"})})
       /\ workerPc' = [w \in Workers |-> IF w \in new THEN "loop" ELSE workerPc[w]]
  /\ autoscaleTimer' = FALSE
  /\ UNCHANGED <<queueVars, resultQueue, workerJob, ran, autoscaleSeenJobs, engine, luaVars>>

(***************************************************************************)
(* A worker: AsyncWorkerThread::run() and getJob().                        *)
(***************************************************************************)

Advance(w, from, to) == workerPc[w] = from /\ workerPc' = [workerPc EXCEPT ![w] = to]

(* stop() has been called for every worker at once, in the destructor.     *)
StopRequested == engine # "up"

WorkerLoop(w) ==
  /\ Advance(w, "loop", IF StopRequested THEN "ended" ELSE "wait")
  /\ UNCHANGED <<queueVars, resultQueue, workerJob, ran, scaleVars, engine, luaVars>>

WaitForJob(w) ==
  /\ jobQueueCounter > 0
  /\ Advance(w, "wait", "woken")
  /\ jobQueueCounter' = jobQueueCounter - 1
  /\ UNCHANGED <<jobIdCounter, jobQueue, resultQueue, workerJob, ran, scaleVars, engine, luaVars>>

(* The queue may be empty by now: the job was cancelled.                   *)
TakeJob(w) ==
  /\ Advance(w, "woken", IF jobQueue # <<>> THEN "got" ELSE "loop")
  /\ IF jobQueue # <<>>
     THEN /\ workerJob' = [workerJob EXCEPT ![w] = Head(jobQueue)]
          /\ jobQueue' = Tail(jobQueue)
     ELSE UNCHANGED <<workerJob, jobQueue>>
  /\ UNCHANGED <<jobIdCounter, jobQueueCounter, resultQueue, ran, scaleVars, engine, luaVars>>

RunJob(w) ==
  /\ Advance(w, "got", IF StopRequested THEN "loop" ELSE "run")
  /\ ran' = IF StopRequested THEN ran ELSE [ran EXCEPT ![workerJob[w]] = @ + 1]
  /\ UNCHANGED <<queueVars, resultQueue, workerJob, scaleVars, engine, luaVars>>

(* The job is done; one that ended in a Lua error has no result.           *)
PutJobResult(w) ==
  /\ Advance(w, "run", "loop")
  /\ workerJob' = [workerJob EXCEPT ![w] = NoJob]
  /\ resultQueue' \in {resultQueue, Append(resultQueue, workerJob[w])}
  /\ UNCHANGED <<queueVars, ran, scaleVars, engine, luaVars>>

(***************************************************************************)
(* The destructor: stop all workers, post once for each, and wait for all. *)
(***************************************************************************)

Started == {w \in Workers : workerPc[w] # "none"}

Posts == jobQueueCounter + Cardinality(Started)

StopWorkers ==
  /\ LuaIsFree /\ engine' = "stopping"
  /\ UNCHANGED <<queueVars, resultQueue, workVars, scaleVars, luaVars>>

PostForEach ==
  /\ engine = "stopping" /\ engine' = "posted"
  /\ jobQueueCounter' = Posts
  /\ UNCHANGED <<jobIdCounter, jobQueue, resultQueue, workVars, scaleVars, luaVars>>

JoinWorkers ==
  /\ engine = "posted" /\ \A w \in Started : workerPc[w] = "ended"
  /\ engine' = "joined" /\ jobQueue' = <<>>
  /\ UNCHANGED <<jobIdCounter, jobQueueCounter, resultQueue, workVars, scaleVars, luaVars>>

AsyncNext ==
  \/ QueueAsyncJob \/ StoreCallback \/ StepJobResult \/ NoteWaiting \/ AddWorkers
  \/ \E j \in Jobs : CancelAsyncJob(j)
  \/ \E w \in Workers : \/ WorkerLoop(w) \/ WaitForJob(w) \/ TakeJob(w)
                        \/ RunJob(w) \/ PutJobResult(w)
  \/ StopWorkers \/ PostForEach \/ JoinWorkers

AsyncSpec == AsyncInit /\ [][AsyncNext]_asyncVars

(***************************************************************************)
(* Properties.                                                             *)
(***************************************************************************)

(* "A job can only be cancelled if it has not started" (doc/lua_api.md):   *)
(* a cancelled job neither runs nor calls back, and every other one runs   *)
(* and calls back at most once, in this order.                             *)
CancelledNeverRuns == \A j \in Jobs :
  /\ called[j] <= ran[j] /\ ran[j] <= 1
  /\ j \in cancelled => ran[j] = 0

(* A result that is handed to Lua finds its callback: async_event_handler  *)
(* asserts it, though the job may be done before the callback is stored.   *)
CallbackStored == LuaIsFree => Range(resultQueue) \subseteq async_jobs

(* No job waits while every worker sleeps: what is in the queue is covered *)
(* by the semaphore or by a worker it has woken; cancelling leaves the     *)
(* count too high, never too low.  Nor does the destructor hang: once it   *)
(* has posted, the semaphore lets every worker pass that waits on it or    *)
(* may still do so.                                                        *)
WakeupForEach ==
  /\ engine = "up" =>
       Len(jobQueue) <= jobQueueCounter + Cardinality({w \in Workers : workerPc[w] = "woken"})
  /\ engine = "posted" =>
       Cardinality({w \in Workers : workerPc[w] = "wait"}) <= jobQueueCounter
=============================================================================
