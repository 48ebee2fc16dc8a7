----------------------------- MODULE WorkSharing -----------------------------
(***************************************************************************)
(* executor_t<work_sharing>: a central queue of jobs under a mutex and a    *)
(* condition variable, the worker threads that take jobs from it, and the   *)
(* thread that calls start() and stop().                                    *)
(*                                                                         *)
(* A critical section of the queue's lock is one step: the lock is never    *)
(* held across anything else, and cv.wait gives it up.  What the stopping   *)
(* thread does to last_worker outside shutdown_helper::mtx has steps of its *)
(* own.                                                                     *)
(*                                                                         *)
(* A job stands for one reference handed to execute(): the executor runs it *)
(* until it does not ask to be resumed, then gives the reference back.      *)
(***************************************************************************)
EXTENDS Naturals, Sequences, FiniteSets, Functions

CONSTANTS
  Workers,  \* the worker threads
  Jobs,     \* what the users of the executor hand over
  Helper,   \* stop()'s shutdown_helper
  NoJob,    \* a worker that holds no job
  NoWorker  \* last_worker == nullptr

ASSUME SetsAssumption ==
  /\ IsFiniteSet(Workers) /\ IsFiniteSet(Jobs)
  /\ Helper \notin Jobs /\ NoJob \notin Jobs \cup {Helper}
  /\ NoWorker \notin Workers

VARIABLES
  queue,        \* coordinator_data::queue
  wpc,          \* where each worker thread is
  job,          \* worker::run's local job
  handed,       \* history: the jobs that were handed to execute()
  released,     \* history: how often each job's reference was given back
  spc,          \* where the thread that starts and stops the executor is
  alive,        \* stop()'s local alive_workers
  last_worker   \* shutdown_helper::last_worker

vars == <<queue, wpc, job, handed, released, spc, alive, last_worker>>
control == <<spc, alive, last_worker>>

Executables == Jobs \cup {Helper}
WorkPCs == {"new", "dequeue", "waiting", "run", "leaving", "exited"}
StopPCs == {"start", "up", "enqueue", "await", "asleep", "erase", "reset",
            "join", "cleanup", "stopped"}

Init ==
  /\ queue = <<>>
  /\ wpc = [w \in Workers |-> "new"]
  /\ job = [w \in Workers |-> NoJob]
  /\ handed = {}
  /\ released = [j \in Jobs |-> 0]
  /\ spc = "start"
  /\ alive = {} /\ last_worker = NoWorker

Waiting == {w \in Workers : wpc[w] = "waiting"}

-----------------------------------------------------------------------------
(* work_sharing                                                             *)

\* cv.notify_one() in state pcs: one of the waiting workers, if there is
\* any, goes back to take the lock and to look at the queue.
NotifyOne(pcs) ==
  LET asleep == {w \in Workers : pcs[w] = "waiting"}
  IN  IF asleep = {} THEN {pcs}
      ELSE {[pcs EXCEPT ![w] = "dequeue"] : w \in asleep}

\* Mutated: the notification is sent only when the queue was empty.
EnqueueNotifiesFirst(e, pcs) ==
  /\ queue' = Append(queue, e)
  /\ IF queue = <<>> THEN wpc' \in NotifyOne(pcs) ELSE wpc' = pcs

\* Mutated: the job is put in front.
EnqueueFront(e, pcs) ==
  /\ queue' = <<e>> \o queue
  /\ wpc' \in NotifyOne(pcs)

\* enqueue: pcs is where the workers are but for the notification.
Enqueue(e, pcs) ==
  /\ queue' = Append(queue, e)
  /\ wpc' \in NotifyOne(pcs)

\* executor_t::execute and worker::execute, from any thread.
Execute(j) ==
  /\ j \notin handed /\ spc # "stopped"
  /\ handed' = handed \cup {j}
  /\ Enqueue(j, wpc)
  /\ UNCHANGED <<job, released, control>>

\* dequeue, when the queue has a job.
Dequeue(w) ==
  /\ wpc[w] = "dequeue" /\ queue # <<>>
  /\ job' = [job EXCEPT ![w] = Head(queue)]
  /\ queue' = Tail(queue)
  /\ wpc' = [wpc EXCEPT ![w] = "run"]
  /\ UNCHANGED <<handed, released, control>>

\* dequeue, when there is none: cv.wait.
Wait(w) ==
  /\ wpc[w] = "dequeue" /\ queue = <<>>
  /\ wpc' = [wpc EXCEPT ![w] = "waiting"]
  /\ UNCHANGED <<queue, job, handed, released, control>>

\* cv.wait may return without a notification.
SpuriousWakeup(w) ==
  /\ wpc[w] = "waiting"
  /\ wpc' = [wpc EXCEPT ![w] = "dequeue"]
  /\ UNCHANGED <<queue, job, handed, released, control>>

-----------------------------------------------------------------------------
(* worker::run                                                              *)

Done(w) == [wpc EXCEPT ![w] = "dequeue"]

\* Mutated: the resumed job goes before the others.
ResumeFirst(w) ==
  /\ wpc[w] = "run" /\ job[w] \in Jobs
  /\ queue' = <<job[w]>> \o queue
  /\ wpc' \in NotifyOne(Done(w))
  /\ job' = [job EXCEPT ![w] = NoJob]
  /\ UNCHANGED <<handed, released, control>>

\* The job returned resume: resume_job_later.
Resume(w) ==
  /\ wpc[w] = "run" /\ job[w] \in Jobs
  /\ Enqueue(job[w], Done(w))
  /\ job' = [job EXCEPT ![w] = NoJob]
  /\ UNCHANGED <<handed, released, control>>

\* Mutated: the job is resumed and released.
ReleaseAndResume(w) ==
  /\ wpc[w] = "run" /\ job[w] \in Jobs
  /\ Enqueue(job[w], Done(w))
  /\ job' = [job EXCEPT ![w] = NoJob]
  /\ released' = [released EXCEPT ![job[w]] = @ + 1]
  /\ UNCHANGED <<handed, control>>

\* The job returned done or awaiting: intrusive_ptr_release(job).
Release(w) ==
  /\ wpc[w] = "run" /\ job[w] \in Jobs
  /\ wpc' = Done(w)
  /\ job' = [job EXCEPT ![w] = NoJob]
  /\ released' = [released EXCEPT ![job[w]] = @ + 1]
  /\ UNCHANGED <<queue, handed, control>>

\* Mutated: the helper notes itself and not the device it runs on.
RunHelperNotesItself(w) ==
  /\ wpc[w] = "run" /\ job[w] = Helper
  /\ last_worker' = Helper
  /\ spc' = IF spc = "asleep" THEN "await" ELSE spc
  /\ wpc' = [wpc EXCEPT ![w] = "leaving"]
  /\ UNCHANGED <<queue, job, handed, released, alive>>

\* shutdown_helper::run, a critical section of its mutex.  The notify_all
\* wakes the stopping thread if it sleeps.
RunHelper(w) ==
  /\ wpc[w] = "run" /\ job[w] = Helper
  /\ last_worker' = w
  /\ spc' = IF spc = "asleep" THEN "await" ELSE spc
  /\ wpc' = [wpc EXCEPT ![w] = "leaving"]
  /\ UNCHANGED <<queue, job, handed, released, alive>>

\* The job returned shutdown: the thread ends.
Leave(w) ==
  /\ wpc[w] = "leaving"
  /\ wpc' = [wpc EXCEPT ![w] = "exited"]
  /\ job' = [job EXCEPT ![w] = NoJob]
  /\ UNCHANGED <<queue, handed, released, control>>

-----------------------------------------------------------------------------
(* executor_t::start and executor_t::stop                                   *)

\* worker::start for the next worker that has no thread yet.
Start(w) ==
  /\ spc = "start" /\ wpc[w] = "new"
  /\ wpc' = [wpc EXCEPT ![w] = "dequeue"]
  /\ UNCHANGED <<queue, job, handed, released, control>>

StartReturns ==
  /\ spc = "start" /\ \A w \in Workers : wpc[w] # "new"
  /\ spc' = "up"
  /\ UNCHANGED <<queue, wpc, job, handed, released, alive, last_worker>>

NextRound(left) == IF left = {} THEN "join" ELSE "enqueue"

StopCalled ==
  /\ spc = "up"
  /\ alive' = Workers
  /\ spc' = NextRound(Workers)
  /\ UNCHANGED <<queue, wpc, job, handed, released, last_worker>>

\* Mutated: all helpers are enqueued at once.
EnqueueAllHelpers ==
  /\ spc = "enqueue"
  /\ queue' = queue \o [i \in 1..Cardinality(alive) |-> Helper]
  /\ wpc' = [w \in Workers |-> IF wpc[w] = "waiting" THEN "dequeue" ELSE wpc[w]]
  /\ spc' = "await"
  /\ UNCHANGED <<job, handed, released, alive, last_worker>>

\* (*alive_workers.begin())->external_enqueue(&sh): whoever it is called on,
\* the helper goes to the central queue.
EnqueueHelper ==
  /\ spc = "enqueue"
  /\ Enqueue(Helper, wpc)
  /\ spc' = "await"
  /\ UNCHANGED <<job, handed, released, alive, last_worker>>

\* sh.cv.wait(guard, last_worker != nullptr)
AwaitHelper ==
  /\ spc = "await"
  /\ spc' = IF last_worker # NoWorker THEN "erase" ELSE "asleep"
  /\ UNCHANGED <<queue, wpc, job, handed, released, alive, last_worker>>

\* sh.cv.wait may return without a notification and looks again.
StopSpuriousWakeup ==
  /\ spc = "asleep"
  /\ spc' = "await"
  /\ UNCHANGED <<queue, wpc, job, handed, released, alive, last_worker>>

\* Mutated: the worker that was asked is erased, not the one that answered.
EraseAskedWorker ==
  /\ spc = "erase"
  /\ alive' = alive \ {CHOOSE w \in alive : TRUE}
  /\ spc' = "reset"
  /\ UNCHANGED <<queue, wpc, job, handed, released, last_worker>>

\* alive_workers.erase(sh.last_worker), without the mutex
EraseWorker ==
  /\ spc = "erase"
  /\ alive' = alive \ {last_worker}
  /\ spc' = "reset"
  /\ UNCHANGED <<queue, wpc, job, handed, released, last_worker>>

\* sh.last_worker = nullptr, without the mutex
ResetLastWorker ==
  /\ spc = "reset"
  /\ last_worker' = NoWorker
  /\ spc' = NextRound(alive)
  /\ UNCHANGED <<queue, wpc, job, handed, released, alive>>

\* Mutated: the threads are not joined.
JoinNobody ==
  /\ spc = "join"
  /\ spc' = "cleanup"
  /\ UNCHANGED <<queue, wpc, job, handed, released, alive, last_worker>>

Join ==
  /\ spc = "join" /\ \A w \in Workers : wpc[w] = "exited"
  /\ spc' = "cleanup"
  /\ UNCHANGED <<queue, wpc, job, handed, released, alive, last_worker>>

\* cleanup_and_release on each of the executables es: its dummy_unit never
\* gets a job, so all that happens is the release.
CleanupAndRelease(es) ==
  released' = [j \in Jobs |-> IF j \in es THEN released[j] + 1 ELSE released[j]]

\* foreach_central_resumable(cleanup_and_release), then stop returns
Cleanup ==
  /\ spc = "cleanup"
  /\ CleanupAndRelease(Range(queue))
  /\ queue' = <<>>
  /\ spc' = "stopped"
  /\ UNCHANGED <<wpc, job, handed, alive, last_worker>>

-----------------------------------------------------------------------------

WorkerStep(w) ==
  \/ Dequeue(w) \/ Wait(w) \/ Resume(w) \/ Release(w)
  \/ RunHelper(w) \/ Leave(w)

\* What start and stop do once they have been called.
ControlStep ==
  \/ \E w \in Workers : Start(w)
  \/ StartReturns \/ EnqueueHelper \/ AwaitHelper \/ EraseWorker
  \/ ResetLastWorker \/ Join \/ Cleanup

Stopped == spc = "stopped" /\ UNCHANGED vars

Next ==
  \/ \E j \in Jobs : Execute(j)
  \/ \E w \in Workers : WorkerStep(w) \/ SpuriousWakeup(w)
  \/ ControlStep \/ StopCalled \/ StopSpuriousWakeup
  \/ Stopped

Spec == Init /\ [][Next]_vars

\* Threads are kept running and every run of a job returns; nobody has to
\* call execute or stop.
FairSpec ==
  /\ Spec
  /\ \A w \in Workers : WF_vars(WorkerStep(w))
  /\ WF_vars(ControlStep)

-----------------------------------------------------------------------------
(* Properties.                                                              *)

\* Every variable keeps its type: the queue holds only jobs and the helper,
\* and what the helper notes as last_worker is a worker.
TypeOK ==
  /\ queue \in Seq(Executables)
  /\ wpc \in [Workers -> WorkPCs]
  /\ job \in [Workers -> Executables \cup {NoJob}]
  /\ handed \subseteq Jobs
  /\ released \in [Jobs -> Nat]
  /\ spc \in StopPCs
  /\ alive \subseteq Workers
  /\ last_worker \in Workers \cup {NoWorker}

Looking == {w \in Workers : wpc[w] = "dequeue"}

\* No wakeup is lost: while a worker sleeps, there is a worker on its way to
\* the queue for every job in it.
WorkConserving ==
  Waiting # {} => Len(queue) <= Cardinality(Looking)

\* Where an executable is.
InQueue(e) == {i \in DOMAIN queue : queue[i] = e}
InHands(e) == {w \in Workers : job[w] = e}

\* A job that was handed over is at one place: once in the queue, in the
\* hands of one worker, or given back once.  None is run twice at a time,
\* forgotten, or released while it still can be run.
JobAtOnePlace ==
  \A j \in Jobs :
    Cardinality(InQueue(j)) + Cardinality(InHands(j)) + released[j]
      = IF j \in handed THEN 1 ELSE 0

\* The stopping thread reads and clears last_worker without the mutex: no
\* worker can be about to write it then.
UnlockedAccessIsSafe ==
  spc \in {"erase", "reset"} =>
    InQueue(Helper) = {} /\ \A w \in Workers : ~(wpc[w] = "run" /\ job[w] = Helper)

\* Every round of stop ends one more worker: the one it erases was still in
\* alive_workers, and those not in it have run the helper.
RoundsCountWorkers ==
  /\ spc = "erase" => last_worker \in alive
  /\ spc \in {"enqueue", "join"} =>
       \A w \in Workers : w \notin alive <=> wpc[w] \in {"leaving", "exited"}

\* When stop returns no thread is left that could touch the executor or the
\* helper on stop's stack, and every job handed over was released.
StopIsClean ==
  spc = "stopped" =>
    /\ \A w \in Workers : wpc[w] = "exited"
    /\ \A j \in handed : released[j] = 1

\* stop returns, even if jobs ask to be resumed for ever.
StopReturns == spc = "enqueue" ~> spc = "stopped"

\* A job in the queue gets its turn.
JobGetsTurn ==
  \A j \in Jobs : InQueue(j) # {} ~> InQueue(j) = {}
=============================================================================
