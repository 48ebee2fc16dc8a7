-------------------------- MODULE WorkSharingProofs --------------------------
(***************************************************************************)
(* Theorems about WorkSharing, for every finite number of workers and of    *)
(* jobs.                                                                    *)
(***************************************************************************)
EXTENDS WorkSharing, FiniteSetTheorems, SequenceTheorems, TLAPS

USE DEF Executables, WorkPCs, StopPCs, control

-----------------------------------------------------------------------------
(* Types                                                                    *)

\* What notify_one may do to the workers' places: nothing when nobody sleeps,
\* otherwise one sleeper is on its way to the queue.
LEMMA NotifyEffect ==
  ASSUME NEW pcs \in [Workers -> WorkPCs], NEW new \in NotifyOne(pcs)
  PROVE  /\ new \in [Workers -> WorkPCs]
         /\ \/ new = pcs /\ \A w \in Workers : pcs[w] # "waiting"
            \/ \E w \in Workers : pcs[w] = "waiting" /\ new = [pcs EXCEPT ![w] = "dequeue"]
BY DEF NotifyOne

\* ... and so every worker stays where it is or wakes up.
LEMMA NotifyMoves ==
  ASSUME NEW pcs \in [Workers -> WorkPCs], NEW new \in NotifyOne(pcs), NEW w \in Workers
  PROVE  new[w] = pcs[w] \/ (pcs[w] = "waiting" /\ new[w] = "dequeue")
BY NotifyEffect

\* A worker that has finished a job is where a worker can be.
LEMMA DoneType ==
  ASSUME TypeOK, NEW w \in Workers
  PROVE  Done(w) \in [Workers -> WorkPCs]
BY DEF TypeOK, Done

\* A worker holds an executable while it runs it, the helper also while it
\* leaves, and nothing otherwise.
HandsOK ==
  \A w \in Workers :
    /\ wpc[w] = "run" => job[w] \in Executables
    /\ wpc[w] = "leaving" => job[w] = Helper
    /\ wpc[w] \notin {"run", "leaving"} => job[w] = NoJob

ShapeInv == TypeOK /\ HandsOK

LEMMA ShapeInit == Init => ShapeInv
<1> SUFFICES ASSUME Init PROVE ShapeInv
  OBVIOUS
<1>1. <<>> \in Seq(Executables)
  OBVIOUS
<1> QED BY <1>1, SetsAssumption DEF Init, ShapeInv, TypeOK, HandsOK

\* Handing an executable to the queue keeps the shape.
LEMMA EnqueueShape ==
  ASSUME ShapeInv, NEW e \in Executables, NEW pcs \in [Workers -> WorkPCs],
         Enqueue(e, pcs)
  PROVE  /\ queue' \in Seq(Executables)
         /\ wpc' \in [Workers -> WorkPCs]
         /\ \A w \in Workers :
              wpc'[w] = pcs[w] \/ (pcs[w] = "waiting" /\ wpc'[w] = "dequeue")
BY NotifyEffect, NotifyMoves DEF Enqueue, ShapeInv, TypeOK

\* Every step of a worker keeps the shape.
LEMMA ShapeWorker ==
  ASSUME ShapeInv, NEW w \in Workers, WorkerStep(w) \/ SpuriousWakeup(w)
  PROVE  ShapeInv'
<1> USE DEF ShapeInv
<1>1. CASE Dequeue(w)
  <2>1. Head(queue) \in Executables /\ Tail(queue) \in Seq(Executables)
    BY <1>1 DEF Dequeue, TypeOK
  <2> QED BY <1>1, <2>1 DEF Dequeue, TypeOK, HandsOK
<1>2. CASE Wait(w)
  BY <1>2 DEF Wait, TypeOK, HandsOK
<1>3. CASE Resume(w)
  <2>1. job[w] \in Executables /\ Enqueue(job[w], Done(w))
    BY <1>3 DEF Resume
  <2>2. /\ queue' \in Seq(Executables) /\ wpc' \in [Workers -> WorkPCs]
        /\ \A x \in Workers :
             wpc'[x] = Done(w)[x] \/ (Done(w)[x] = "waiting" /\ wpc'[x] = "dequeue")
    BY <2>1, DoneType, EnqueueShape
  <2> QED BY <1>3, <2>2 DEF Resume, Done, TypeOK, HandsOK
<1>4. CASE Release(w)
  BY <1>4 DEF Release, Done, TypeOK, HandsOK
<1>5. CASE RunHelper(w)
  BY <1>5 DEF RunHelper, TypeOK, HandsOK
<1>6. CASE Leave(w)
  BY <1>6 DEF Leave, TypeOK, HandsOK
<1>7. CASE SpuriousWakeup(w)
  BY <1>7 DEF SpuriousWakeup, TypeOK, HandsOK
<1> QED BY <1>1, <1>2, <1>3, <1>4, <1>5, <1>6, <1>7 DEF WorkerStep

\* So does every step of start and stop.
LEMMA ShapeControl ==
  ASSUME ShapeInv, ControlStep \/ StopCalled \/ StopSpuriousWakeup
  PROVE  ShapeInv'
<1> USE DEF ShapeInv
<1>1. ASSUME NEW w \in Workers, Start(w) PROVE ShapeInv'
  BY <1>1 DEF Start, TypeOK, HandsOK
<1>2. CASE StartReturns
  BY <1>2 DEF StartReturns, TypeOK, HandsOK
<1>3. CASE EnqueueHelper
  <2>1. Enqueue(Helper, wpc) /\ wpc \in [Workers -> WorkPCs]
    BY <1>3 DEF EnqueueHelper, TypeOK
  <2>2. /\ queue' \in Seq(Executables) /\ wpc' \in [Workers -> WorkPCs]
        /\ \A x \in Workers :
             wpc'[x] = wpc[x] \/ (wpc[x] = "waiting" /\ wpc'[x] = "dequeue")
    BY <2>1, EnqueueShape
  <2> QED BY <1>3, <2>2 DEF EnqueueHelper, TypeOK, HandsOK
<1>4. CASE AwaitHelper
  BY <1>4 DEF AwaitHelper, TypeOK, HandsOK
<1>5. CASE EraseWorker
  BY <1>5 DEF EraseWorker, TypeOK, HandsOK
<1>6. CASE ResetLastWorker
  BY <1>6 DEF ResetLastWorker, NextRound, TypeOK, HandsOK
<1>7. CASE Join
  BY <1>7 DEF Join, TypeOK, HandsOK
<1>8. CASE Cleanup
  BY <1>8 DEF Cleanup, CleanupAndRelease, TypeOK, HandsOK
<1>9. CASE StopCalled
  BY <1>9 DEF StopCalled, NextRound, TypeOK, HandsOK
<1>10. CASE StopSpuriousWakeup
  BY <1>10 DEF StopSpuriousWakeup, TypeOK, HandsOK
<1> QED BY <1>1, <1>2, <1>3, <1>4, <1>5, <1>6, <1>7, <1>8, <1>9, <1>10 DEF ControlStep

LEMMA ShapeNext == ShapeInv /\ [Next]_vars => ShapeInv'
<1> SUFFICES ASSUME ShapeInv, [Next]_vars PROVE ShapeInv'
  OBVIOUS
<1>1. ASSUME NEW j \in Jobs, Execute(j) PROVE ShapeInv'
  <2>1. Enqueue(j, wpc) /\ wpc \in [Workers -> WorkPCs]
    BY <1>1 DEF Execute, ShapeInv, TypeOK
  <2>2. /\ queue' \in Seq(Executables) /\ wpc' \in [Workers -> WorkPCs]
        /\ \A x \in Workers :
             wpc'[x] = wpc[x] \/ (wpc[x] = "waiting" /\ wpc'[x] = "dequeue")
    BY <2>1, EnqueueShape
  <2> QED BY <1>1, <2>2 DEF Execute, ShapeInv, TypeOK, HandsOK
<1>2. CASE UNCHANGED vars
  BY <1>2 DEF vars, ShapeInv, TypeOK, HandsOK
<1> QED BY <1>1, <1>2, ShapeWorker, ShapeControl DEF Next, Stopped

LEMMA ShapeAlways == Spec => []ShapeInv
BY ShapeInit, ShapeNext, PTL DEF Spec

\* The queue holds only jobs and the helper, and a worker that takes the
\* helper is what last_worker names.
THEOREM TypeCorrect == Spec => []TypeOK
<1>1. ShapeInv => TypeOK
  BY DEF ShapeInv
<1> QED BY <1>1, ShapeAlways, PTL

-----------------------------------------------------------------------------
(* Jobs                                                                     *)

\* JobAtOnePlace without counting: no job is twice in the queue, twice in
\* hands, or in both; those given back are in neither, and were given back
\* once; those handed over and not given back are somewhere.
PlacesInv ==
  /\ \A i, k \in DOMAIN queue : queue[i] \in Jobs /\ queue[i] = queue[k] => i = k
  /\ \A w, x \in Workers : job[w] \in Jobs /\ job[w] = job[x] => w = x
  /\ \A i \in DOMAIN queue, w \in Workers : queue[i] \in Jobs => queue[i] # job[w]
  /\ \A i \in DOMAIN queue :
       queue[i] \in Jobs => queue[i] \in handed /\ released[queue[i]] = 0
  /\ \A w \in Workers : job[w] \in Jobs => job[w] \in handed /\ released[job[w]] = 0
  /\ \A j \in Jobs : j \notin handed => released[j] = 0
  /\ \A j \in handed :
       \/ \E i \in DOMAIN queue : queue[i] = j
       \/ \E w \in Workers : job[w] = j
       \/ released[j] = 1

\* The positions of a queue after Append and after Tail.
LEMMA AppendPlaces ==
  ASSUME NEW S, NEW q \in Seq(S), NEW e \in S
  PROVE  /\ DOMAIN Append(q, e) = DOMAIN q \cup {Len(q) + 1}
         /\ Len(q) + 1 \notin DOMAIN q
         /\ Append(q, e)[Len(q) + 1] = e
         /\ \A i \in DOMAIN q : Append(q, e)[i] = q[i]
BY AppendProperties, LenProperties

LEMMA TailPlaces ==
  ASSUME NEW S, NEW q \in Seq(S), q # <<>>
  PROVE  /\ 1 \in DOMAIN q /\ Head(q) = q[1]
         /\ \A i \in DOMAIN Tail(q) :
              i + 1 \in DOMAIN q /\ i + 1 # 1 /\ Tail(q)[i] = q[i + 1]
         /\ \A i \in DOMAIN q : i # 1 => i - 1 \in DOMAIN Tail(q) /\ Tail(q)[i - 1] = q[i]
<1>1. /\ Len(q) \in Nat /\ DOMAIN q = 1 .. Len(q)
      /\ Tail(q) \in Seq(S) /\ Len(Tail(q)) = Len(q) - 1
      /\ \A i \in 1 .. Len(Tail(q)) : Tail(q)[i] = q[i + 1]
  BY HeadTailProperties, LenProperties
<1>2. Len(q) # 0
  BY EmptySeq
<1>3. DOMAIN Tail(q) = 1 .. Len(q) - 1
  BY <1>1, LenProperties
<1> QED BY <1>1, <1>2, <1>3

LEMMA PlacesInit == Init => PlacesInv
BY SetsAssumption DEF Init, PlacesInv

\* A job that is nowhere comes to the end of the queue.
LEMMA PlacesEnqueue ==
  ASSUME ShapeInv, PlacesInv, NEW j \in Jobs,
         queue' = Append(queue, j), released' = released,
         job' \in [Workers -> Executables \cup {NoJob}],
         \A w \in Workers : job'[w] = job[w] \/ (job[w] = j /\ job'[w] = NoJob),
         \A w \in Workers : job'[w] # j,
         handed' = handed \cup {j},
         \A i \in DOMAIN queue : queue[i] # j,
         released[j] = 0
  PROVE  PlacesInv'
<1>1. queue \in Seq(Executables) /\ j \in Executables
  BY DEF ShapeInv, TypeOK
<1>2. /\ DOMAIN queue' = DOMAIN queue \cup {Len(queue) + 1}
      /\ Len(queue) + 1 \notin DOMAIN queue
      /\ queue'[Len(queue) + 1] = j
      /\ \A i \in DOMAIN queue : queue'[i] = queue[i]
  BY <1>1, AppendPlaces
<1>3. \A w \in Workers : job'[w] \in Jobs => job'[w] = job[w] /\ job[w] # j
  BY SetsAssumption
<1>4. \A k \in handed' : k = j \/ (k \in handed /\ k # j)
  OBVIOUS
<1>5. /\ \A i, k \in DOMAIN queue' : queue'[i] \in Jobs /\ queue'[i] = queue'[k] => i = k
      /\ \A w, x \in Workers : job'[w] \in Jobs /\ job'[w] = job'[x] => w = x
      /\ \A i \in DOMAIN queue', w \in Workers : queue'[i] \in Jobs => queue'[i] # job'[w]
  BY <1>2, <1>3 DEF PlacesInv
<1>6. /\ \A i \in DOMAIN queue' :
           queue'[i] \in Jobs => queue'[i] \in handed' /\ released'[queue'[i]] = 0
      /\ \A w \in Workers : job'[w] \in Jobs => job'[w] \in handed' /\ released'[job'[w]] = 0
      /\ \A k \in Jobs : k \notin handed' => released'[k] = 0
  BY <1>2, <1>3 DEF PlacesInv
<1>7. ASSUME NEW k \in handed'
      PROVE  \/ \E i \in DOMAIN queue' : queue'[i] = k
             \/ \E w \in Workers : job'[w] = k
             \/ released'[k] = 1
  BY <1>2, <1>4 DEF PlacesInv
<1> QED BY <1>5, <1>6, <1>7 DEF PlacesInv

LEMMA PlacesNext == ShapeInv /\ PlacesInv /\ [Next]_vars => PlacesInv'
<1> SUFFICES ASSUME ShapeInv, PlacesInv, [Next]_vars PROVE PlacesInv'
  OBVIOUS
<1> USE SetsAssumption
<1>1. ASSUME NEW j \in Jobs, Execute(j) PROVE PlacesInv'
  <2>1. \A i \in DOMAIN queue : queue[i] # j
    BY <1>1 DEF Execute, PlacesInv
  <2>2. released[j] = 0 /\ \A w \in Workers : job[w] # j
    BY <1>1 DEF Execute, PlacesInv
  <2> QED BY <1>1, <2>1, <2>2, PlacesEnqueue DEF Execute, Enqueue, ShapeInv, TypeOK
<1>2. ASSUME NEW w \in Workers, Dequeue(w) PROVE PlacesInv'
  <2>1. queue \in Seq(Executables) /\ queue # <<>>
    BY <1>2 DEF Dequeue, ShapeInv, TypeOK
  <2>2. /\ 1 \in DOMAIN queue /\ Head(queue) = queue[1]
        /\ \A i \in DOMAIN queue' :
             i + 1 \in DOMAIN queue /\ i + 1 # 1 /\ queue'[i] = queue[i + 1]
        /\ \A i \in DOMAIN queue : i # 1 => i - 1 \in DOMAIN queue' /\ queue'[i - 1] = queue[i]
    BY <1>2, <2>1, TailPlaces DEF Dequeue
  <2>3. job[w] = NoJob
    BY <1>2 DEF Dequeue, ShapeInv, HandsOK
  <2>4. \A x \in Workers : job'[x] = IF x = w THEN queue[1] ELSE job[x]
    BY <1>2, <2>2 DEF Dequeue, ShapeInv, TypeOK
  <2>5. handed' = handed /\ released' = released
    BY <1>2 DEF Dequeue
  <2>6. ASSUME NEW i \in DOMAIN queue', NEW k \in DOMAIN queue',
               queue'[i] \in Jobs, queue'[i] = queue'[k]
        PROVE  i = k
    <3>1. i + 1 = k + 1
      BY <2>2, <2>6 DEF PlacesInv
    <3>2. i \in Nat /\ k \in Nat
      BY <1>2, <2>1 DEF Dequeue
    <3> QED BY <3>1, <3>2
  <2>7. /\ \A y, x \in Workers : job'[y] \in Jobs /\ job'[y] = job'[x] => y = x
        /\ \A y \in Workers : job'[y] \in Jobs => job'[y] \in handed' /\ released'[job'[y]] = 0
    BY <2>2, <2>4, <2>5 DEF PlacesInv
  <2>8. /\ \A i \in DOMAIN queue', x \in Workers : queue'[i] \in Jobs => queue'[i] # job'[x]
        /\ \A i \in DOMAIN queue' :
             queue'[i] \in Jobs => queue'[i] \in handed' /\ released'[queue'[i]] = 0
    BY <2>2, <2>4, <2>5 DEF PlacesInv
  <2>9. ASSUME NEW j \in handed'
        PROVE  \/ \E i \in DOMAIN queue' : queue'[i] = j
               \/ \E x \in Workers : job'[x] = j
               \/ released'[j] = 1
    <3>1. j # NoJob
      BY <2>5 DEF ShapeInv, TypeOK
    <3> QED BY <2>2, <2>3, <2>4, <2>5, <3>1 DEF PlacesInv
  <2> QED BY <2>5, <2>6, <2>7, <2>8, <2>9 DEF PlacesInv
<1>3. ASSUME NEW w \in Workers, Resume(w) PROVE PlacesInv'
  <2>1. job[w] \in Jobs /\ queue' = Append(queue, job[w]) /\ released' = released
    BY <1>3 DEF Resume, Enqueue
  <2>2. \A x \in Workers : job'[x] = IF x = w THEN NoJob ELSE job[x]
    BY <1>3 DEF Resume, ShapeInv, TypeOK
  <2>3. \A x \in Workers : job'[x] # job[w]
    BY <2>1, <2>2 DEF PlacesInv
  <2>4. handed' = handed \cup {job[w]} /\ released[job[w]] = 0
    BY <1>3, <2>1 DEF Resume, PlacesInv
  <2>5. \A i \in DOMAIN queue : queue[i] # job[w]
    BY <2>1 DEF PlacesInv
  <2>6. job' \in [Workers -> Executables \cup {NoJob}]
    BY <1>3 DEF Resume, ShapeInv, TypeOK
  <2> QED BY <2>1, <2>2, <2>3, <2>4, <2>5, <2>6, PlacesEnqueue
<1>4. ASSUME NEW w \in Workers, Release(w) PROVE PlacesInv'
  <2>1. job[w] \in Jobs /\ queue' = queue /\ handed' = handed
    BY <1>4 DEF Release
  <2>2. \A x \in Workers : job'[x] = IF x = w THEN NoJob ELSE job[x]
    BY <1>4 DEF Release, ShapeInv, TypeOK
  <2>3. \A j \in Jobs : released'[j] = IF j = job[w] THEN 1 ELSE released[j]
    BY <1>4 DEF Release, ShapeInv, TypeOK, PlacesInv
  <2>4. \A j \in handed : j \in Jobs
    BY DEF ShapeInv, TypeOK
  <2> QED BY <2>1, <2>2, <2>3, <2>4 DEF PlacesInv
<1>5. ASSUME NEW w \in Workers, Leave(w) PROVE PlacesInv'
  <2>1. \A x \in Workers : job'[x] = IF x = w THEN NoJob ELSE job[x]
    BY <1>5 DEF Leave, ShapeInv, TypeOK
  <2>2. job[w] = Helper /\ Helper \notin handed
    BY <1>5 DEF Leave, ShapeInv, HandsOK, TypeOK
  <2> QED BY <1>5, <2>1, <2>2 DEF Leave, PlacesInv
<1>6. CASE EnqueueHelper
  <2>1. queue \in Seq(Executables) /\ queue' = Append(queue, Helper)
    BY <1>6 DEF EnqueueHelper, Enqueue, ShapeInv, TypeOK
  <2>2. /\ DOMAIN queue' = DOMAIN queue \cup {Len(queue) + 1}
        /\ queue'[Len(queue) + 1] = Helper
        /\ \A i \in DOMAIN queue : queue'[i] = queue[i]
    BY <2>1, AppendPlaces
  <2> QED BY <1>6, <2>2 DEF EnqueueHelper, PlacesInv
<1>7. CASE Cleanup
  <2>1. queue' = <<>> /\ job' = job /\ handed' = handed
    BY <1>7 DEF Cleanup
  <2>2. \A j \in Jobs : released'[j] =
          IF \E i \in DOMAIN queue : queue[i] = j THEN released[j] + 1 ELSE released[j]
    BY <1>7 DEF Cleanup, CleanupAndRelease, Range
  <2>3. DOMAIN queue' = {}
    BY <2>1
  <2>4. \A j \in handed : j \in Jobs
    BY DEF ShapeInv, TypeOK
  <2> QED BY <2>1, <2>2, <2>3, <2>4 DEF PlacesInv
<1>8. CASE UNCHANGED <<queue, job, handed, released>>
  BY <1>8 DEF PlacesInv
<1>9. ASSUME NEW w \in Workers, Wait(w) \/ RunHelper(w) \/ SpuriousWakeup(w) \/ Start(w)
      PROVE  UNCHANGED <<queue, job, handed, released>>
  BY <1>9 DEF Wait, RunHelper, SpuriousWakeup, Start
<1>10. CASE StartReturns \/ AwaitHelper \/ EraseWorker \/ ResetLastWorker \/ Join
            \/ StopCalled \/ StopSpuriousWakeup \/ Stopped \/ UNCHANGED vars
  BY <1>8, <1>10 DEF StartReturns, AwaitHelper, EraseWorker, ResetLastWorker, Join,
                     StopCalled, StopSpuriousWakeup, Stopped, vars
<1> QED BY <1>1, <1>2, <1>3, <1>4, <1>5, <1>6, <1>7, <1>8, <1>9, <1>10
        DEF Next, WorkerStep, ControlStep

\* Places that are unique count as one.
LEMMA PlacesCount ==
  ASSUME ShapeInv, PlacesInv
  PROVE  JobAtOnePlace
<1> SUFFICES ASSUME NEW j \in Jobs
             PROVE  Cardinality(InQueue(j)) + Cardinality(InHands(j)) + released[j]
                      = IF j \in handed THEN 1 ELSE 0
  BY DEF JobAtOnePlace
<1>1. InQueue(j) = {} \/ \E i : InQueue(j) = {i}
  BY DEF PlacesInv, InQueue
<1>2. InHands(j) = {} \/ \E w : InHands(j) = {w}
  BY DEF PlacesInv, InHands
<1>3. /\ Cardinality(InQueue(j)) = IF InQueue(j) = {} THEN 0 ELSE 1
      /\ Cardinality(InHands(j)) = IF InHands(j) = {} THEN 0 ELSE 1
  BY <1>1, <1>2, FS_EmptySet, FS_Singleton
<1>4. CASE j \in handed
  BY <1>3, <1>4 DEF PlacesInv, InQueue, InHands
<1>5. CASE j \notin handed
  BY <1>3, <1>5 DEF PlacesInv, InQueue, InHands
<1> QED BY <1>4, <1>5

LEMMA PlacesAlways == Spec => []PlacesInv
BY PlacesInit, PlacesNext, ShapeAlways, PTL DEF Spec

\* A job is run by one worker at a time, is never forgotten, and is given
\* back once, by the worker that ran it or by the cleanup of stop.
THEOREM JobsStayAtOnePlace == Spec => []JobAtOnePlace
<1>1. ShapeInv /\ PlacesInv => JobAtOnePlace
  BY PlacesCount
<1> QED BY <1>1, ShapeAlways, PlacesAlways, PTL

-----------------------------------------------------------------------------
(* The rounds of stop                                                       *)

Holds(w) == wpc[w] = "run" /\ job[w] = Helper
Gone(w)  == wpc[w] \in {"leaving", "exited"}

\* Nobody is going to run the helper ...
HelperAway ==
  /\ \A i \in DOMAIN queue : queue[i] # Helper
  /\ \A w \in Workers : ~Holds(w)

\* ... or exactly one worker is: it is once in the queue or in one hand.
HelperOut ==
  \/ /\ \E i \in DOMAIN queue : /\ queue[i] = Helper
                                /\ \A k \in DOMAIN queue : queue[k] = Helper => k = i
     /\ \A w \in Workers : ~Holds(w)
  \/ /\ \A i \in DOMAIN queue : queue[i] # Helper
     /\ \E w \in Workers : Holds(w) /\ \A x \in Workers : Holds(x) => x = w

\* A round of stop sends the helper out once, and last_worker is set exactly
\* from the run of the helper to the end of the round.  Those in
\* alive_workers, but for last_worker, have not run it.
RoundInv ==
  /\ spc \in {"start", "up"} => \A w \in Workers : ~Gone(w)
  /\ spc \notin {"start", "up"} =>
       \A w \in Workers : (w \in alive /\ w # last_worker) <=> ~Gone(w)
  /\ IF spc \in {"await", "asleep"} /\ last_worker = NoWorker
     THEN HelperOut ELSE HelperAway
  /\ last_worker # NoWorker => spc \in {"await", "erase", "reset"}
  /\ spc = "await" => last_worker \in alive \cup {NoWorker}
  /\ spc = "erase" => last_worker \in alive
  /\ spc = "reset" => last_worker \in Workers \ alive
  /\ spc \in {"join", "cleanup", "stopped"} => alive = {}
  /\ spc \in {"cleanup", "stopped"} => \A w \in Workers : wpc[w] = "exited"
  /\ spc = "stopped" => queue = <<>>

USE DEF Holds, Gone

LEMMA RoundInit == Init => RoundInv
BY SetsAssumption DEF Init, RoundInv, HelperAway

\* What leaves the helper, the workers that have run it and stop alone keeps
\* the invariant of the rounds.
LEMMA RoundSame ==
  ASSUME RoundInv, UNCHANGED control,
         HelperAway => HelperAway', HelperOut => HelperOut',
         \A w \in Workers : (Gone(w) <=> Gone(w)') /\ (wpc[w] = "exited" => wpc'[w] = "exited"),
         spc = "stopped" => queue' = queue
  PROVE  RoundInv'
BY DEF RoundInv

\* A job at the end of the queue does not change where the helper is.
LEMMA HelperAppend ==
  ASSUME ShapeInv, NEW j \in Jobs, queue' = Append(queue, j),
         \A w \in Workers : Holds(w) <=> Holds(w)'
  PROVE  (HelperAway => HelperAway') /\ (HelperOut => HelperOut')
<1>1. queue \in Seq(Executables)
  BY DEF ShapeInv, TypeOK
<1>2. /\ DOMAIN queue' = DOMAIN queue \cup {Len(queue) + 1}
      /\ queue'[Len(queue) + 1] = j
      /\ \A i \in DOMAIN queue : queue'[i] = queue[i]
  BY <1>1, AppendPlaces
<1>3. j # Helper
  BY SetsAssumption
<1>4. HelperAway => HelperAway'
  BY <1>2, <1>3 DEF HelperAway
<1>5. HelperOut => HelperOut'
  BY <1>2, <1>3 DEF HelperOut
<1> QED BY <1>4, <1>5

LEMMA RoundWorker ==
  ASSUME ShapeInv, RoundInv, NEW w \in Workers, WorkerStep(w) \/ SpuriousWakeup(w)
  PROVE  RoundInv'
<1> USE SetsAssumption
<1>1. CASE Dequeue(w)
  <2>1. queue \in Seq(Executables) /\ queue # <<>>
    BY <1>1 DEF Dequeue, ShapeInv, TypeOK
  <2>2. /\ 1 \in DOMAIN queue /\ Head(queue) = queue[1]
        /\ \A i \in DOMAIN queue' :
             i + 1 \in DOMAIN queue /\ i + 1 # 1 /\ queue'[i] = queue[i + 1]
        /\ \A i \in DOMAIN queue : i # 1 => i - 1 \in DOMAIN queue' /\ queue'[i - 1] = queue[i]
    BY <1>1, <2>1, TailPlaces DEF Dequeue
  <2>3. /\ \A x \in Workers : job'[x] = IF x = w THEN queue[1] ELSE job[x]
        /\ \A x \in Workers : wpc'[x] = IF x = w THEN "run" ELSE wpc[x]
        /\ wpc[w] = "dequeue"
    BY <1>1, <2>2 DEF Dequeue, ShapeInv, TypeOK
  <2>4. HelperAway => HelperAway'
    BY <2>2, <2>3 DEF HelperAway
  <2>5. HelperOut => HelperOut'
    <3>1. SUFFICES ASSUME HelperOut PROVE HelperOut'
      OBVIOUS
    <3>2. CASE \E x \in Workers : Holds(x)
      BY <2>2, <2>3, <3>1, <3>2 DEF HelperOut
    <3>3. CASE \A x \in Workers : ~Holds(x)
      <4>1. PICK i \in DOMAIN queue : /\ queue[i] = Helper
                                      /\ \A k \in DOMAIN queue : queue[k] = Helper => k = i
        BY <3>1, <3>3 DEF HelperOut
      <4>2. CASE i = 1
        BY <2>2, <2>3, <3>3, <4>1, <4>2 DEF HelperOut
      <4>3. CASE i # 1
        <5>1. /\ i - 1 \in DOMAIN queue' /\ queue'[i - 1] = Helper /\ queue[1] # Helper
          BY <2>2, <4>1, <4>3
        <5>2. ASSUME NEW k \in DOMAIN queue', queue'[k] = Helper PROVE k = i - 1
          <6>1. k + 1 = i
            BY <2>2, <4>1, <5>2
          <6>2. k \in Nat /\ i \in Nat
            BY <1>1, <2>1 DEF Dequeue
          <6> QED BY <6>1, <6>2
        <5>3. \A x \in Workers : ~Holds(x)'
          BY <2>3, <3>3, <5>1
        <5> QED BY <5>1, <5>2, <5>3 DEF HelperOut
      <4> QED BY <4>2, <4>3
    <3> QED BY <3>2, <3>3
  <2>6. spc # "stopped"
    BY <2>1 DEF RoundInv
  <2>7. UNCHANGED control
    BY <1>1 DEF Dequeue
  <2> QED BY <2>3, <2>4, <2>5, <2>6, <2>7, RoundSame
<1>2. CASE Resume(w)
  <2>1. job[w] \in Jobs /\ queue' = Append(queue, job[w]) /\ UNCHANGED control /\ wpc[w] = "run"
    BY <1>2 DEF Resume, Enqueue
  <2>2. \A x \in Workers :
          wpc'[x] = Done(w)[x] \/ (Done(w)[x] = "waiting" /\ wpc'[x] = "dequeue")
    BY <1>2, DoneType, EnqueueShape DEF Resume, ShapeInv
  <2>3. \A x \in Workers : job'[x] = IF x = w THEN NoJob ELSE job[x]
    BY <1>2 DEF Resume, ShapeInv, TypeOK
  <2>4. \A x \in Workers : Done(w)[x] = IF x = w THEN "dequeue" ELSE wpc[x]
    BY DEF Done, ShapeInv, TypeOK
  <2>5. \A x \in Workers : Holds(x) <=> Holds(x)'
    BY <2>1, <2>2, <2>3, <2>4
  <2>6. \A x \in Workers : (Gone(x) <=> Gone(x)') /\ (wpc[x] = "exited" => wpc'[x] = "exited")
    BY <2>1, <2>2, <2>4
  <2>7. spc # "stopped"
    BY <2>1 DEF RoundInv
  <2> QED BY <2>1, <2>5, <2>6, <2>7, HelperAppend, RoundSame
<1>3. CASE RunHelper(w)
  <2>1. /\ Holds(w) /\ queue' = queue /\ job' = job /\ alive' = alive
        /\ last_worker' = w
        /\ spc' = IF spc = "asleep" THEN "await" ELSE spc
        /\ \A x \in Workers : wpc'[x] = IF x = w THEN "leaving" ELSE wpc[x]
    BY <1>3 DEF RunHelper, ShapeInv, TypeOK
  <2>2. spc \in {"await", "asleep"} /\ last_worker = NoWorker /\ HelperOut
    BY <2>1 DEF RoundInv, HelperAway
  <2>3. HelperAway'
    BY <2>1, <2>2 DEF HelperOut, HelperAway
  <2>4. w \in alive
    BY <2>1, <2>2 DEF RoundInv
  <2>5. \A x \in Workers : (x \in alive' /\ x # last_worker') <=> ~Gone(x)'
    BY <2>1, <2>2 DEF RoundInv
  <2> QED BY <2>1, <2>2, <2>3, <2>4, <2>5 DEF RoundInv
<1>4. CASE Leave(w)
  <2>1. /\ wpc[w] = "leaving" /\ queue' = queue /\ UNCHANGED control
        /\ \A x \in Workers : wpc'[x] = IF x = w THEN "exited" ELSE wpc[x]
        /\ \A x \in Workers : job'[x] = IF x = w THEN NoJob ELSE job[x]
    BY <1>4 DEF Leave, ShapeInv, TypeOK
  <2>2. \A x \in Workers : Holds(x) <=> Holds(x)'
    BY <2>1
  <2> QED BY <2>1, <2>2, RoundSame DEF HelperAway, HelperOut
<1>5. CASE Wait(w) \/ SpuriousWakeup(w) \/ Release(w)
  <2>1. /\ queue' = queue /\ UNCHANGED control
        /\ \A x \in Workers : Holds(x) <=> Holds(x)'
        /\ \A x \in Workers : (Gone(x) <=> Gone(x)') /\ (wpc[x] = "exited" => wpc'[x] = "exited")
    BY <1>5 DEF Wait, SpuriousWakeup, Release, Done, ShapeInv, TypeOK
  <2> QED BY <2>1, RoundSame DEF HelperAway, HelperOut
<1> QED BY <1>1, <1>2, <1>3, <1>4, <1>5 DEF WorkerStep

LEMMA RoundNext == ShapeInv /\ RoundInv /\ [Next]_vars => RoundInv'
<1> SUFFICES ASSUME ShapeInv, RoundInv, [Next]_vars PROVE RoundInv'
  OBVIOUS
<1> USE SetsAssumption
<1>1. ASSUME NEW j \in Jobs, Execute(j) PROVE RoundInv'
  <2>1. queue' = Append(queue, j) /\ UNCHANGED control /\ job' = job /\ spc # "stopped"
    BY <1>1 DEF Execute, Enqueue
  <2>2. \A x \in Workers :
          wpc'[x] = wpc[x] \/ (wpc[x] = "waiting" /\ wpc'[x] = "dequeue")
    BY <1>1, EnqueueShape DEF Execute, ShapeInv, TypeOK
  <2> QED BY <2>1, <2>2, HelperAppend, RoundSame
<1>2. CASE EnqueueHelper
  <2>1. /\ queue \in Seq(Executables) /\ queue' = Append(queue, Helper)
        /\ job' = job /\ alive' = alive /\ last_worker' = last_worker
        /\ spc = "enqueue" /\ spc' = "await"
    BY <1>2 DEF EnqueueHelper, Enqueue, ShapeInv, TypeOK
  <2>2. /\ DOMAIN queue' = DOMAIN queue \cup {Len(queue) + 1}
        /\ queue'[Len(queue) + 1] = Helper
        /\ \A i \in DOMAIN queue : queue'[i] = queue[i]
    BY <2>1, AppendPlaces
  <2>3. \A x \in Workers :
          wpc'[x] = wpc[x] \/ (wpc[x] = "waiting" /\ wpc'[x] = "dequeue")
    BY <1>2, EnqueueShape DEF EnqueueHelper, ShapeInv, TypeOK
  <2>4. HelperAway /\ last_worker = NoWorker
    BY <2>1 DEF RoundInv
  <2>5. HelperOut'
    BY <2>1, <2>2, <2>3, <2>4 DEF HelperAway, HelperOut
  <2>6. \A x \in Workers : (x \in alive' /\ x # last_worker') <=> ~Gone(x)'
    BY <2>1, <2>3 DEF RoundInv
  <2> QED BY <2>1, <2>4, <2>5, <2>6 DEF RoundInv
<1>3. ASSUME NEW w \in Workers, Start(w) PROVE RoundInv'
  <2>1. /\ queue' = queue /\ UNCHANGED control /\ spc = "start"
        /\ \A x \in Workers : Holds(x) <=> Holds(x)'
        /\ \A x \in Workers : Gone(x) <=> Gone(x)'
        /\ \A x \in Workers : wpc[x] # "exited"
    BY <1>3 DEF Start, ShapeInv, TypeOK, RoundInv
  <2> QED BY <2>1, RoundSame DEF HelperAway, HelperOut
<1>4. CASE StartReturns \/ StopCalled
  BY <1>4 DEF StartReturns, StopCalled, NextRound, RoundInv, HelperAway, HelperOut,
              ShapeInv, TypeOK
<1>5. CASE AwaitHelper \/ StopSpuriousWakeup
  BY <1>5 DEF AwaitHelper, StopSpuriousWakeup, RoundInv, HelperAway, HelperOut,
              ShapeInv, TypeOK
<1>6. CASE EraseWorker
  BY <1>6 DEF EraseWorker, RoundInv, HelperAway, ShapeInv, TypeOK
<1>7. CASE ResetLastWorker
  BY <1>7 DEF ResetLastWorker, NextRound, RoundInv, HelperAway, ShapeInv, TypeOK
<1>8. CASE Join
  BY <1>8 DEF Join, RoundInv, HelperAway
<1>9. CASE Cleanup
  <2>1. DOMAIN queue' = {} /\ queue' = <<>>
    BY <1>9 DEF Cleanup
  <2> QED BY <1>9, <2>1 DEF Cleanup, RoundInv, HelperAway
<1>10. CASE UNCHANGED vars
  BY <1>10 DEF vars, RoundInv, HelperAway, HelperOut
<1> QED BY <1>1, <1>2, <1>3, <1>4, <1>5, <1>6, <1>7, <1>8, <1>9, <1>10, RoundWorker
        DEF Next, ControlStep, Stopped

LEMMA RoundAlways == Spec => []RoundInv
BY RoundInit, RoundNext, ShapeAlways, PTL DEF Spec

\* stop may read and clear last_worker without shutdown_helper::mtx: whenever
\* it does, nobody has the helper and the queue does not hold it.
THEOREM UnlockedAccessAlwaysSafe == Spec => []UnlockedAccessIsSafe
<1>1. RoundInv => UnlockedAccessIsSafe
  BY DEF RoundInv, HelperAway, UnlockedAccessIsSafe, InQueue
<1> QED BY <1>1, RoundAlways, PTL

\* Each round of stop erases the worker that left in it, and alive_workers is
\* at the start of a round exactly those that still run.
THEOREM EveryRoundCounts == Spec => []RoundsCountWorkers
<1>1. RoundInv => RoundsCountWorkers
  BY SetsAssumption DEF RoundInv, RoundsCountWorkers
<1> QED BY <1>1, RoundAlways, PTL

\* When stop returns every thread has ended and every job is given back once.
THEOREM StopLeavesNothing == Spec => []StopIsClean
<1>1. ShapeInv /\ PlacesInv /\ RoundInv => StopIsClean
  <2> SUFFICES ASSUME ShapeInv, PlacesInv, RoundInv, spc = "stopped"
               PROVE  /\ \A w \in Workers : wpc[w] = "exited"
                      /\ \A j \in handed : released[j] = 1
    BY DEF StopIsClean
  <2>1. (\A w \in Workers : wpc[w] = "exited") /\ DOMAIN queue = {}
    BY DEF RoundInv
  <2>2. \A w \in Workers : job[w] = NoJob
    BY <2>1 DEF ShapeInv, HandsOK
  <2>3. \A j \in handed : j # NoJob
    BY SetsAssumption DEF ShapeInv, TypeOK
  <2> QED BY <2>1, <2>2, <2>3 DEF PlacesInv
<1> QED BY <1>1, ShapeAlways, PlacesAlways, RoundAlways, PTL

-----------------------------------------------------------------------------
(* Wakeups                                                                  *)

\* One more worker on its way to the queue.
LEMMA OneMoreLooking ==
  ASSUME NEW pcs \in [Workers -> WorkPCs], NEW w \in Workers, pcs[w] # "dequeue"
  PROVE  LET Count(f) == Cardinality({x \in Workers : f[x] = "dequeue"})
         IN  Count(pcs) \in Nat /\ Count([pcs EXCEPT ![w] = "dequeue"]) = Count(pcs) + 1
<1> DEFINE S(f) == {x \in Workers : f[x] = "dequeue"}
<1>1. S([pcs EXCEPT ![w] = "dequeue"]) = S(pcs) \cup {w} /\ w \notin S(pcs)
  OBVIOUS
<1>2. IsFiniteSet(S(pcs))
  BY SetsAssumption, FS_Subset
<1>3. Cardinality(S(pcs)) \in Nat
  BY <1>2, FS_CardinalityType
<1>4. Cardinality(S(pcs) \cup {w}) = Cardinality(S(pcs)) + 1
  BY <1>1, <1>2, FS_AddElement
<1> QED BY <1>1, <1>3, <1>4

\* enqueue keeps up with the queue: if a worker still sleeps afterwards, the
\* notification has sent another one to look.
LEMMA EnqueueConserves ==
  ASSUME ShapeInv, NEW e \in Executables, NEW pcs \in [Workers -> WorkPCs],
         Enqueue(e, pcs),
         (\E w \in Workers : pcs[w] = "waiting") =>
           Len(queue) <= Cardinality({w \in Workers : pcs[w] = "dequeue"})
  PROVE  WorkConserving'
<1>1. Len(queue) \in Nat /\ Len(queue') = Len(queue) + 1
  BY DEF ShapeInv, TypeOK, Enqueue
<1>2. wpc' \in NotifyOne(pcs)
  BY DEF Enqueue
<1>3. CASE wpc' = pcs /\ \A w \in Workers : pcs[w] # "waiting"
  BY <1>3 DEF WorkConserving, Waiting
<1>4. CASE \E w \in Workers : pcs[w] = "waiting" /\ wpc' = [pcs EXCEPT ![w] = "dequeue"]
  <2>1. PICK w \in Workers : pcs[w] = "waiting" /\ wpc' = [pcs EXCEPT ![w] = "dequeue"]
    BY <1>4
  <2>2. /\ Cardinality({x \in Workers : pcs[x] = "dequeue"}) \in Nat
        /\ Cardinality(Looking') = Cardinality({x \in Workers : pcs[x] = "dequeue"}) + 1
    BY <2>1, OneMoreLooking DEF Looking
  <2> QED BY <1>1, <2>1, <2>2 DEF WorkConserving
<1> QED BY <1>2, <1>3, <1>4, NotifyEffect

\* A worker that goes back to look, with nothing new in the queue.
LEMMA LookingConserves ==
  ASSUME ShapeInv, WorkConserving, NEW w \in Workers, wpc[w] # "dequeue"
  PROVE  (\E x \in Workers : Done(w)[x] = "waiting") =>
           Len(queue) <= Cardinality({x \in Workers : Done(w)[x] = "dequeue"})
<1> SUFFICES ASSUME NEW x \in Workers, Done(w)[x] = "waiting"
             PROVE  Len(queue) <= Cardinality({y \in Workers : Done(w)[y] = "dequeue"})
  OBVIOUS
<1>1. wpc \in [Workers -> WorkPCs] /\ Len(queue) \in Nat
  BY DEF ShapeInv, TypeOK
<1>2. wpc[x] = "waiting"
  BY <1>1 DEF Done
<1>3. Len(queue) <= Cardinality(Looking)
  BY <1>2 DEF WorkConserving, Waiting
<1>4. /\ Cardinality(Looking) \in Nat
      /\ Cardinality({y \in Workers : Done(w)[y] = "dequeue"}) = Cardinality(Looking) + 1
  BY <1>1, OneMoreLooking DEF Done, Looking
<1> QED BY <1>1, <1>3, <1>4

LEMMA ConservingNext == ShapeInv /\ WorkConserving /\ [Next]_vars => WorkConserving'
<1> SUFFICES ASSUME ShapeInv, WorkConserving, [Next]_vars PROVE WorkConserving'
  OBVIOUS
<1> USE SetsAssumption
<1>0. wpc \in [Workers -> WorkPCs] /\ queue \in Seq(Executables) /\ Len(queue) \in Nat
  BY DEF ShapeInv, TypeOK
<1>1. ASSUME NEW j \in Jobs, Execute(j) PROVE WorkConserving'
  BY <1>0, <1>1, EnqueueConserves DEF Execute, WorkConserving, Waiting, Looking
<1>2. CASE EnqueueHelper
  BY <1>0, <1>2, EnqueueConserves DEF EnqueueHelper, WorkConserving, Waiting, Looking
<1>3. ASSUME NEW w \in Workers, Resume(w) PROVE WorkConserving'
  <2>1. job[w] \in Executables /\ Enqueue(job[w], Done(w)) /\ wpc[w] # "dequeue"
    BY <1>3 DEF Resume
  <2> QED BY <2>1, DoneType, LookingConserves, EnqueueConserves DEF ShapeInv
<1>4. ASSUME NEW w \in Workers, Release(w) \/ SpuriousWakeup(w) \/ Start(w)
      PROVE  WorkConserving'
  <2>1. queue' = queue /\ wpc' = Done(w) /\ wpc[w] # "dequeue"
    BY <1>4 DEF Release, SpuriousWakeup, Start, Done
  <2> QED BY <2>1, LookingConserves DEF WorkConserving, Waiting, Looking
<1>5. ASSUME NEW w \in Workers, Dequeue(w) PROVE WorkConserving'
  <2>1. /\ queue # <<>> /\ queue' = Tail(queue) /\ wpc[w] = "dequeue"
        /\ wpc' = [wpc EXCEPT ![w] = "run"]
    BY <1>5 DEF Dequeue
  <2>2. Len(queue') = Len(queue) - 1
    BY <1>0, <2>1
  <2>3. Waiting' = Waiting /\ Looking' = Looking \ {w} /\ w \in Looking
    BY <1>0, <2>1 DEF Waiting, Looking
  <2>4. IsFiniteSet(Looking)
    BY FS_Subset DEF Looking
  <2>5. Cardinality(Looking') = Cardinality(Looking) - 1 /\ Cardinality(Looking) \in Nat
    BY <2>3, <2>4, FS_RemoveElement, FS_CardinalityType
  <2> QED BY <1>0, <2>2, <2>3, <2>5 DEF WorkConserving
<1>6. ASSUME NEW w \in Workers, Wait(w) PROVE WorkConserving'
  <2>1. Len(queue') = 0
    BY <1>6 DEF Wait
  <2>2. IsFiniteSet(Looking')
    BY FS_Subset DEF Looking
  <2> QED BY <2>1, <2>2, FS_CardinalityType DEF WorkConserving
<1>7. CASE Cleanup
  <2>1. Len(queue') = 0
    BY <1>7 DEF Cleanup
  <2>2. IsFiniteSet(Looking')
    BY FS_Subset DEF Looking
  <2> QED BY <2>1, <2>2, FS_CardinalityType DEF WorkConserving
<1>8. ASSUME NEW w \in Workers, RunHelper(w) \/ Leave(w) PROVE WorkConserving'
  <2>1. queue' = queue /\ Waiting' = Waiting /\ Looking' = Looking
    BY <1>0, <1>8 DEF RunHelper, Leave, Waiting, Looking
  <2> QED BY <2>1 DEF WorkConserving
<1>9. CASE UNCHANGED <<queue, wpc>>
  BY <1>9 DEF WorkConserving, Waiting, Looking
<1>10. CASE StartReturns \/ AwaitHelper \/ EraseWorker \/ ResetLastWorker \/ Join
            \/ StopCalled \/ StopSpuriousWakeup \/ Stopped \/ UNCHANGED vars
  BY <1>9, <1>10 DEF StartReturns, AwaitHelper, EraseWorker, ResetLastWorker, Join,
                     StopCalled, StopSpuriousWakeup, Stopped, vars
<1> QED BY <1>1, <1>2, <1>3, <1>4, <1>5, <1>6, <1>7, <1>8, <1>9, <1>10
        DEF Next, WorkerStep, ControlStep

\* notify_one per job is enough: no job waits in the queue behind a worker
\* that sleeps, unless another worker is already on its way to it.
THEOREM NoWakeupIsLost == Spec => []WorkConserving
<1>1. Init => WorkConserving
  BY DEF Init, WorkConserving, Waiting
<1> QED BY <1>1, ConservingNext, ShapeAlways, PTL DEF Spec
=============================================================================
