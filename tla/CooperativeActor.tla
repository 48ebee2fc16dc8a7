-------------------------- MODULE CooperativeActor --------------------------
(***************************************************************************)
(* One cooperative_actor: its mailbox, its scheduling flag, the jobs the    *)
(* executor holds for it and the worker threads that run it.                *)
(*                                                                         *)
(*   sender threads    cooperative_actor::enqueue_base                     *)
(*   worker threads    worker::run, cooperative_actor::run and the         *)
(*                     release of the job                                   *)
(*   the owner         whoever holds the actor handle made by spawn_actor   *)
(*                                                                         *)
(* Granularity: one step per access to something threads share (stack_,    *)
(* flags_, rc_, the executor's queue).  What only the running worker may    *)
(* touch (head_, the cache, the local variables of run) changes in the     *)
(* same step.  Memory is sequentially consistent.                          *)
(*                                                                         *)
(* Messages are numbered in the order their push on stack_ takes effect.    *)
(***************************************************************************)
EXTENDS Naturals, Sequences, FiniteSets, Functions

CONSTANTS
  Senders,        \* threads that send to the actor from outside
  Workers,        \* worker threads of the actor's executor
  MaxThroughput,  \* max_throughput of the executor
  MaxMsgs,        \* bound: how many messages are sent in all
  NDEBUG          \* TRUE when assert() is compiled out

ASSUME ThreadsAssumption ==
  /\ IsFiniteSet(Senders) /\ IsFiniteSet(Workers)
  /\ Senders \cap Workers = {}
ASSUME BoundsAssumption  == MaxThroughput \in Nat /\ MaxMsgs \in Nat
ASSUME BuildAssumption   == NDEBUG \in BOOLEAN

VARIABLES
  stack,     \* mailbox_.stack_: pushed and not yet fetched, oldest first
  blocked,   \* stack_ = reader_blocked_dummy()
  cache,     \* first partition of mailbox_.cache_: [begin, separator)
  skipped,   \* second partition of mailbox_.cache_: [continuation, end)
  flags,     \* flags_
  rc,        \* rc_, the reference count
  jobs,      \* entries for this actor in the executor's central queue
  owned,     \* the owner still holds its actor handle
  deleted,   \* the destructor has run
  crashed,   \* an assert, or a null dereference, ended the process
  spc,       \* where each thread is in enqueue_base
  wpc,       \* where each worker is in its loop
  ptr,       \* run's local ptr: the message in hand, 0 if none
  handled,   \* run's local handled_msgs
  pushed,    \* history: every message pushed, in order
  consumed,  \* history: every message taken out of the mailbox for good
  dropped    \* history: the ones destroyed without reaching a handler

mailbox == <<stack, blocked, cache, skipped>>
memory  == <<rc, owned, deleted>>
history == <<pushed, consumed, dropped>>
runvars == <<wpc, ptr, handled>>
vars    == <<mailbox, flags, memory, jobs, crashed, spc, runvars, history>>

Threads == Senders \cup Workers
Msgs    == 1..MaxMsgs

SendPCs == {"idle", "check", "set_busy", "try_block", "ref", "execute"}
\* Labels between the return of dequeue and the return of run: there the
\* worker touches the members of the actor that only the reader may touch.
ReadPCs == {"next1", "block1", "consume1", "next2", "block2", "reactivate",
            "tail", "tail_block"}
ReleasePCs == {"rel_flags", "rel_unblock", "rel_deref"}
WorkPCs    == {"idle"} \cup ReadPCs \cup ReleasePCs

\* The state spawn_actor leaves: rc_ is 1 from ref_counted's constructor and
\* 1 more from the intrusive_ptr in the actor handle.
Init ==
  /\ stack = <<>> /\ blocked = FALSE
  /\ cache = <<>> /\ skipped = <<>>
  /\ flags = "empty"
  /\ rc = 2 /\ owned = TRUE /\ deleted = FALSE
  /\ jobs = 0
  /\ crashed = FALSE
  /\ spc = [t \in Threads |-> "idle"]
  /\ wpc = [w \in Workers |-> "idle"]
  /\ ptr = [w \in Workers |-> 0]
  /\ handled = [w \in Workers |-> 0]
  /\ pushed = <<>> /\ consumed = <<>> /\ dropped = {}

\* A thread moves only while the process lives.
SendGoto(t, from, to) ==
  ~crashed /\ spc[t] = from /\ spc' = [spc EXCEPT ![t] = to]
WorkGoto(w, from, to) ==
  ~crashed /\ wpc[w] = from /\ wpc' = [wpc EXCEPT ![w] = to]
At(w, labels) == ~crashed /\ wpc[w] \in labels

-----------------------------------------------------------------------------
(* The mailbox's transitions between its empty and its blocked state.      *)

StackIsEmpty == stack = <<>> /\ ~blocked

\* try_block: compare_exchange from empty to blocked.
TryBlock == blocked' = (blocked \/ StackIsEmpty)

\* try_unblock: compare_exchange from blocked to empty.
TryUnblock == blocked' = FALSE

-----------------------------------------------------------------------------
(* enqueue_base, run by any sender, and by a worker whose handler sends a   *)
(* message to the actor it is running.                                      *)

MaySend(t) == t \in Workers => wpc[t] = "reactivate"

\* mailbox().enqueue(msg.release()): the push that its loop makes.
Enqueue(t) ==
  /\ MaySend(t) /\ Len(pushed) < MaxMsgs
  /\ SendGoto(t, "idle", "check")
  /\ stack' = Append(stack, Len(pushed) + 1)
  /\ blocked' = FALSE
  /\ pushed' = Append(pushed, Len(pushed) + 1)
  /\ UNCHANGED <<cache, skipped, flags, memory, jobs, crashed, runvars,
                 consumed, dropped>>

\* Mutated: without the test of flags().
CheckFlagsAlways(t) ==
  /\ SendGoto(t, "check", "set_busy")
  /\ UNCHANGED <<mailbox, flags, memory, jobs, crashed, runvars, history>>

\* if (flags() == empty)
CheckFlags(t) ==
  /\ SendGoto(t, "check", IF flags = "empty" THEN "set_busy" ELSE "idle")
  /\ UNCHANGED <<mailbox, flags, memory, jobs, crashed, runvars, history>>

\* intrusive_ptr_add_ref_impl, first: flags(busy)
AddRefSetBusy(t) ==
  /\ SendGoto(t, "set_busy", "try_block")
  /\ flags' = "busy"
  /\ UNCHANGED <<mailbox, memory, jobs, crashed, runvars, history>>

\* then: mailbox().try_block()
AddRefTryBlock(t) ==
  /\ SendGoto(t, "try_block", "ref")
  /\ TryBlock
  /\ UNCHANGED <<stack, cache, skipped, flags, memory, jobs, crashed,
                 runvars, history>>

\* Mutated: the reference is not counted.
AddRefUncounted(t) ==
  /\ SendGoto(t, "ref", "execute")
  /\ UNCHANGED <<mailbox, flags, memory, jobs, crashed, runvars, history>>

\* then: ref()
AddRef(t) ==
  /\ SendGoto(t, "ref", "execute")
  /\ rc' = rc + 1
  /\ UNCHANGED <<mailbox, flags, owned, deleted, jobs, crashed, runvars,
                 history>>

\* Mutated: returns before the job is handed over.
ExecuteForgotten(t) ==
  /\ SendGoto(t, "execute", "idle")
  /\ UNCHANGED <<mailbox, flags, memory, jobs, crashed, runvars, history>>

\* execute(this): the job goes to the executor's central queue, through the
\* execution_device that was passed in or through the supervisor's executor.
Execute(t) ==
  /\ SendGoto(t, "execute", "idle")
  /\ jobs' = jobs + 1
  /\ UNCHANGED <<mailbox, flags, memory, crashed, runvars, history>>

\* The steps of enqueue_base after the push.
FinishSend(t) ==
  \/ CheckFlags(t) \/ AddRefSetBusy(t) \/ AddRefTryBlock(t)
  \/ AddRef(t) \/ Execute(t)

SenderStep(t) == Enqueue(t) \/ FinishSend(t)

-----------------------------------------------------------------------------
(* run, from the worker's dequeue to the value it returns.                  *)

\* The condition of the first loop of run, then that of the second.
CacheIsEmpty == cache = <<>> /\ skipped = <<>>

\* Mutated: the negation is lost.
FirstLoopInverted(n) == n < MaxThroughput /\ CacheIsEmpty

FirstLoop(n) == n < MaxThroughput /\ ~CacheIsEmpty

\* Mutated: one turn too many.
SecondLoopOneMore(n) == IF n <= MaxThroughput THEN "next2" ELSE "tail"

SecondLoop(n) == IF n < MaxThroughput THEN "next2" ELSE "tail"

LoopEntry(n) == IF FirstLoop(n) THEN "next1" ELSE SecondLoop(n)

Dequeue(w) ==
  /\ jobs > 0 /\ jobs' = jobs - 1
  /\ WorkGoto(w, "idle", LoopEntry(0))
  /\ handled' = [handled EXCEPT ![w] = 0]
  /\ ptr' = [ptr EXCEPT ![w] = 0]
  /\ UNCHANGED <<mailbox, flags, memory, crashed, spc, history>>

\* Mutated: new messages go before the cached ones.
FetchNewDataPrepends(w) ==
  /\ At(w, {"next1", "next2"}) /\ stack # <<>>
  /\ cache' = stack \o cache
  /\ stack' = <<>>
  /\ UNCHANGED <<blocked, skipped, flags, memory, jobs, crashed, spc,
                 runvars, history>>

\* next_message empties the mailbox into the first partition, at its end:
\* is_high_priority() is false for every message.  Each turn of its loop is a
\* fetch_new_data that takes all there is in stack_ ...
FetchNewData(w) ==
  /\ At(w, {"next1", "next2"}) /\ stack # <<>>
  /\ cache' = cache \o stack
  /\ stack' = <<>>
  /\ UNCHANGED <<blocked, skipped, flags, memory, jobs, crashed, spc,
                 runvars, history>>

\* ... asserts when it finds stack_ blocked ...
FetchAssertFails(w) ==
  /\ At(w, {"next1", "next2"}) /\ blocked /\ ~NDEBUG
  /\ crashed' = TRUE
  /\ UNCHANGED <<mailbox, flags, memory, jobs, spc, runvars, history>>

\* Mutated: a fetch that finds stack_ blocked leaves it blocked.
NextMessageKeepsBlocked(w) ==
  /\ At(w, {"next1", "next2"})
  /\ stack = <<>> /\ (blocked => NDEBUG)
  /\ \/ /\ cache # <<>>
        /\ ptr' = [ptr EXCEPT ![w] = Head(cache)]
        /\ cache' = Tail(cache)
        /\ wpc' = [wpc EXCEPT ![w] =
                     IF @ = "next1" THEN "consume1" ELSE "reactivate"]
     \/ /\ cache = <<>>
        /\ wpc' = [wpc EXCEPT ![w] =
                     IF @ = "next1" THEN "block1" ELSE "block2"]
        /\ UNCHANGED <<ptr, cache>>
  /\ UNCHANGED <<stack, blocked, skipped, flags, memory, jobs, crashed, spc,
                 handled, history>>

\* ... and the loop ends at the fetch that finds nothing: it leaves stack_
\* empty, also when it found it blocked.  Then the front of the cache is
\* taken, if there is one.
NextMessage(w) ==
  /\ At(w, {"next1", "next2"})
  /\ stack = <<>> /\ (blocked => NDEBUG)
  /\ blocked' = FALSE
  /\ \/ /\ cache # <<>>
        /\ ptr' = [ptr EXCEPT ![w] = Head(cache)]
        /\ cache' = Tail(cache)
        /\ wpc' = [wpc EXCEPT ![w] =
                     IF @ = "next1" THEN "consume1" ELSE "reactivate"]
     \/ /\ cache = <<>>
        /\ wpc' = [wpc EXCEPT ![w] =
                     IF @ = "next1" THEN "block1" ELSE "block2"]
        /\ UNCHANGED <<ptr, cache>>
  /\ UNCHANGED <<stack, skipped, flags, memory, jobs, crashed, spc, handled,
                 history>>

\* if (!ptr) if (try_block()) return awaiting; else ask for a message again.
BlockOrRetry(w) ==
  /\ At(w, {"block1", "block2"})
  /\ wpc' = [wpc EXCEPT ![w] = IF StackIsEmpty     THEN "rel_flags"
                                 ELSE IF @ = "block1" THEN "next1"
                                 ELSE "next2"]
  /\ TryBlock
  /\ UNCHANGED <<stack, cache, skipped, flags, memory, jobs, crashed, spc,
                 ptr, handled, history>>

\* consume_from_cache: it hands over the first message of the second
\* partition.  The one next_message returned stays in ptr, which the next
\* turn overwrites or the end of run destroys.
ConsumeFromCache(w) ==
  /\ At(w, {"consume1"})
  /\ handled' = [handled EXCEPT ![w] = @ + 1]
  /\ skipped' = IF skipped = <<>> THEN <<>> ELSE Tail(skipped)
  /\ consumed' = Append(consumed, ptr[w])
                   \o (IF skipped = <<>> THEN <<>> ELSE <<Head(skipped)>>)
  /\ dropped' = dropped \cup {ptr[w]}
  /\ ptr' = [ptr EXCEPT ![w] = 0]
  /\ wpc' = [wpc EXCEPT ![w] =
               IF handled'[w] < MaxThroughput
                    /\ ~(cache = <<>> /\ skipped' = <<>>)
               THEN "next1" ELSE SecondLoop(handled'[w])]
  /\ UNCHANGED <<stack, blocked, cache, flags, memory, jobs, crashed, spc,
                 pushed>>

\* reactivate(*ptr): the handler runs and returns; a handler that sends to
\* its own actor has finished enqueue_base by then.
Reactivate(w) ==
  /\ spc[w] = "idle"
  /\ handled' = [handled EXCEPT ![w] = @ + 1]
  /\ WorkGoto(w, "reactivate", SecondLoop(handled'[w]))
  /\ consumed' = Append(consumed, ptr[w])
  /\ ptr' = [ptr EXCEPT ![w] = 0]
  /\ UNCHANGED <<mailbox, flags, memory, jobs, crashed, spc, pushed, dropped>>

\* Mutated: the loop ends at the null instead of pushing it.
PushToCacheStops(w) ==
  /\ handled[w] = 0
  /\ WorkGoto(w, "tail", "rel_flags")
  /\ skipped' = skipped \o cache \o stack
  /\ stack' = <<>> /\ cache' = <<>>
  /\ UNCHANGED <<blocked, flags, memory, jobs, crashed, spc, ptr, handled, history>>

\* while (!ptr) push_to_cache(next_message()): ptr is null only if neither
\* loop turned.  All messages go to the second partition, and then the null
\* that next_message returns is asserted on or dereferenced.
PushToCache(w) ==
  /\ At(w, {"tail"}) /\ handled[w] = 0
  /\ skipped' = skipped \o cache \o stack
  /\ stack' = <<>> /\ cache' = <<>>
  /\ crashed' = TRUE
  /\ UNCHANGED <<blocked, flags, memory, jobs, spc, runvars, history>>

\* if (!has_next_message() && try_block()) return awaiting; return awaiting
HasNextMessage(w) ==
  /\ handled[w] > 0
  /\ WorkGoto(w, "tail", IF cache # <<>> \/ stack # <<>>
                         THEN "rel_flags" ELSE "tail_block")
  /\ UNCHANGED <<mailbox, flags, memory, jobs, crashed, spc, ptr, handled,
                 history>>

TailTryBlock(w) ==
  /\ WorkGoto(w, "tail_block", "rel_flags")
  /\ TryBlock
  /\ UNCHANGED <<stack, cache, skipped, flags, memory, jobs, crashed, spc,
                 ptr, handled, history>>

-----------------------------------------------------------------------------
(* The worker gets awaiting and calls intrusive_ptr_release(job).           *)

\* intrusive_ptr_release_impl, first: flags(empty)
ReleaseSetEmpty(w) ==
  /\ WorkGoto(w, "rel_flags", "rel_unblock")
  /\ flags' = "empty"
  /\ UNCHANGED <<mailbox, memory, jobs, crashed, spc, ptr, handled, history>>

\* then: mailbox().try_unblock()
ReleaseTryUnblock(w) ==
  /\ WorkGoto(w, "rel_unblock", "rel_deref")
  /\ TryUnblock
  /\ UNCHANGED <<stack, cache, skipped, flags, memory, jobs, crashed, spc,
                 ptr, handled, history>>

\* ref_counted::deref
Deref == /\ rc' = rc - 1
         /\ deleted' = (deleted \/ rc = 1)

\* then: deref()
ReleaseDeref(w) ==
  /\ WorkGoto(w, "rel_deref", "idle")
  /\ Deref
  /\ UNCHANGED <<mailbox, flags, owned, jobs, crashed, spc, ptr, handled,
                 history>>

\* The owner drops its actor handle: ~intrusive_ptr<actor_abstract>, which
\* resolves to the release of a plain ref_counted.
OwnerRelease ==
  /\ ~crashed /\ owned /\ owned' = FALSE
  /\ Deref
  /\ UNCHANGED <<mailbox, flags, jobs, crashed, spc, runvars, history>>

-----------------------------------------------------------------------------

WorkerStep(w) ==
  \/ Dequeue(w)
  \/ FetchNewData(w) \/ FetchAssertFails(w)
  \/ NextMessage(w) \/ BlockOrRetry(w)
  \/ ConsumeFromCache(w) \/ Reactivate(w)
  \/ PushToCache(w) \/ HasNextMessage(w) \/ TailTryBlock(w)
  \/ ReleaseSetEmpty(w) \/ ReleaseTryUnblock(w) \/ ReleaseDeref(w)

\* Nothing is left to do: every message was sent and every thread is idle.
Quiescent ==
  /\ jobs = 0 /\ Len(pushed) = MaxMsgs
  /\ \A t \in Threads : spc[t] = "idle"
  /\ \A w \in Workers : wpc[w] = "idle"

\* The end of a behaviour: nothing is left to do, or the process aborted.
Finished == (Quiescent \/ crashed) /\ UNCHANGED vars

Next ==
  \/ \E t \in Threads : SenderStep(t)
  \/ \E w \in Workers : WorkerStep(w)
  \/ OwnerRelease
  \/ Finished

Spec == Init /\ [][Next]_vars

\* The operating system keeps every thread running, so a worker that can go
\* on does, and a thread inside enqueue_base leaves it.  Nobody has to send.
FairSpec ==
  /\ Spec
  /\ \A t \in Threads : WF_vars(FinishSend(t))
  /\ \A w \in Workers : WF_vars(WorkerStep(w))

-----------------------------------------------------------------------------
(* Properties.                                                              *)

\* Every variable keeps its type: rc_ never goes below zero, handled_msgs
\* never passes max_throughput.
TypeOK ==
  /\ stack \in Seq(Msgs) /\ cache \in Seq(Msgs) /\ skipped \in Seq(Msgs)
  /\ blocked \in BOOLEAN
  /\ flags \in {"empty", "busy"}
  /\ rc \in Nat /\ jobs \in Nat
  /\ owned \in BOOLEAN /\ deleted \in BOOLEAN /\ crashed \in BOOLEAN
  /\ spc \in [Threads -> SendPCs]
  /\ wpc \in [Workers -> WorkPCs]
  /\ ptr \in [Workers -> 0..MaxMsgs]
  /\ handled \in [Workers -> 0..MaxThroughput]
  /\ pushed \in Seq(Msgs) /\ consumed \in Seq(Msgs)
  /\ dropped \subseteq Msgs

Reading(w) == wpc[w] \in ReadPCs
Running(w) == wpc[w] # "idle"

\* Who holds a reference to the actor: its owner, and threads for a job.
OwnerRefs == IF owned THEN 1 ELSE 0
HandingOver == {t \in Threads : spc[t] = "execute"}
RunningWorkers == {w \in Workers : Running(w)}

\* At most one worker is inside run, the only place that touches head_, the
\* cache and the state of the handlers: two jobs for the actor are never run
\* at the same time.
SingleReader ==
  \A v, w \in Workers : Reading(v) /\ Reading(w) => v = w

\* Neither fetch_new_data's "fetching data while blocked is an error" nor
\* push_to_cache's assert(ptr != nullptr) ever fails.
AssertionsHold == ~crashed

Hand(m) == IF m = 0 THEN <<>> ELSE <<m>>

\* Messages leave the mailbox in the order they entered it and none gets
\* lost or doubled inside it: what was consumed, the message in hand, the
\* cache and stack_, one after the other, are what was pushed.
FifoDelivery ==
  \A w \in Workers :
    (\A v \in Workers \ {w} : ptr[v] = 0)
      => pushed = consumed \o Hand(ptr[w]) \o skipped \o cache \o stack

\* Every reference to the actor is one that rc_ counts: the owner's handle,
\* one per job, from the add_ref before execute to the release after run,
\* and the 1 that ref_counted's constructor leaves, which nobody gives back.
\* That one keeps the actor alive under the raw pointers of its addresses.
RefBalance ==
  /\ rc = 1 + OwnerRefs + jobs
          + Cardinality(HandingOver) + Cardinality(RunningWorkers)
  /\ ~deleted

\* The first loop of run destroys messages that no handler has seen.  By the
\* time it does so for the first time the first max_throughput messages have
\* all reached their handler, and they are never among the destroyed.
FirstBatchDelivered ==
  dropped # {} => 1 .. MaxThroughput \subseteq Range(consumed) \ dropped

\* run always comes back, however its mailbox is blocked under it.
RunTerminates ==
  \A w \in Workers : Running(w) ~> wpc[w] = "idle"

\* An executor made with max_throughput 0 hands no message over: the first one
\* that is sent makes run push next_message's null to the cache, which ends the
\* process, whoever sends and whatever the other threads do.
ZeroThroughputAborts == (MaxThroughput = 0 /\ pushed # <<>>) ~> crashed

\* A message whose sender found the actor idle is fetched by some run.
ScheduledMessageIsFetched ==
  \A t \in Threads, m \in Msgs :
    (spc[t] = "set_busy" /\ m \in Range(stack)) ~> m \notin Range(stack)

\* No message waits in the mailbox while nothing is going on that could make
\* the actor run: a blocked reader is re-scheduled by the enqueue.
NoStrandedMessage == Quiescent => stack = <<>> /\ cache = <<>>

\* Every message that leaves the mailbox reaches its handler.
NothingDropped == dropped = {}
=============================================================================
