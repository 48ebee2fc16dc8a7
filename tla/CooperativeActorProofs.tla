----------------------- MODULE CooperativeActorProofs -----------------------
(***************************************************************************)
(* Theorems about CooperativeActor, for every number of senders, workers    *)
(* and messages and every max_throughput.                                   *)
(***************************************************************************)
EXTENDS CooperativeActor, FiniteSetTheorems, SequenceTheorems, TLAPS

\* The part of the type invariant that needs no counting of references.
ShapeOK ==
  /\ stack \in Seq(Msgs) /\ cache \in Seq(Msgs) /\ skipped \in Seq(Msgs)
  /\ blocked \in BOOLEAN
  /\ flags \in {"empty", "busy"}
  /\ jobs \in Nat
  /\ owned \in BOOLEAN /\ deleted \in BOOLEAN /\ crashed \in BOOLEAN
  /\ spc \in [Threads -> SendPCs]
  /\ wpc \in [Workers -> WorkPCs]
  /\ ptr \in [Workers -> 0..MaxMsgs]
  /\ handled \in [Workers -> 0..MaxThroughput]
  /\ pushed \in Seq(Msgs) /\ consumed \in Seq(Msgs)
  /\ dropped \subseteq Msgs

\* Inside either loop of run there is throughput left, and a message is in
\* hand exactly between next_message and the end of its handler.
LoopOK ==
  \A w \in Workers :
    /\ wpc[w] \in {"next1", "block1", "consume1",
                   "next2", "block2", "reactivate"}
         => handled[w] < MaxThroughput
    /\ (ptr[w] # 0) <=> wpc[w] \in {"consume1", "reactivate"}

\* The inductive invariant of the type theorem.
ShapeInv == ShapeOK /\ LoopOK

USE DEF Threads, SendPCs, ReadPCs, ReleasePCs, WorkPCs, mailbox, memory,
        history, runvars

\* What spawn_actor leaves has the right shape.
LEMMA ShapeInit == Init => ShapeInv
<1> SUFFICES ASSUME Init PROVE ShapeInv
  OBVIOUS
<1>1. <<>> \in Seq(Msgs) /\ 0 \in 0..MaxMsgs /\ 0 \in 0..MaxThroughput
  BY BoundsAssumption
<1>2. ShapeOK
  BY <1>1 DEF Init, ShapeOK
<1>3. LoopOK
  BY DEF Init, LoopOK
<1> QED BY <1>2, <1>3 DEF ShapeInv

\* A sender changes no variable of run, and the new message is in Msgs.
LEMMA ShapeSender ==
  ASSUME ShapeInv, NEW t \in Threads, SenderStep(t)
  PROVE  ShapeInv'
<1>1. CASE Enqueue(t)
  <2>1. Len(pushed) + 1 \in Msgs
    BY <1>1, BoundsAssumption DEF Enqueue, Msgs, ShapeInv, ShapeOK
  <2>2. stack' \in Seq(Msgs) /\ pushed' \in Seq(Msgs)
    BY <1>1, <2>1 DEF Enqueue, ShapeInv, ShapeOK
  <2>3. spc' \in [Threads -> SendPCs] /\ blocked' \in BOOLEAN
    BY <1>1 DEF Enqueue, SendGoto, ShapeInv, ShapeOK
  <2> QED BY <1>1, <2>2, <2>3 DEF Enqueue, ShapeInv, ShapeOK, LoopOK
<1>2. CASE CheckFlags(t)
  BY <1>2 DEF CheckFlags, SendGoto, ShapeInv, ShapeOK, LoopOK
<1>3. CASE AddRefSetBusy(t)
  BY <1>3 DEF AddRefSetBusy, SendGoto, ShapeInv, ShapeOK, LoopOK
<1>4. CASE AddRefTryBlock(t)
  BY <1>4 DEF AddRefTryBlock, SendGoto, ShapeInv, ShapeOK, LoopOK, TryBlock,
              StackIsEmpty
<1>5. CASE AddRef(t)
  BY <1>5 DEF AddRef, SendGoto, ShapeInv, ShapeOK, LoopOK
<1>6. CASE Execute(t)
  BY <1>6 DEF Execute, SendGoto, ShapeInv, ShapeOK, LoopOK
<1> QED BY <1>1, <1>2, <1>3, <1>4, <1>5, <1>6 DEF SenderStep, FinishSend

\* Every step of worker::run and of cooperative_actor::run keeps the shape.
LEMMA ShapeWorker ==
  ASSUME ShapeInv, NEW w \in Workers, WorkerStep(w)
  PROVE  ShapeInv'
<1> USE BoundsAssumption
<1>1. CASE Dequeue(w)
  BY <1>1 DEF Dequeue, WorkGoto, LoopEntry, FirstLoop, SecondLoop,
              ShapeInv, ShapeOK, LoopOK
<1>2. CASE FetchNewData(w)
  BY <1>2 DEF FetchNewData, At, ShapeInv, ShapeOK, LoopOK
<1>3. CASE FetchAssertFails(w)
  BY <1>3 DEF FetchAssertFails, At, ShapeInv, ShapeOK, LoopOK
<1>4. CASE NextMessage(w)
  <2>1. CASE cache # <<>>
    <3>1. Head(cache) \in Msgs /\ Tail(cache) \in Seq(Msgs)
      BY <2>1 DEF ShapeInv, ShapeOK
    <3>2. ptr' = [ptr EXCEPT ![w] = Head(cache)] /\ Head(cache) \in 1..MaxMsgs
      BY <1>4, <2>1, <3>1 DEF NextMessage, Msgs
    <3>3. ptr' \in [Workers -> 0..MaxMsgs]
      BY <3>2 DEF ShapeInv, ShapeOK
    <3>4. LoopOK'
      BY <1>4, <2>1, <3>2 DEF NextMessage, At, ShapeInv, ShapeOK, LoopOK
    <3> QED BY <1>4, <2>1, <3>1, <3>3, <3>4
            DEF NextMessage, At, ShapeInv, ShapeOK
  <2>2. CASE cache = <<>>
    BY <1>4, <2>2 DEF NextMessage, At, ShapeInv, ShapeOK, LoopOK
  <2> QED BY <2>1, <2>2
<1>5. CASE BlockOrRetry(w)
  BY <1>5 DEF BlockOrRetry, At, TryBlock, StackIsEmpty, ShapeInv, ShapeOK, LoopOK
<1>6. CASE ConsumeFromCache(w)
  <2>1. ptr[w] # 0 /\ handled[w] < MaxThroughput
    BY <1>6 DEF ConsumeFromCache, At, ShapeInv, LoopOK
  <2>3. ptr[w] \in Msgs /\ handled[w] + 1 \in 0..MaxThroughput
    <3>1. ptr[w] \in 0..MaxMsgs /\ handled[w] \in 0..MaxThroughput
      BY DEF ShapeInv, ShapeOK
    <3> QED BY <2>1, <3>1 DEF Msgs
  <2>2. skipped' \in Seq(Msgs) /\ consumed' \in Seq(Msgs)
    <3>1. skipped \in Seq(Msgs) /\ consumed \in Seq(Msgs)
      BY DEF ShapeInv, ShapeOK
    <3>2. Append(consumed, ptr[w]) \in Seq(Msgs)
      BY <2>3, <3>1, AppendProperties
    <3>3. CASE skipped = <<>>
      <4>1. /\ skipped' = <<>> /\ consumed' = Append(consumed, ptr[w]) \o <<>>
        BY <1>6, <3>3 DEF ConsumeFromCache
      <4> QED BY <3>2, <4>1, EmptySeq, ConcatEmptySeq
    <3>4. CASE skipped # <<>>
      <4>1. /\ skipped' = Tail(skipped)
            /\ consumed' = Append(consumed, ptr[w]) \o <<Head(skipped)>>
        BY <1>6, <3>4 DEF ConsumeFromCache
      <4>2. Tail(skipped) \in Seq(Msgs) /\ <<Head(skipped)>> \in Seq(Msgs)
        BY <3>1, <3>4, HeadTailProperties
      <4> QED BY <3>2, <4>1, <4>2, ConcatProperties
    <3> QED BY <3>3, <3>4
  <2>4. LoopOK'
    BY <1>6, <2>3 DEF ConsumeFromCache, At, SecondLoop, ShapeInv, ShapeOK, LoopOK
  <2> QED BY <1>6, <2>2, <2>3, <2>4
          DEF ConsumeFromCache, At, SecondLoop, ShapeInv, ShapeOK
<1>7. CASE Reactivate(w)
  <2>1. ptr[w] \in Msgs /\ handled[w] + 1 \in 0..MaxThroughput
    BY <1>7 DEF Reactivate, WorkGoto, ShapeInv, ShapeOK, LoopOK, Msgs
  <2> QED BY <1>7, <2>1
          DEF Reactivate, WorkGoto, SecondLoop, ShapeInv, ShapeOK, LoopOK
<1>8. CASE PushToCache(w)
  BY <1>8 DEF PushToCache, At, ShapeInv, ShapeOK, LoopOK
<1>9. CASE HasNextMessage(w)
  BY <1>9 DEF HasNextMessage, WorkGoto, ShapeInv, ShapeOK, LoopOK
<1>10. CASE TailTryBlock(w)
  BY <1>10 DEF TailTryBlock, WorkGoto, TryBlock, StackIsEmpty,
               ShapeInv, ShapeOK, LoopOK
<1>11. CASE ReleaseSetEmpty(w)
  BY <1>11 DEF ReleaseSetEmpty, WorkGoto, ShapeInv, ShapeOK, LoopOK
<1>12. CASE ReleaseTryUnblock(w)
  BY <1>12 DEF ReleaseTryUnblock, WorkGoto, TryUnblock,
               ShapeInv, ShapeOK, LoopOK
<1>13. CASE ReleaseDeref(w)
  BY <1>13 DEF ReleaseDeref, Deref, WorkGoto, ShapeInv, ShapeOK, LoopOK
<1> QED BY <1>1, <1>2, <1>3, <1>4, <1>5, <1>6, <1>7, <1>8, <1>9, <1>10,
           <1>11, <1>12, <1>13 DEF WorkerStep

\* So does every step of the system.
LEMMA ShapeNext == ShapeInv /\ [Next]_vars => ShapeInv'
<1> SUFFICES ASSUME ShapeInv, [Next]_vars PROVE ShapeInv'
  OBVIOUS
<1>1. CASE OwnerRelease
  BY <1>1 DEF OwnerRelease, Deref, ShapeInv, ShapeOK, LoopOK
<1>2. CASE UNCHANGED vars
  BY <1>2 DEF vars, ShapeInv, ShapeOK, LoopOK
<1> QED BY <1>1, <1>2, ShapeSender, ShapeWorker DEF Next, Finished

\* The shape is an invariant, whatever the threads do.
LEMMA ShapeAlways == Spec => []ShapeInv
BY ShapeInit, ShapeNext, PTL DEF Spec

-----------------------------------------------------------------------------
(* Reference counting.                                                      *)

\* The threads that hold a reference for a job can be counted.
LEMMA CountsAreFinite ==
  /\ OwnerRefs \in Nat
  /\ IsFiniteSet(HandingOver) /\ Cardinality(HandingOver) \in Nat
  /\ IsFiniteSet(RunningWorkers) /\ Cardinality(RunningWorkers) \in Nat
<1>1. IsFiniteSet(Threads)
  BY ThreadsAssumption, FS_Union
<1>2. HandingOver \subseteq Threads /\ RunningWorkers \subseteq Workers
  BY DEF HandingOver, RunningWorkers
<1>3. OwnerRefs \in Nat
  BY DEF OwnerRefs
<1> QED BY <1>1, <1>2, <1>3, ThreadsAssumption, FS_Subset, FS_CardinalityType

\* A step in which nobody takes or gives back a reference.
LEMMA SameReferences ==
  ASSUME RefBalance, HandingOver' = HandingOver,
         RunningWorkers' = RunningWorkers, UNCHANGED <<memory, jobs>>
  PROVE  RefBalance'
BY DEF RefBalance, OwnerRefs

\* enqueue_base: ref() counts the reference of the job it hands over.
LEMMA RefSender ==
  ASSUME ShapeInv, RefBalance, rc \in Nat, NEW t \in Threads, SenderStep(t)
  PROVE  RefBalance' /\ rc' \in Nat
<1>t. /\ jobs \in Nat
      /\ spc \in [Threads -> SendPCs] /\ wpc \in [Workers -> WorkPCs]
  BY DEF ShapeInv, ShapeOK
<1>1. CASE Enqueue(t) \/ CheckFlags(t) \/ AddRefSetBusy(t) \/ AddRefTryBlock(t)
  <2>1. UNCHANGED <<wpc, memory, jobs>>
    BY <1>t, <1>1 DEF Enqueue, CheckFlags, AddRefSetBusy, AddRefTryBlock
  <2>2. \E pc \in SendPCs : pc # "execute" /\ spc' = [spc EXCEPT ![t] = pc]
    BY <1>t, <1>1 DEF Enqueue, CheckFlags, AddRefSetBusy, AddRefTryBlock, SendGoto
  <2>3. spc[t] # "execute"
    BY <1>t, <1>1 DEF Enqueue, CheckFlags, AddRefSetBusy, AddRefTryBlock, SendGoto
  <2>4. HandingOver' = HandingOver
    BY <1>t, <2>2, <2>3 DEF HandingOver
  <2>5. RunningWorkers' = RunningWorkers
    BY <1>t, <2>1 DEF RunningWorkers, Running
  <2> QED BY <2>1, <2>4, <2>5, SameReferences
<1>2. CASE AddRef(t)
  <2>1. HandingOver' = HandingOver \cup {t} /\ t \notin HandingOver
    BY <1>t, <1>2 DEF AddRef, SendGoto, HandingOver
  <2>2. Cardinality(HandingOver') = Cardinality(HandingOver) + 1
    BY <2>1, CountsAreFinite, FS_AddElement
  <2>3. RunningWorkers' = RunningWorkers
    BY <1>t, <1>2 DEF AddRef, RunningWorkers, Running
  <2> QED BY <1>t, <1>2, <2>2, <2>3, CountsAreFinite DEF AddRef, RefBalance, OwnerRefs
<1>3. CASE Execute(t)
  <2>1. HandingOver' = HandingOver \ {t} /\ t \in HandingOver
    BY <1>t, <1>3 DEF Execute, SendGoto, HandingOver
  <2>2. Cardinality(HandingOver') = Cardinality(HandingOver) - 1
    BY <2>1, CountsAreFinite, FS_RemoveElement
  <2>3. RunningWorkers' = RunningWorkers
    BY <1>t, <1>3 DEF Execute, RunningWorkers, Running
  <2> QED BY <1>t, <1>3, <2>2, <2>3, CountsAreFinite DEF Execute, RefBalance, OwnerRefs
<1> QED BY <1>1, <1>2, <1>3 DEF SenderStep, FinishSend

\* The worker takes the reference over with the job and deref() returns it.
LEMMA RefWorker ==
  ASSUME ShapeInv, RefBalance, rc \in Nat, NEW w \in Workers, WorkerStep(w)
  PROVE  RefBalance' /\ rc' \in Nat
<1>t. /\ jobs \in Nat
      /\ spc \in [Threads -> SendPCs] /\ wpc \in [Workers -> WorkPCs]
  BY DEF ShapeInv, ShapeOK
<1>1. CASE Dequeue(w)
  <2>1. RunningWorkers' = RunningWorkers \cup {w} /\ w \notin RunningWorkers
    BY <1>t, <1>1 DEF Dequeue, WorkGoto, LoopEntry, SecondLoop, RunningWorkers, Running
  <2>2. Cardinality(RunningWorkers') = Cardinality(RunningWorkers) + 1
    BY <2>1, CountsAreFinite, FS_AddElement
  <2>3. HandingOver' = HandingOver
    BY <1>t, <1>1 DEF Dequeue, HandingOver
  <2> QED BY <1>t, <1>1, <2>2, <2>3, CountsAreFinite DEF Dequeue, RefBalance, OwnerRefs
<1>2. CASE ReleaseDeref(w)
  <2>1. RunningWorkers' = RunningWorkers \ {w} /\ w \in RunningWorkers
    BY <1>t, <1>2 DEF ReleaseDeref, WorkGoto, RunningWorkers, Running
  <2>2. Cardinality(RunningWorkers') = Cardinality(RunningWorkers) - 1
    BY <2>1, CountsAreFinite, FS_RemoveElement
  <2>3. Cardinality(RunningWorkers') \in Nat
    BY <2>1, CountsAreFinite, FS_RemoveElement, FS_CardinalityType
  <2>4. HandingOver' = HandingOver
    BY <1>t, <1>2 DEF ReleaseDeref, HandingOver
  <2>5. rc' = rc - 1 /\ rc > 1 /\ jobs' = jobs /\ OwnerRefs' = OwnerRefs
    BY <1>t, <1>2, <2>2, <2>3, CountsAreFinite
    DEF ReleaseDeref, Deref, RefBalance, OwnerRefs
  <2>6. ~deleted'
    <3>1. rc # 1
      BY <2>5
    <3> QED BY <1>2, <3>1, Zenon DEF ReleaseDeref, Deref, RefBalance
  <2> QED BY <1>t, <2>2, <2>4, <2>5, <2>6, CountsAreFinite DEF RefBalance
<1>3. CASE ~Dequeue(w) /\ ~ReleaseDeref(w)
  <2>1. UNCHANGED <<spc, memory, jobs>>
    BY <1>t, <1>3 DEF WorkerStep, FetchNewData, FetchAssertFails, NextMessage,
                BlockOrRetry, ConsumeFromCache, Reactivate, PushToCache,
                HasNextMessage, TailTryBlock, ReleaseSetEmpty,
                ReleaseTryUnblock
  <2>2. wpc[w] # "idle"
    BY <1>t, <1>3 DEF WorkerStep, FetchNewData, FetchAssertFails, NextMessage,
                BlockOrRetry, ConsumeFromCache, Reactivate, PushToCache,
                HasNextMessage, TailTryBlock, ReleaseSetEmpty,
                ReleaseTryUnblock, WorkGoto, At
  <2>3. \E pc \in WorkPCs : pc # "idle" /\ wpc' = [wpc EXCEPT ![w] = pc]
    <3>1. CASE FetchNewData(w) \/ FetchAssertFails(w) \/ PushToCache(w)
      <4>1. wpc' = wpc
        BY <3>1 DEF FetchNewData, FetchAssertFails, PushToCache
      <4>2. wpc' = [wpc EXCEPT ![w] = wpc[w]] /\ wpc[w] \in WorkPCs
        BY <1>t, <4>1
      <4> QED BY <4>2, <2>2
    <3>2. CASE NextMessage(w)
      BY <3>2 DEF NextMessage
    <3>3. CASE BlockOrRetry(w)
      BY <3>3 DEF BlockOrRetry
    <3>4. CASE ConsumeFromCache(w) \/ Reactivate(w)
      BY <3>4 DEF ConsumeFromCache, Reactivate, SecondLoop, WorkGoto
    <3>5. CASE HasNextMessage(w) \/ TailTryBlock(w) \/ ReleaseSetEmpty(w)
                 \/ ReleaseTryUnblock(w)
      BY <3>5 DEF HasNextMessage, TailTryBlock, ReleaseSetEmpty,
                  ReleaseTryUnblock, WorkGoto
    <3> QED BY <1>t, <1>3, <3>1, <3>2, <3>3, <3>4, <3>5 DEF WorkerStep
  <2>4. RunningWorkers' = RunningWorkers
    BY <1>t, <2>2, <2>3 DEF RunningWorkers, Running
  <2>5. HandingOver' = HandingOver
    BY <1>t, <2>1 DEF HandingOver
  <2> QED BY <2>1, <2>4, <2>5, SameReferences
<1> QED BY <1>1, <1>2, <1>3

\* The references that rc_ counts are exactly the ones somebody holds, so the
\* count never reaches zero, and every variable keeps its type.
RefInv == ShapeInv /\ RefBalance /\ rc \in Nat

\* After spawn_actor rc_ counts the constructor's 1 and the owner's handle.
LEMMA RefInit == Init => RefInv
<1> SUFFICES ASSUME Init PROVE RefInv
  OBVIOUS
<1>1. HandingOver = {} /\ RunningWorkers = {}
  BY DEF Init, HandingOver, RunningWorkers, Running
<1> QED BY <1>1, ShapeInit, FS_EmptySet DEF Init, RefBalance, OwnerRefs, RefInv

\* No step of senders, workers or the owner unbalances rc_.
LEMMA RefNext == RefInv /\ [Next]_vars => RefInv'
<1> SUFFICES ASSUME RefInv, [Next]_vars PROVE RefInv'
  OBVIOUS
<1>1. ShapeInv'
  BY ShapeNext DEF RefInv
<1>2. CASE OwnerRelease
  <2>1. HandingOver' = HandingOver /\ RunningWorkers' = RunningWorkers
    BY <1>2 DEF OwnerRelease, HandingOver, RunningWorkers, Running
  <2>2. jobs \in Nat /\ jobs' = jobs /\ OwnerRefs = 1 /\ OwnerRefs' = 0
    BY <1>2 DEF OwnerRelease, OwnerRefs, RefInv, ShapeInv, ShapeOK
  <2>3. rc' = rc - 1 /\ rc > 1
    BY <1>2, <2>2, CountsAreFinite DEF OwnerRelease, Deref, RefInv, RefBalance
  <2>4. ~deleted'
    <3>1. rc # 1
      BY <2>3 DEF RefInv
    <3> QED BY <1>2, <3>1, Zenon DEF OwnerRelease, Deref, RefInv, RefBalance
  <2> QED BY <1>1, <2>1, <2>2, <2>3, <2>4, CountsAreFinite
          DEF RefInv, RefBalance
<1>3. CASE UNCHANGED vars
  <2>1. HandingOver' = HandingOver /\ RunningWorkers' = RunningWorkers
    BY <1>3 DEF vars, HandingOver, RunningWorkers, Running
  <2> QED BY <1>1, <1>3, <2>1, SameReferences DEF vars, RefInv
<1> QED BY <1>1, <1>2, <1>3, RefSender, RefWorker DEF Next, Finished, RefInv

\* Every variable keeps its type; in particular rc_ is never decremented
\* below zero and handled_msgs never exceeds max_throughput.
THEOREM TypeCorrect == Spec => []TypeOK
<1>1. RefInv => TypeOK
  BY DEF RefInv, RefBalance, ShapeInv, ShapeOK, TypeOK
<1> QED BY <1>1, RefInit, RefNext, PTL DEF Spec

\* rc_ counts exactly the references that are held, and the destructor of
\* the actor never runs.
THEOREM ReferencesBalance == Spec => []RefBalance
<1>1. RefInv => RefBalance
  BY DEF RefInv
<1> QED BY <1>1, RefInit, RefNext, PTL DEF Spec

-----------------------------------------------------------------------------
(* One thread sends from outside: the actor is never run twice at once.     *)

\* From the store of flags(busy) to that of flags(empty) somebody holds the
\* right to run the actor: the sender that schedules it, the queued job, or
\* the worker that runs it.
Active(w) == wpc[w] \in ReadPCs \cup {"rel_flags"}

NobodyActive == \A w \in Workers : ~Active(w)

\* The inductive invariant behind OneSenderOneReader: the right to run is at
\* most at one place, and flags() tells whether it is anywhere.
OneTokenInv(s) ==
  /\ \A w \in Workers : Active(w) =>
       /\ flags = "busy" /\ jobs = 0 /\ spc[s] \in {"idle", "check"}
       /\ \A v \in Workers : Active(v) => v = w
  /\ jobs # 0 =>
       /\ jobs = 1 /\ flags = "busy" /\ spc[s] \in {"idle", "check"}
       /\ NobodyActive
  /\ spc[s] = "set_busy" => flags = "empty" /\ jobs = 0 /\ NobodyActive
  /\ spc[s] \in {"try_block", "ref", "execute"} =>
       flags = "busy" /\ jobs = 0 /\ NobodyActive
  /\ \A w \in Workers : spc[w] = "idle" \/
                        (spc[w] = "check" /\ wpc[w] = "reactivate")

\* With one outside sender s, enqueue_base schedules only an actor that
\* nobody runs or is about to run.
LEMMA TokenSender ==
  ASSUME NEW s, Senders = {s}, ShapeInv, OneTokenInv(s),
         NEW t \in Threads, SenderStep(t)
  PROVE  OneTokenInv(s)'
<1>t. /\ jobs \in Nat /\ flags \in {"empty", "busy"}
      /\ spc \in [Threads -> SendPCs] /\ wpc \in [Workers -> WorkPCs]
      /\ s \notin Workers
  BY ThreadsAssumption DEF ShapeInv, ShapeOK
<1>1. UNCHANGED wpc
  BY DEF SenderStep, FinishSend, Enqueue, CheckFlags, AddRefSetBusy,
         AddRefTryBlock, AddRef, Execute
<1>2. CASE Enqueue(t)
  BY <1>t, <1>1, <1>2 DEF Enqueue, SendGoto, MaySend, OneTokenInv, Active,
                          NobodyActive
<1>3. CASE CheckFlags(t)
  <2>1. CASE t = s
    BY <1>t, <1>1, <1>3, <2>1 DEF CheckFlags, SendGoto, OneTokenInv, Active,
                                  NobodyActive
  <2>2. CASE t \in Workers
    <3>1. flags = "busy"
      BY <1>t, <1>3, <2>2 DEF CheckFlags, SendGoto, OneTokenInv, Active
    <3> QED BY <1>t, <1>1, <1>3, <2>2, <3>1
            DEF CheckFlags, SendGoto, OneTokenInv, Active, NobodyActive
  <2> QED BY <2>1, <2>2
<1>4. CASE AddRefSetBusy(t) \/ AddRefTryBlock(t) \/ AddRef(t) \/ Execute(t)
  <2>1. t = s
    BY <1>t, <1>4 DEF AddRefSetBusy, AddRefTryBlock, AddRef, Execute, SendGoto,
                      OneTokenInv
  <2>2. CASE AddRefSetBusy(t)
    BY <1>t, <1>1, <2>1, <2>2 DEF AddRefSetBusy, SendGoto, OneTokenInv, Active,
                                  NobodyActive
  <2>3. CASE AddRefTryBlock(t) \/ AddRef(t)
    BY <1>t, <1>1, <2>1, <2>3 DEF AddRefTryBlock, AddRef, SendGoto,
                                  OneTokenInv, Active, NobodyActive
  <2>4. CASE Execute(t)
    BY <1>t, <1>1, <2>1, <2>4 DEF Execute, SendGoto, OneTokenInv, Active,
                                  NobodyActive
  <2> QED BY <1>4, <2>2, <2>3, <2>4
<1> QED BY <1>2, <1>3, <1>4 DEF SenderStep, FinishSend

\* A worker gets the right to run the actor with the job and gives it back
\* when intrusive_ptr_release_impl stores flags(empty).
LEMMA TokenWorker ==
  ASSUME NEW s, Senders = {s}, ShapeInv, OneTokenInv(s),
         NEW w \in Workers, WorkerStep(w)
  PROVE  OneTokenInv(s)'
<1>t. /\ jobs \in Nat /\ flags \in {"empty", "busy"}
      /\ spc \in [Threads -> SendPCs] /\ wpc \in [Workers -> WorkPCs]
  BY DEF ShapeInv, ShapeOK
<1>1. UNCHANGED spc
  BY DEF WorkerStep, Dequeue, FetchNewData, FetchAssertFails, NextMessage,
         BlockOrRetry, ConsumeFromCache, Reactivate, PushToCache,
         HasNextMessage, TailTryBlock, ReleaseSetEmpty, ReleaseTryUnblock,
         ReleaseDeref
<1>2. CASE Dequeue(w)
  <2>1. LoopEntry(0) \in ReadPCs /\ LoopEntry(0) # "reactivate"
    BY DEF LoopEntry, SecondLoop
  <2> QED BY <1>t, <1>1, <1>2, <2>1 DEF Dequeue, WorkGoto, OneTokenInv, Active,
                                        NobodyActive
<1>3. CASE ReleaseSetEmpty(w)
  BY <1>t, <1>1, <1>3 DEF ReleaseSetEmpty, WorkGoto, OneTokenInv, Active,
                          NobodyActive
<1>4. CASE ReleaseTryUnblock(w) \/ ReleaseDeref(w)
  BY <1>t, <1>1, <1>4 DEF ReleaseTryUnblock, ReleaseDeref, WorkGoto,
                          OneTokenInv, Active, NobodyActive
<1>5. CASE Reactivate(w)
  <2>1. spc[w] = "idle" /\ wpc[w] = "reactivate"
    BY <1>5 DEF Reactivate, WorkGoto
  <2>2. \E pc \in {"next2", "tail"} : wpc' = [wpc EXCEPT ![w] = pc]
    BY <1>5 DEF Reactivate, WorkGoto, SecondLoop
  <2>3. UNCHANGED <<flags, jobs>>
    BY <1>5 DEF Reactivate
  <2> QED BY <1>t, <1>1, <2>1, <2>2, <2>3 DEF OneTokenInv, Active, NobodyActive
<1>6. CASE FetchNewData(w) \/ FetchAssertFails(w) \/ PushToCache(w)
  BY <1>1, <1>6 DEF FetchNewData, FetchAssertFails, PushToCache, OneTokenInv,
                    Active, NobodyActive
<1>7. CASE NextMessage(w) \/ BlockOrRetry(w) \/ ConsumeFromCache(w)
             \/ HasNextMessage(w) \/ TailTryBlock(w)
  <2>1. wpc[w] \in ReadPCs /\ wpc[w] # "reactivate" /\ UNCHANGED <<flags, jobs>>
    BY <1>7 DEF NextMessage, BlockOrRetry, ConsumeFromCache, HasNextMessage,
                TailTryBlock, WorkGoto, At
  <2>2. \E pc \in ReadPCs \cup {"rel_flags"} : wpc' = [wpc EXCEPT ![w] = pc]
    <3>1. CASE NextMessage(w) \/ BlockOrRetry(w)
      BY <3>1 DEF NextMessage, BlockOrRetry
    <3>2. CASE ConsumeFromCache(w)
      BY <3>2 DEF ConsumeFromCache, SecondLoop
    <3>3. CASE HasNextMessage(w) \/ TailTryBlock(w)
      BY <3>3 DEF HasNextMessage, TailTryBlock, WorkGoto
    <3> QED BY <1>7, <3>1, <3>2, <3>3
  <2> QED BY <1>t, <1>1, <2>1, <2>2 DEF OneTokenInv, Active, NobodyActive
<1> QED BY <1>2, <1>3, <1>4, <1>5, <1>6, <1>7 DEF WorkerStep

\* The right to run the actor is never doubled.
LEMMA TokenNext ==
  ASSUME NEW s, Senders = {s}
  PROVE  ShapeInv /\ OneTokenInv(s) /\ [Next]_vars => OneTokenInv(s)'
<1> SUFFICES ASSUME ShapeInv, OneTokenInv(s), [Next]_vars
             PROVE  OneTokenInv(s)'
  OBVIOUS
<1>1. CASE OwnerRelease
  BY <1>1 DEF OwnerRelease, OneTokenInv, Active, NobodyActive
<1>2. CASE UNCHANGED vars
  BY <1>2 DEF vars, OneTokenInv, Active, NobodyActive
<1> QED BY <1>1, <1>2, TokenSender, TokenWorker DEF Next, Finished

\* While one thread sends from outside, and however many messages the
\* handlers send to their own actor, at most one worker runs the actor: the
\* check of flags() and the store of busy are not atomic, but no other thread
\* can be between them.
THEOREM OneSenderOneReader ==
  ASSUME NEW s, Senders = {s}
  PROVE  Spec => []SingleReader
<1>1. Init => OneTokenInv(s)
  BY DEF Init, OneTokenInv, Active, NobodyActive
<1>2. OneTokenInv(s) => SingleReader
  BY DEF OneTokenInv, Active, SingleReader, Reading
<1> QED BY <1>1, <1>2, ShapeAlways, TokenNext, PTL DEF Spec

-----------------------------------------------------------------------------
(* A single reader is enough for first-in first-out delivery.               *)

\* A queue is its head followed by its tail.
LEMMA HeadThenTail ==
  ASSUME NEW S, NEW x \in Seq(S), NEW q \in Seq(S), q # <<>>
  PROVE  x \o q = (x \o <<Head(q)>>) \o Tail(q)
<1>1. q = <<Head(q)>> \o Tail(q)
  BY SubSeqFull, SubSeqRecursiveFirst, TailIsSubSeq
<1>2. <<Head(q)>> \in Seq(S) /\ Tail(q) \in Seq(S)
  BY HeadTailProperties
<1> QED BY <1>1, <1>2, ConcatAssociative

\* The laws of concatenation for sequences of messages.
LEMMA MsgsConcat ==
  /\ \A x, y, z \in Seq(Msgs) : (x \o y) \o z = x \o (y \o z)
  /\ \A x \in Seq(Msgs) : x \o <<>> = x
  /\ \A x, y \in Seq(Msgs), m \in Msgs : Append(x \o y, m) = x \o Append(y, m)
<1>1. \A x, y, z \in Seq(Msgs) : (x \o y) \o z = x \o (y \o z)
  BY ConcatAssociative
<1>2. \A x \in Seq(Msgs) : x \o <<>> = x
  BY ConcatEmptySeq
<1>3. \A x, y \in Seq(Msgs), m \in Msgs : Append(x \o y, m) = x \o Append(y, m)
  <2> TAKE x, y \in Seq(Msgs), m \in Msgs
  <2>1. <<m>> \in Seq(Msgs) /\ x \o y \in Seq(Msgs)
    BY ConcatProperties
  <2>2. Append(y, m) = y \o <<m>>
    BY AppendIsConcat
  <2>3. Append(x \o y, m) = (x \o y) \o <<m>>
    BY <2>1, AppendIsConcat
  <2> QED BY <1>1, <2>1, <2>2, <2>3
<1> QED BY <1>1, <1>2, <1>3

\* Everything in the mailbox and out of it, with m in hand.
Held(m) == consumed \o Hand(m) \o skipped \o cache \o stack

\* The second partition of the cache is filled only on the way to the abort.
NoneSkipped == ~crashed => skipped = <<>>

\* The inductive invariant of the order of messages.
FifoInv == FifoDelivery /\ NoneSkipped

\* The parts of the mailbox, one after the other, are a sequence of messages.
LEMMA HeldType ==
  ASSUME ShapeInv, NEW m \in 0..MaxMsgs
  PROVE  /\ Hand(m) \in Seq(Msgs)
         /\ consumed \o Hand(m) \in Seq(Msgs)
         /\ consumed \o Hand(m) \o skipped \in Seq(Msgs)
         /\ consumed \o Hand(m) \o skipped \o cache \in Seq(Msgs)
         /\ Held(m) \in Seq(Msgs)
<1>1. Hand(m) \in Seq(Msgs)
  <2>1. CASE m = 0
    BY <2>1, EmptySeq DEF Hand
  <2>2. CASE m # 0
    <3>1. m \in Msgs
      BY <2>2, BoundsAssumption DEF Msgs
    <3> QED BY <2>2, <3>1 DEF Hand
  <2> QED BY <2>1, <2>2
<1>2. consumed \in Seq(Msgs) /\ skipped \in Seq(Msgs)
        /\ cache \in Seq(Msgs) /\ stack \in Seq(Msgs)
  BY DEF ShapeInv, ShapeOK
<1>3. consumed \o Hand(m) \in Seq(Msgs)
  BY <1>1, <1>2, ConcatProperties
<1>4. consumed \o Hand(m) \o skipped \in Seq(Msgs)
  BY <1>3, <1>2, ConcatProperties
<1>5. consumed \o Hand(m) \o skipped \o cache \in Seq(Msgs)
  BY <1>4, <1>2, ConcatProperties
<1> QED BY <1>1, <1>2, <1>3, <1>4, <1>5, ConcatProperties DEF Held

\* A worker that is reading is the only one that can hold a message.
LEMMA OnlyReaderHolds ==
  ASSUME ShapeInv, SingleReader, FifoDelivery, NEW w \in Workers, Reading(w)
  PROVE  /\ \A v \in Workers \ {w} : ptr[v] = 0
         /\ pushed = Held(ptr[w])
<1>1. \A v \in Workers \ {w} : ptr[v] = 0
  BY DEF ShapeInv, LoopOK, SingleReader, Reading
<1> QED BY <1>1 DEF FifoDelivery, Held

\* It is then enough to show the equation for that worker after its step.
LEMMA ReaderSuffices ==
  ASSUME NEW w \in Workers, \A v \in Workers \ {w} : ptr'[v] = 0,
         pushed' = Held(ptr[w])'
  PROVE  FifoDelivery'
BY DEF FifoDelivery, Held, Hand

\* A step that leaves every part where it is.
LEMMA SameParts ==
  ASSUME FifoDelivery, UNCHANGED <<stack, cache, skipped, ptr, pushed, consumed>>
  PROVE  FifoDelivery'
BY DEF FifoDelivery, Hand

\* enqueue_base appends at the end of stack_, and to nothing else.
LEMMA FifoSender ==
  ASSUME ShapeInv, FifoInv, NEW t \in Threads, SenderStep(t)
  PROVE  FifoInv'
<1>1. CASE Enqueue(t)
  <2>1. Len(pushed) + 1 \in Msgs
    BY <1>1, BoundsAssumption DEF Enqueue, Msgs, ShapeInv, ShapeOK
  <2>2. ASSUME NEW w \in Workers, \A v \in Workers \ {w} : ptr'[v] = 0
        PROVE  pushed' = Held(ptr[w])'
    <3>1. ptr' = ptr /\ ptr[w] \in 0..MaxMsgs
      BY <1>1 DEF Enqueue, ShapeInv, ShapeOK
    <3> DEFINE x == consumed \o Hand(ptr[w]) \o skipped \o cache
               m == Len(pushed) + 1
    <3>2. pushed = x \o stack
      BY <2>2, <3>1 DEF FifoInv, FifoDelivery
    <3>3. x \in Seq(Msgs) /\ stack \in Seq(Msgs)
      BY <3>1, HeldType DEF ShapeInv, ShapeOK
    <3>4. Append(x \o stack, m) = x \o Append(stack, m)
      <4> HIDE DEF x, m
      <4>1. m \in Msgs
        BY <2>1 DEF m
      <4> QED BY <4>1, <3>3, MsgsConcat
    <3>5. pushed' = x \o Append(stack, m)
      BY <1>1, <3>2, <3>4 DEF Enqueue
    <3> QED BY <1>1, <3>1, <3>5 DEF Enqueue, Held
  <2>3. FifoDelivery'
    BY <2>2 DEF FifoDelivery, Held
  <2> QED BY <1>1, <2>3 DEF Enqueue, FifoInv, NoneSkipped
<1>2. CASE FinishSend(t)
  <2>1. UNCHANGED <<stack, cache, skipped, ptr, pushed, consumed, crashed>>
    BY <1>2 DEF FinishSend, CheckFlags, AddRefSetBusy, AddRefTryBlock, AddRef,
                Execute
  <2> QED BY <2>1, SameParts DEF FifoInv, NoneSkipped
<1> QED BY <1>1, <1>2 DEF SenderStep

\* A step of the only reader moves messages from one part to the one before
\* it, and never past another message.
LEMMA FifoWorker ==
  ASSUME ShapeInv, FifoInv, SingleReader, NEW w \in Workers, WorkerStep(w)
  PROVE  FifoInv'
<1>t. /\ stack \in Seq(Msgs) /\ cache \in Seq(Msgs) /\ skipped \in Seq(Msgs)
      /\ consumed \in Seq(Msgs) /\ ptr \in [Workers -> 0..MaxMsgs]
      /\ wpc \in [Workers -> WorkPCs] /\ LoopOK /\ FifoDelivery /\ NoneSkipped
  BY DEF ShapeInv, ShapeOK, FifoInv
<1>1. CASE Dequeue(w)
  <2>1. ptr[w] = 0
    BY <1>t, <1>1 DEF Dequeue, WorkGoto, LoopOK
  <2>2. ptr' = ptr
    BY <1>t, <1>1, <2>1 DEF Dequeue
  <2> QED BY <1>1, <1>t, <2>2, SameParts DEF Dequeue, FifoInv, NoneSkipped
<1>2. CASE FetchNewData(w)
  <2>1. /\ Reading(w) /\ ptr' = ptr /\ pushed' = pushed
        /\ consumed' = consumed /\ skipped' = skipped
        /\ cache' = cache \o stack /\ stack' = <<>>
    BY <1>2 DEF FetchNewData, At, Reading
  <2> DEFINE x == consumed \o Hand(ptr[w]) \o skipped
  <2>2. x \in Seq(Msgs)
    BY <1>t, HeldType
  <2>3. pushed = (x \o cache) \o stack
    BY <1>t, <2>1, OnlyReaderHolds DEF Held
  <2>4. cache \o stack \in Seq(Msgs) /\ x \o (cache \o stack) \in Seq(Msgs)
    BY <1>t, <2>2, ConcatProperties
  <2>5. pushed = (x \o (cache \o stack)) \o <<>>
    <3> HIDE DEF x
    <3>1. (x \o cache) \o stack = x \o (cache \o stack)
      BY <1>t, <2>2, MsgsConcat
    <3>2. (x \o (cache \o stack)) \o <<>> = x \o (cache \o stack)
      BY <2>4, ConcatEmptySeq
    <3> QED BY <2>3, <3>1, <3>2
  <2>6. pushed' = Held(ptr[w])'
    BY <2>1, <2>5 DEF Held
  <2>7. FifoDelivery'
    BY <1>t, <2>1, <2>6, OnlyReaderHolds, ReaderSuffices
  <2> QED BY <1>2, <1>t, <2>7 DEF FetchNewData, FifoInv, NoneSkipped
<1>3. CASE NextMessage(w) /\ cache # <<>>
  <2>1. /\ Reading(w) /\ ptr' = [ptr EXCEPT ![w] = Head(cache)]
        /\ cache' = Tail(cache) /\ ptr[w] = 0 /\ ~crashed
        /\ UNCHANGED <<pushed, consumed, skipped, stack, crashed>>
    BY <1>t, <1>3 DEF NextMessage, At, Reading, LoopOK
  <2>2. Head(cache) \in Msgs /\ Head(cache) # 0 /\ Tail(cache) \in Seq(Msgs)
    <3>1. Head(cache) \in Msgs /\ Tail(cache) \in Seq(Msgs)
      BY <1>t, <1>3, HeadTailProperties
    <3> QED BY <3>1, BoundsAssumption DEF Msgs
  <2>3. skipped = <<>>
    BY <1>t, <2>1 DEF NoneSkipped
  <2>4. pushed = (consumed \o cache) \o stack
    BY <1>t, <2>1, <2>3, OnlyReaderHolds, ConcatEmptySeq DEF Held, Hand
  <2>5. consumed \o cache = (consumed \o <<Head(cache)>>) \o Tail(cache)
    BY <1>t, <1>3, HeadThenTail
  <2>6. consumed \o <<Head(cache)>> \in Seq(Msgs)
    BY <1>t, <2>2, ConcatProperties
  <2>7. Held(ptr[w])'
          = ((consumed \o <<Head(cache)>> \o skipped) \o Tail(cache)) \o stack
    BY <1>t, <2>1, <2>2 DEF Held, Hand
  <2>8. pushed' = Held(ptr[w])'
    BY <2>1, <2>3, <2>4, <2>5, <2>6, <2>7, ConcatEmptySeq
  <2>9. FifoDelivery'
    BY <1>t, <2>1, <2>8, OnlyReaderHolds, ReaderSuffices
  <2> QED BY <1>t, <2>1, <2>9 DEF FifoInv, NoneSkipped
<1>4. CASE ConsumeFromCache(w) \/ Reactivate(w)
  <2>1. /\ Reading(w) /\ ptr[w] # 0 /\ ptr[w] \in Msgs /\ ~crashed
        /\ ptr' = [ptr EXCEPT ![w] = 0]
    BY <1>t, <1>4 DEF ConsumeFromCache, Reactivate, WorkGoto, At, Reading,
                      LoopOK, Msgs
  <2>2. skipped = <<>>
    BY <1>t, <2>1 DEF NoneSkipped
  <2>3. Append(consumed, ptr[w]) = consumed \o <<ptr[w]>>
          /\ consumed \o <<ptr[w]>> \in Seq(Msgs)
    BY <1>t, <2>1, AppendIsConcat, AppendProperties
  <2>4. /\ consumed' = consumed \o <<ptr[w]>> /\ skipped' = skipped
        /\ UNCHANGED <<pushed, cache, stack, crashed>>
    BY <1>4, <2>2, <2>3, ConcatEmptySeq DEF ConsumeFromCache, Reactivate
  <2>5. pushed = ((consumed \o <<ptr[w]>>) \o skipped) \o cache \o stack
    BY <1>t, <2>1, OnlyReaderHolds DEF Held, Hand
  <2>6. Held(ptr[w])'
          = (((consumed \o <<ptr[w]>>) \o <<>>) \o skipped) \o cache \o stack
    BY <1>t, <2>1, <2>4 DEF Held, Hand
  <2>7. pushed' = Held(ptr[w])'
    BY <2>3, <2>4, <2>5, <2>6, ConcatEmptySeq
  <2>8. FifoDelivery'
    BY <1>t, <2>1, <2>7, OnlyReaderHolds, ReaderSuffices
  <2> QED BY <1>t, <2>4, <2>8 DEF FifoInv, NoneSkipped
<1>5. CASE PushToCache(w)
  <2>1. /\ Reading(w) /\ ptr[w] = 0 /\ ~crashed
        /\ skipped' = (skipped \o cache) \o stack
        /\ cache' = <<>> /\ stack' = <<>> /\ crashed' = TRUE
        /\ UNCHANGED <<ptr, pushed, consumed>>
    BY <1>t, <1>5 DEF PushToCache, At, Reading, LoopOK
  <2>2. skipped = <<>>
    BY <1>t, <2>1 DEF NoneSkipped
  <2>3. cache \o stack \in Seq(Msgs) /\ consumed \o cache \in Seq(Msgs)
          /\ consumed \o (cache \o stack) \in Seq(Msgs)
    <3>1. cache \o stack \in Seq(Msgs)
      BY <1>t, ConcatProperties
    <3> QED BY <1>t, <3>1, ConcatProperties
  <2>4. pushed = consumed \o (cache \o stack)
    <3>1. pushed = (consumed \o <<>> \o <<>> \o cache) \o stack
      BY <1>t, <2>1, <2>2, OnlyReaderHolds DEF Held, Hand
    <3>2. consumed \o <<>> \o <<>> = consumed
      BY <1>t, MsgsConcat
    <3>3. (consumed \o cache) \o stack = consumed \o (cache \o stack)
      BY <1>t, MsgsConcat
    <3> QED BY <3>1, <3>2, <3>3
  <2>5. Held(ptr[w])' = (consumed \o <<>> \o (cache \o stack)) \o <<>> \o <<>>
    BY <1>t, <2>1, <2>2, ConcatEmptySeq DEF Held, Hand
  <2>6. pushed' = Held(ptr[w])'
    BY <1>t, <2>1, <2>3, <2>4, <2>5, ConcatEmptySeq
  <2>7. FifoDelivery'
    BY <1>t, <2>1, <2>6, OnlyReaderHolds, ReaderSuffices
  <2> QED BY <2>1, <2>7 DEF FifoInv, NoneSkipped
<1>6. CASE \/ FetchAssertFails(w) \/ (NextMessage(w) /\ cache = <<>>)
           \/ BlockOrRetry(w) \/ HasNextMessage(w) \/ TailTryBlock(w)
           \/ ReleaseSetEmpty(w) \/ ReleaseTryUnblock(w) \/ ReleaseDeref(w)
  <2>1. UNCHANGED <<stack, cache, skipped, ptr, pushed, consumed>> /\ ~crashed
    BY <1>6 DEF FetchAssertFails, NextMessage, BlockOrRetry, HasNextMessage,
                TailTryBlock, ReleaseSetEmpty, ReleaseTryUnblock, ReleaseDeref,
                WorkGoto, At
  <2> QED BY <1>t, <2>1, SameParts DEF FifoInv, NoneSkipped
<1> QED BY <1>1, <1>2, <1>3, <1>4, <1>5, <1>6 DEF WorkerStep

\* While there is a single reader, every step keeps the order.
LEMMA FifoNext == ShapeInv /\ FifoInv /\ SingleReader /\ [Next]_vars => FifoInv'
<1> SUFFICES ASSUME ShapeInv, FifoInv, SingleReader, [Next]_vars
             PROVE  FifoInv'
  OBVIOUS
<1>1. CASE OwnerRelease \/ UNCHANGED vars
  <2>1. UNCHANGED <<stack, cache, skipped, ptr, pushed, consumed, crashed>>
    BY <1>1 DEF OwnerRelease, vars
  <2> QED BY <2>1, SameParts DEF FifoInv, NoneSkipped
<1> QED BY <1>1, FifoSender, FifoWorker DEF Next, Finished

\* A new actor's mailbox is empty, and nothing was pushed.
LEMMA FifoInit == Init => FifoInv
BY ConcatEmptySeq, EmptySeq DEF Init, FifoInv, FifoDelivery, NoneSkipped, Hand

\* As long as no two workers run the actor at once, its messages leave the
\* mailbox in the order they were pushed and none is lost or doubled inside
\* it, whatever the number of senders.
THEOREM SingleReaderGivesFifo == Spec /\ []SingleReader => []FifoDelivery
<1>1. FifoInv => FifoDelivery
  BY DEF FifoInv
<1> QED BY <1>1, FifoInit, FifoNext, ShapeAlways, PTL DEF Spec

\* An executor with one worker, as in every example, delivers in order.
THEOREM OneWorkerFifo ==
  ASSUME NEW w, Workers = {w}
  PROVE  Spec => []FifoDelivery
<1>1. ShapeInv => SingleReader
  BY DEF SingleReader
<1> QED BY <1>1, ShapeAlways, SingleReaderGivesFifo, PTL

\* One sending thread and any number of workers deliver in order.
THEOREM OneSenderFifo ==
  ASSUME NEW s, Senders = {s}
  PROVE  Spec => []FifoDelivery
BY OneSenderOneReader, SingleReaderGivesFifo, PTL

-----------------------------------------------------------------------------
(* A single reader drops no message of the first max_throughput.            *)

\* Messages are numbered as they are pushed.
Numbered == \A i \in 1..Len(pushed) : pushed[i] = i

\* A run has consumed what it counts as handled.
HandledConsumed == \A w \in Workers : handled[w] <= Len(consumed)

\* max_throughput messages have left the mailbox.
FirstBatchOut == MaxThroughput <= Len(consumed)

\* run enters its first loop, the one that drops, only with a cache that an
\* earlier run has left, and a run leaves one only after a full batch.
BacklogOK ==
  /\ \A w \in Workers :
       /\ wpc[w] \in {"next1", "block1", "consume1"} => FirstBatchOut
       /\ wpc[w] \in {"block1", "block2"} => cache = <<>>
       /\ wpc[w] \in {"tail", "tail_block"} => handled[w] = MaxThroughput
  /\ cache # <<>> =>
       FirstBatchOut \/ \E w \in Workers : wpc[w] \in {"next2", "reactivate"}

\* They leave it in the order of their numbers.
ConsumedNumbered == \A i \in 1..Len(consumed) : consumed[i] = i

\* What is destroyed comes after them.
DroppedLate == \A m \in dropped : FirstBatchOut /\ m > MaxThroughput

\* The inductive invariant of FirstBatchDelivered.
BatchInv ==
  Numbered /\ HandledConsumed /\ BacklogOK /\ ConsumedNumbered /\ DroppedLate

LEMMA BatchInit == Init => BatchInv
<1> SUFFICES ASSUME Init PROVE BatchInv
  OBVIOUS
<1>1. pushed = <<>> /\ consumed = <<>> /\ Len(pushed) = 0 /\ Len(consumed) = 0
  BY DEF Init
<1>2. Numbered /\ HandledConsumed /\ ConsumedNumbered
  BY <1>1 DEF Init, Numbered, HandledConsumed, ConsumedNumbered
<1>3. BacklogOK /\ DroppedLate
  BY DEF Init, BacklogOK, DroppedLate
<1> QED BY <1>2, <1>3 DEF BatchInv

\* enqueue_base gives the next number to the message it pushes.
LEMMA BatchSender ==
  ASSUME ShapeInv, BatchInv, NEW t \in Threads, SenderStep(t)
  PROVE  BatchInv'
<1>1. /\ UNCHANGED <<consumed, handled, wpc, cache, dropped>>
      /\ pushed' = pushed \/ pushed' = Append(pushed, Len(pushed) + 1)
  BY DEF SenderStep, Enqueue, FinishSend, CheckFlags, AddRefSetBusy, AddRefTryBlock,
         AddRef, Execute
<1>2. HandledConsumed' /\ BacklogOK' /\ ConsumedNumbered' /\ DroppedLate'
  BY <1>1 DEF BatchInv, HandledConsumed, BacklogOK, ConsumedNumbered, FirstBatchOut, DroppedLate
<1>3. Numbered'
  <2>1. pushed \in Seq(Msgs) /\ Len(pushed) \in Nat /\ \A i \in 1..Len(pushed) : pushed[i] = i
    BY DEF ShapeInv, ShapeOK, BatchInv, Numbered
  <2>2. CASE pushed' = Append(pushed, Len(pushed) + 1)
    <3>1. /\ Len(pushed') = Len(pushed) + 1 /\ pushed'[Len(pushed) + 1] = Len(pushed) + 1
          /\ \A i \in 1..Len(pushed) : pushed'[i] = pushed[i]
      BY <2>1, <2>2
    <3>2. \A i \in 1..(Len(pushed) + 1) : i \in 1..Len(pushed) \/ i = Len(pushed) + 1
      BY <2>1
    <3> QED BY <2>1, <3>1, <3>2 DEF Numbered
  <2> QED BY <1>1, <2>1, <2>2 DEF Numbered
<1> QED BY <1>2, <1>3 DEF BatchInv

\* The message in hand is the next one after those consumed.
LEMMA InHandIsNext ==
  ASSUME ShapeInv, FifoInv, SingleReader, Numbered,
         NEW w \in Workers, Reading(w), ptr[w] # 0
  PROVE  ptr[w] = Len(consumed) + 1
<1> DEFINE m == ptr[w]
           x == consumed \o <<m>>
           y == x \o skipped
           z == y \o cache
<1>1. pushed = z \o stack /\ m \in Msgs
  <2>1. pushed = Held(ptr[w]) /\ Hand(ptr[w]) = <<ptr[w]>>
    BY OnlyReaderHolds DEF FifoInv, Hand
  <2>2. ptr[w] \in 0..MaxMsgs
    BY DEF ShapeInv, ShapeOK
  <2> QED BY <2>1, <2>2, BoundsAssumption DEF Held, Msgs
<1>2. /\ consumed \in Seq(Msgs) /\ skipped \in Seq(Msgs) /\ cache \in Seq(Msgs)
      /\ stack \in Seq(Msgs)
  BY DEF ShapeInv, ShapeOK
<1> HIDE DEF m
<1>3. x \in Seq(Msgs) /\ Len(x) = Len(consumed) + 1 /\ x[Len(consumed) + 1] = m
      /\ Len(consumed) \in Nat
  BY <1>1, <1>2
<1> HIDE DEF x
<1> DEFINE k == Len(consumed) + 1
<1>4. k \in 1..Len(x)
  BY <1>3
<1>5. y \in Seq(Msgs) /\ k \in 1..Len(y) /\ y[k] = m
  BY <1>2, <1>3, <1>4
<1> HIDE DEF y, k
<1>6. z \in Seq(Msgs) /\ k \in 1..Len(z) /\ z[k] = m
  BY <1>2, <1>5
<1> HIDE DEF z
<1>7. k \in 1..Len(pushed) /\ pushed[k] = m
  BY <1>1, <1>2, <1>6
<1> QED BY <1>7 DEF Numbered, m, k

LEMMA BatchWorker ==
  ASSUME ShapeInv, FifoInv, BatchInv, SingleReader, SingleReader',
         NEW w \in Workers, WorkerStep(w)
  PROVE  BatchInv'
<1>t. /\ consumed \in Seq(Msgs) /\ Len(consumed) \in Nat /\ wpc \in [Workers -> WorkPCs]
      /\ handled \in [Workers -> 0..MaxThroughput] /\ MaxThroughput \in Nat
      /\ cache \in Seq(Msgs) /\ stack \in Seq(Msgs)
      /\ Numbered /\ HandledConsumed /\ BacklogOK /\ ConsumedNumbered /\ DroppedLate
  BY BoundsAssumption DEF ShapeInv, ShapeOK, BatchInv
<1>n. Numbered'
  BY <1>t DEF WorkerStep, Dequeue, FetchNewData, FetchAssertFails, NextMessage, BlockOrRetry,
         ConsumeFromCache, Reactivate, PushToCache, HasNextMessage, TailTryBlock,
         ReleaseSetEmpty, ReleaseTryUnblock, ReleaseDeref, Numbered
<1>s. \A v \in Workers : Reading(v) /\ Reading(w) => v = w
  BY DEF SingleReader
<1>1. CASE Dequeue(w)
  <2>1. /\ UNCHANGED <<consumed, cache, dropped>> /\ handled' = [handled EXCEPT ![w] = 0]
        /\ wpc[w] = "idle" /\ wpc' = [wpc EXCEPT ![w] = LoopEntry(0)]
    BY <1>1 DEF Dequeue, WorkGoto
  <2>2. \A v \in Workers : v # w => ~Reading(v)
    <3>1. Reading(w)'
      BY <1>t, <2>1 DEF Reading, LoopEntry, SecondLoop
    <3> QED BY <1>t, <2>1, <3>1 DEF SingleReader, Reading
  <2>3. /\ wpc'[w] = LoopEntry(0) /\ handled'[w] = 0
        /\ \A v \in Workers : v # w => wpc'[v] = wpc[v] /\ handled'[v] = handled[v]
    BY <1>t, <2>1
  <2>4. cache # <<>> => FirstBatchOut
    BY <1>t, <2>1, <2>2 DEF BacklogOK, Reading
  <2>5. HandledConsumed' /\ ConsumedNumbered' /\ DroppedLate'
    BY <1>t, <2>1, <2>3 DEF HandledConsumed, ConsumedNumbered, DroppedLate, FirstBatchOut
  <2>6. FirstBatchOut' = FirstBatchOut
    BY <2>1 DEF FirstBatchOut
  <2>7. skipped = <<>>
    BY <1>1 DEF Dequeue, WorkGoto, FifoInv, NoneSkipped
  <2>8. BacklogOK'
    BY <1>t, <2>1, <2>2, <2>3, <2>4, <2>6, <2>7
       DEF BacklogOK, LoopEntry, FirstLoop, SecondLoop, CacheIsEmpty, Reading
  <2> QED BY <1>n, <2>5, <2>8 DEF BatchInv
<1>2. CASE FetchNewData(w) \/ PushToCache(w)
  <2>1. /\ UNCHANGED <<consumed, dropped, handled, wpc>> /\ Reading(w)
        /\ cache' = <<>> \/ wpc[w] \in {"next1", "next2"}
    BY <1>2 DEF FetchNewData, PushToCache, At, Reading
  <2>2. \A v \in Workers : Reading(v) => v = w
    BY <1>s, <2>1
  <2>3. HandledConsumed' /\ ConsumedNumbered' /\ DroppedLate' /\ FirstBatchOut' = FirstBatchOut
    BY <1>t, <2>1 DEF HandledConsumed, ConsumedNumbered, DroppedLate, FirstBatchOut
  <2>4. BacklogOK'
    BY <1>t, <2>1, <2>2, <2>3 DEF BacklogOK, Reading
  <2> QED BY <1>n, <2>3, <2>4 DEF BatchInv
<1>3. CASE NextMessage(w)
  <2>1. /\ UNCHANGED <<consumed, dropped, handled>> /\ Reading(w)
        /\ wpc[w] \in {"next1", "next2"}
        /\ wpc'[w] = (IF cache # <<>>
                      THEN IF wpc[w] = "next1" THEN "consume1" ELSE "reactivate"
                      ELSE IF wpc[w] = "next1" THEN "block1" ELSE "block2")
        /\ \A v \in Workers : v # w => wpc'[v] = wpc[v]
        /\ cache = <<>> => cache' = <<>>
    BY <1>3, <1>t DEF NextMessage, At, Reading
  <2>2. \A v \in Workers : Reading(v) => v = w
    BY <1>s, <2>1
  <2>3. HandledConsumed' /\ ConsumedNumbered' /\ DroppedLate' /\ FirstBatchOut' = FirstBatchOut
    BY <1>t, <2>1 DEF HandledConsumed, ConsumedNumbered, DroppedLate, FirstBatchOut
  <2>4. BacklogOK'
    BY <1>t, <2>1, <2>2, <2>3 DEF BacklogOK, Reading
  <2> QED BY <1>n, <2>3, <2>4 DEF BatchInv
<1>4. CASE ConsumeFromCache(w) \/ Reactivate(w)
  <2>1. /\ Reading(w) /\ ptr[w] # 0 /\ ptr[w] \in Msgs /\ ~crashed
        /\ wpc[w] \in {"consume1", "reactivate"} /\ UNCHANGED cache
        /\ handled' = [handled EXCEPT ![w] = @ + 1]
    BY <1>4 DEF ConsumeFromCache, Reactivate, WorkGoto, At, Reading, ShapeInv, ShapeOK,
                LoopOK, Msgs
  <2>2. ptr[w] = Len(consumed) + 1
    BY <1>t, <2>1, InHandIsNext
  <2>3. skipped = <<>>
    BY <2>1 DEF FifoInv, NoneSkipped
  <2>c. consumed' = Append(consumed, ptr[w])
    BY <1>4, <1>t, <2>1, <2>3, AppendProperties, ConcatEmptySeq DEF ConsumeFromCache, Reactivate
  <2>4. Len(consumed') = Len(consumed) + 1
    BY <1>t, <2>1, <2>c, AppendProperties
  <2>n. ConsumedNumbered'
    <3>1. /\ consumed'[Len(consumed) + 1] = Len(consumed) + 1
          /\ \A i \in 1..Len(consumed) : consumed'[i] = i
      BY <1>t, <2>1, <2>2, <2>c, AppendProperties DEF ConsumedNumbered
    <3>2. \A i \in 1..(Len(consumed) + 1) : i \in 1..Len(consumed) \/ i = Len(consumed) + 1
      BY <1>t
    <3> QED BY <2>4, <3>1, <3>2 DEF ConsumedNumbered
  <2>5. /\ handled'[w] = handled[w] + 1
        /\ \A v \in Workers : v # w => handled'[v] = handled[v]
    BY <1>t, <2>1
  <2>6. /\ wpc'[w] \in {"next1", "next2", "tail"} /\ (wpc'[w] = "next1" => wpc[w] = "consume1")
        /\ wpc'[w] = "tail" => handled'[w] >= MaxThroughput
        /\ \A v \in Workers : v # w => wpc'[v] = wpc[v]
    BY <1>4, <1>t DEF ConsumeFromCache, Reactivate, WorkGoto, SecondLoop, At
  <2>7. wpc[w] = "consume1" => FirstBatchOut
    BY <1>t DEF BacklogOK
  <2>8. HandledConsumed'
    <3>1. \A v \in Workers : handled[v] \in Nat /\ handled[v] <= Len(consumed)
      BY <1>t DEF HandledConsumed
    <3>2. \A v \in Workers : handled'[v] <= Len(consumed) + 1
      BY <1>t, <2>5, <3>1
    <3> QED BY <2>4, <3>2 DEF HandledConsumed
  <2>9. FirstBatchOut => FirstBatchOut'
    BY <1>t, <2>4 DEF FirstBatchOut
  <2>10. wpc'[w] = "tail" => FirstBatchOut' /\ handled'[w] = MaxThroughput
    <3>1. handled[w] < MaxThroughput /\ handled[w] \in Nat
      BY <1>t, <2>1 DEF ShapeInv, LoopOK
    <3> QED BY <1>t, <2>4, <2>5, <2>6, <2>8, <3>1 DEF HandledConsumed, FirstBatchOut
  <2>11. \A v \in Workers : Reading(v) => v = w
    BY <1>s, <2>1
  <2>12. BacklogOK'
    BY <1>t, <2>6, <2>7, <2>9, <2>10, <2>11 DEF BacklogOK, Reading
  <2>13. DroppedLate'
    <3>1. dropped' = dropped \/ (wpc[w] = "consume1" /\ dropped' = dropped \cup {ptr[w]})
      BY <1>4 DEF ConsumeFromCache, Reactivate, At
    <3>2. FirstBatchOut => ptr[w] > MaxThroughput
      BY <1>t, <2>2 DEF FirstBatchOut
    <3> QED BY <1>t, <2>7, <2>9, <3>1, <3>2 DEF DroppedLate
  <2> QED BY <1>n, <2>8, <2>12, <2>n, <2>13 DEF BatchInv
<1>5. CASE \/ FetchAssertFails(w) \/ BlockOrRetry(w) \/ HasNextMessage(w) \/ TailTryBlock(w)
           \/ ReleaseSetEmpty(w) \/ ReleaseTryUnblock(w) \/ ReleaseDeref(w)
  <2>1. /\ UNCHANGED <<consumed, dropped, handled, cache>>
        /\ \A v \in Workers : v # w => wpc'[v] = wpc[v]
        /\ \/ wpc'[w] = wpc[w]
           \/ wpc[w] = "block1" /\ wpc'[w] \in {"next1", "rel_flags"}
           \/ wpc[w] = "block2" /\ wpc'[w] \in {"next2", "rel_flags"}
           \/ wpc[w] \in {"tail", "tail_block"} /\ wpc'[w] \in {"tail_block", "rel_flags"}
           \/ wpc[w] \in ReleasePCs /\ wpc'[w] \in ReleasePCs \cup {"idle"}
    BY <1>5, <1>t DEF FetchAssertFails, BlockOrRetry, HasNextMessage, TailTryBlock,
         ReleaseSetEmpty, ReleaseTryUnblock, ReleaseDeref, WorkGoto, At
  <2>2. HandledConsumed' /\ ConsumedNumbered' /\ DroppedLate' /\ FirstBatchOut' = FirstBatchOut
    BY <1>t, <2>1 DEF HandledConsumed, ConsumedNumbered, DroppedLate, FirstBatchOut
  <2>3. BacklogOK'
    BY <1>t, <2>1, <2>2 DEF BacklogOK
  <2> QED BY <1>n, <2>2, <2>3 DEF BatchInv
<1> QED BY <1>1, <1>2, <1>3, <1>4, <1>5 DEF WorkerStep

LEMMA BatchNext ==
  ShapeInv /\ FifoInv /\ BatchInv /\ SingleReader /\ SingleReader' /\ [Next]_vars => BatchInv'
<1> SUFFICES ASSUME ShapeInv, FifoInv, BatchInv, SingleReader, SingleReader', [Next]_vars
             PROVE  BatchInv'
  OBVIOUS
<1>1. CASE OwnerRelease \/ UNCHANGED vars
  BY <1>1 DEF OwnerRelease, vars, BatchInv, Numbered, HandledConsumed, BacklogOK, FirstBatchOut,
              ConsumedNumbered, DroppedLate
<1> QED BY <1>1, BatchSender, BatchWorker DEF Next, Finished

\* As long as no two workers run the actor at once, the first max_throughput
\* messages have all reached their handler when the first loop of run, which
\* destroys the message it takes, destroys one.
THEOREM SingleReaderDeliversFirst == Spec /\ []SingleReader => []FirstBatchDelivered
<1>1. ShapeInv /\ BatchInv => FirstBatchDelivered
  <2> SUFFICES ASSUME ShapeInv, BatchInv, dropped # {}, NEW m \in 1..MaxThroughput
               PROVE  m \in Range(consumed) \ dropped
    BY DEF FirstBatchDelivered
  <2>1. /\ consumed \in Seq(Msgs) /\ MaxThroughput \in Nat /\ FirstBatchOut
        /\ ConsumedNumbered /\ DroppedLate
    BY BoundsAssumption DEF ShapeInv, ShapeOK, BatchInv, DroppedLate
  <2>2. m \in 1..Len(consumed) /\ consumed[m] = m
    BY <2>1 DEF FirstBatchOut, ConsumedNumbered
  <2>3. m \in Range(consumed)
    BY <2>1, <2>2 DEF Range
  <2>4. m \notin dropped
    BY <2>1 DEF DroppedLate
  <2> QED BY <2>3, <2>4
<1> QED BY <1>1, BatchInit, BatchNext, FifoInit, FifoNext, ShapeAlways, PTL DEF Spec

\* An executor with one worker hands the first max_throughput messages over
\* before it destroys any.
THEOREM OneWorkerDeliversFirst ==
  ASSUME NEW w, Workers = {w}
  PROVE  Spec => []FirstBatchDelivered
<1>1. ShapeInv => SingleReader
  BY DEF SingleReader
<1> QED BY <1>1, ShapeAlways, SingleReaderDeliversFirst, PTL

\* So do any number of workers while one thread sends from outside.
THEOREM OneSenderDeliversFirst ==
  ASSUME NEW s, Senders = {s}
  PROVE  Spec => []FirstBatchDelivered
BY OneSenderOneReader, SingleReaderDeliversFirst, PTL
=============================================================================
