----------------------------- MODULE RefCounting -----------------------------
(***************************************************************************)
(* Who owns an actor or a supervisor: ref_counted, intrusive_ptr, the      *)
(* handles actor and supervisor built on it, the raw pointers of address_t *)
(* and of the executor's jobs, and the memory the objects live in.         *)
(*                                                                         *)
(* An operation on a handle changes the handle, which only its own thread  *)
(* uses, and queues in todo the accesses to shared counters it makes, in   *)
(* the order of the code.  Each of them is a step: ref() is one, deref()   *)
(* is the test unique(), the fetch_sub and the delete.                     *)
(***************************************************************************)
EXTENDS Naturals, Sequences, FiniteSets

CONSTANTS
  Threads, Objects, Null,
  Vars,        \* the handles of one thread: intrusive_ptr, actor, supervisor
  MaxJobs,     \* bound: references the executor holds to one actor
  Bytes,       \* sizeof of an actor
  Alignments,  \* alignof of the actors
  Heap,        \* the addresses operator new may return
  Word         \* sizeof(std::ptrdiff_t)

ASSUME NullAssumption == Null \notin Objects
ASSUME FiniteAssumption == IsFiniteSet(Threads) /\ IsFiniteSet(Vars)
ASSUME MemoryAssumption ==
  /\ Bytes \in Nat \ {0} /\ Word \in Nat \ {0} /\ MaxJobs \in Nat
  /\ Alignments \subseteq Nat \ {0} /\ Heap \subseteq Nat

VARIABLES
  kind,   \* how each object was made: "none", "counted", "supervisor", "actor"
  block,  \* where each object lives
  rc,     \* rc_
  freed,  \* the objects deleted
  ptr,    \* ptr_ of every handle
  raw,    \* per thread, a pointer got from release(), with its reference
  addr,   \* per thread, an address_t
  jobs,   \* per object, references the executor holds for its jobs
  todo    \* per thread, the accesses to counters it has still to make

counters == <<rc, freed>>
vars == <<kind, block, counters, ptr, raw, addr, jobs, todo>>

-----------------------------------------------------------------------------
(* Memory                                                                   *)

\* std::align: at is left alone if the aligned object does not fit.
Align(alignment, at, space) ==
  LET pad == (alignment - (at % alignment)) % alignment
  IN  IF Bytes + pad > space THEN at ELSE at + pad

\* Mutant: no room is kept in front of the object.
AlignedAllocateNoWord(alignment, original) ==
  LET padded  == Bytes + alignment + Word
      aligned == Align(alignment, original, padded)
  IN  [original |-> original, object |-> aligned, alignment |-> alignment,
       offset |-> aligned - original, end |-> original + padded]

\* aligned_allocate: the offset to the start of the allocation is written in
\* the word before the object.
AlignedAllocate(alignment, original) ==
  LET padded  == Bytes + alignment + Word
      aligned == Align(alignment, original + Word, padded)
  IN  [original |-> original, object |-> aligned, alignment |-> alignment,
       offset |-> aligned - original, end |-> original + padded]

\* operator new: the object is where its memory is.
HeapAllocate(original) ==
  [original |-> original, object |-> original, alignment |-> 1, offset |-> 0,
   end |-> original + Bytes]

\* What aligned_deallocate would pass on.
AlignedDeallocate(b) == b.object - b.offset

-----------------------------------------------------------------------------
(* Operations on handles                                                    *)

Idle(t)      == todo[t] = <<>>
Doing(t, op) == todo[t] # <<>> /\ Head(todo[t]).op = op
On(t)        == Head(todo[t]).on

RefOps(o)     == IF o = Null THEN <<>> ELSE << [op |-> "ref", on |-> o] >>
ReleaseOps(o) == IF o = Null THEN <<>> ELSE << [op |-> "unique", on |-> o] >>

\* Mutant: the old object is released first.
AssignReleaseFirst(t, v, o) ==
  /\ todo' = [todo EXCEPT ![t] = ReleaseOps(ptr[t][v]) \o RefOps(o)]
  /\ ptr' = [ptr EXCEPT ![t][v] = o]

\* reset(o), and operator=(intrusive_ptr(o)) with its copy, swap and destructor:
\* the new object is referenced before the old one is released.
Assign(t, v, o) ==
  /\ todo' = [todo EXCEPT ![t] = RefOps(o) \o ReleaseOps(ptr[t][v])]
  /\ ptr' = [ptr EXCEPT ![t][v] = o]

\* A new object, filed in the empty handle v.
Construct(t, v, o, k, b, ops) ==
  /\ Idle(t) /\ kind[o] = "none" /\ ptr[t][v] = Null
  /\ kind' = [kind EXCEPT ![o] = k]
  /\ block' = [block EXCEPT ![o] = b]
  /\ rc' = [rc EXCEPT ![o] = 1]
  /\ ptr' = [ptr EXCEPT ![t][v] = o]
  /\ todo' = [todo EXCEPT ![t] = ops]
  /\ UNCHANGED <<freed, raw, addr, jobs>>

\* intrusive_ptr(new T, false) adopts the reference the object is born with.
MakeCounted(t, v, o) ==
  \E base \in Heap : Construct(t, v, o, "counted", HeapAllocate(base), <<>>)

\* spawn_supervisor: supervisor(T* ) adds a reference of its own.
SpawnSupervisor(t, v, o) ==
  \E base \in Heap :
    Construct(t, v, o, "supervisor", HeapAllocate(base), RefOps(o))

\* Mutant: the handle adopts the first reference of an actor.
SpawnActorAdopt(t, v, o) ==
  \E base \in Heap, alignment \in Alignments :
    Construct(t, v, o, "actor", AlignedAllocate(alignment, base), <<>>)

\* supervisor_abstract::spawn_actor (and spawn_supervisor): placement new in
\* the memory resource, and a handle that adds a reference.
SpawnActor(t, v, o) ==
  \E base \in Heap, alignment \in Alignments :
    Construct(t, v, o, "actor", AlignedAllocate(alignment, base), RefOps(o))

\* v = w, v.reset(w.get()), v = w.upcast() and v = w.downcast().
Copy(t, v, w) ==
  /\ Idle(t)
  /\ Assign(t, v, ptr[t][w])
  /\ UNCHANGED <<kind, block, counters, raw, addr, jobs>>

\* v = nullptr, v = w.downcast() that fails, and the destructor of v.
Reset(t, v) ==
  /\ Idle(t)
  /\ Assign(t, v, Null)
  /\ UNCHANGED <<kind, block, counters, raw, addr, jobs>>

\* v = std::move(w): the parameter detaches w, then v is swapped with it.
Move(t, v, w) ==
  /\ Idle(t)
  /\ ptr' = [ptr EXCEPT ![t][w] = Null, ![t][v] = ptr[t][w]]
  /\ todo' = [todo EXCEPT ![t] = IF v = w THEN <<>> ELSE ReleaseOps(ptr[t][v])]
  /\ UNCHANGED <<kind, block, counters, raw, addr, jobs>>

Swap(t, v, w) ==
  /\ Idle(t)
  /\ ptr' = [ptr EXCEPT ![t][v] = ptr[t][w], ![t][w] = ptr[t][v]]
  /\ UNCHANGED <<kind, block, counters, raw, addr, jobs, todo>>

\* release(): the caller now owns the handle's reference ...
Detach(t, v) ==
  /\ Idle(t) /\ ptr[t][v] # Null /\ raw[t] = Null
  /\ raw' = [raw EXCEPT ![t] = ptr[t][v]]
  /\ ptr' = [ptr EXCEPT ![t][v] = Null]
  /\ UNCHANGED <<kind, block, counters, addr, jobs, todo>>

\* Mutant: add_ref is left at its default, true.
AdoptAddRef(t, v) ==
  /\ Idle(t) /\ raw[t] # Null
  /\ Assign(t, v, raw[t])
  /\ raw' = [raw EXCEPT ![t] = Null]
  /\ UNCHANGED <<kind, block, counters, addr, jobs>>

\* ... and gives it back: v.reset(raw, false).
Adopt(t, v) ==
  /\ Idle(t) /\ raw[t] # Null
  /\ ptr' = [ptr EXCEPT ![t][v] = raw[t]]
  /\ todo' = [todo EXCEPT ![t] = ReleaseOps(ptr[t][v])]
  /\ raw' = [raw EXCEPT ![t] = Null]
  /\ UNCHANGED <<kind, block, counters, addr, jobs>>

\* A handle moves to another thread: into its closure or its queue.
HandOver(t, v, u, w) ==
  /\ t # u /\ Idle(t) /\ ptr[t][v] # Null /\ ptr[u][w] = Null
  /\ ptr' = [ptr EXCEPT ![u][w] = ptr[t][v], ![t][v] = Null]
  /\ UNCHANGED <<kind, block, counters, raw, addr, jobs, todo>>

-----------------------------------------------------------------------------
(* Pointers without a reference                                             *)

\* v.address(), copied to another thread or not.
Address(t, v, u) ==
  /\ Idle(t) /\ ptr[t][v] # Null /\ kind[ptr[t][v]] # "counted"
  /\ addr' = [addr EXCEPT ![u] = ptr[t][v]]
  /\ UNCHANGED <<kind, block, counters, ptr, raw, jobs, todo>>

\* enqueue_base of an actor: a reference, then the executor gets the job.
Schedule(t) ==
  /\ Idle(t) /\ addr[t] # Null /\ kind[addr[t]] = "actor" /\ jobs[addr[t]] < MaxJobs
  /\ todo' = [todo EXCEPT ![t] =
                 RefOps(addr[t]) \o << [op |-> "post", on |-> addr[t]] >>]
  /\ UNCHANGED <<kind, block, counters, ptr, raw, addr, jobs>>

Post(t) ==
  /\ Doing(t, "post")
  /\ jobs' = [jobs EXCEPT ![On(t)] = @ + 1]
  /\ todo' = [todo EXCEPT ![t] = Tail(@)]
  /\ UNCHANGED <<kind, block, counters, ptr, raw, addr>>

\* A worker has run a job and releases it.
JobDone(t, o) ==
  /\ Idle(t) /\ jobs[o] > 0
  /\ jobs' = [jobs EXCEPT ![o] = @ - 1]
  /\ todo' = [todo EXCEPT ![t] = ReleaseOps(o)]
  /\ UNCHANGED <<kind, block, counters, ptr, raw, addr>>

-----------------------------------------------------------------------------
(* ref_counted                                                              *)

\* Thread t goes on with ops before the rest.
Continue(t, ops) ==
  /\ todo' = [todo EXCEPT ![t] = ops \o Tail(@)]
  /\ UNCHANGED <<kind, block, ptr, raw, addr, jobs>>

Ref(t) ==
  /\ Doing(t, "ref")
  /\ rc' = [rc EXCEPT ![On(t)] = @ + 1]
  /\ Continue(t, <<>>)
  /\ UNCHANGED freed

\* deref(): unique() spares the last owner the atomic subtraction.
Unique(t) ==
  /\ Doing(t, "unique")
  /\ Continue(t, << [op |-> IF rc[On(t)] = 1 THEN "delete" ELSE "sub", on |-> On(t)] >>)
  /\ UNCHANGED counters

\* Mutants: the counter is read again instead of the result of fetch_sub; the
\* result is compared with 0.
SubThenUnique(t) ==
  /\ Doing(t, "sub")
  /\ rc' = [rc EXCEPT ![On(t)] = @ - 1]
  /\ Continue(t, ReleaseOps(On(t)))
  /\ UNCHANGED freed
SubToZero(t) ==
  /\ Doing(t, "sub")
  /\ rc' = [rc EXCEPT ![On(t)] = @ - 1]
  /\ Continue(t, <<>>)
  /\ UNCHANGED freed

Sub(t) ==
  /\ Doing(t, "sub")
  /\ rc' = [rc EXCEPT ![On(t)] = @ - 1]
  /\ Continue(t, IF rc[On(t)] = 1 THEN << [op |-> "delete", on |-> On(t)] >> ELSE <<>>)
  /\ UNCHANGED freed

Delete(t) ==
  /\ Doing(t, "delete")
  /\ freed' = freed \cup {On(t)}
  /\ Continue(t, <<>>)
  /\ UNCHANGED rc

-----------------------------------------------------------------------------
Init ==
  /\ kind = [o \in Objects |-> "none"]
  /\ block = [o \in Objects |-> HeapAllocate(0)]
  /\ rc = [o \in Objects |-> 0]
  /\ freed = {}
  /\ ptr = [t \in Threads |-> [v \in Vars |-> Null]]
  /\ raw = [t \in Threads |-> Null]
  /\ addr = [t \in Threads |-> Null]
  /\ jobs = [o \in Objects |-> 0]
  /\ todo = [t \in Threads |-> <<>>]

Access(t) == Ref(t) \/ Unique(t) \/ Sub(t) \/ Delete(t) \/ Post(t)

Handle(t) ==
  \/ \E v \in Vars :
       \/ \E o \in Objects : MakeCounted(t, v, o) \/ SpawnSupervisor(t, v, o)
                             \/ SpawnActor(t, v, o)
       \/ \E w \in Vars : Copy(t, v, w) \/ Move(t, v, w) \/ Swap(t, v, w)
       \/ Reset(t, v) \/ Detach(t, v) \/ Adopt(t, v)
       \/ \E u \in Threads : Address(t, v, u) \/ \E w \in Vars : HandOver(t, v, u, w)
  \/ Schedule(t) \/ \E o \in Objects : JobDone(t, o)

Next == \E t \in Threads : Access(t) \/ Handle(t)

\* A thread in the middle of an operation is scheduled until it is done.
Fairness == \A t \in Threads : WF_vars(Access(t))

Spec == Init /\ [][Next]_vars /\ Fairness

-----------------------------------------------------------------------------
(* Properties                                                               *)

\* The pending accesses of all threads to object o.
Matches(ops, i, o, accesses) ==
  i <= Len(ops) /\ ops[i].op \in accesses /\ ops[i].on = o
PendingAt(o, accesses) ==
  {p \in Threads \X (1 .. 3) : Matches(todo[p[1]], p[2], o, accesses)}
Pending(o, accesses) == Cardinality(PendingAt(o, accesses))

\* The references to object o: handles, pointers got from release() and jobs.
HandlesOf(o) == {p \in Threads \X Vars : ptr[p[1]][p[2]] = o}
RawsOf(o)    == {t \in Threads : raw[t] = o}
Holders(o) ==
  Cardinality(HandlesOf(o)) + Cardinality(RawsOf(o)) + jobs[o] + Pending(o, {"post"})

\* Nobody will ever drop the reference a supervisor or an actor is born with.
Leaked(o) == IF kind[o] \in {"supervisor", "actor"} THEN 1 ELSE 0

TypeOK ==
  /\ kind \in [Objects -> {"none", "counted", "supervisor", "actor"}]
  /\ rc \in [Objects -> Nat] /\ freed \subseteq Objects
  /\ ptr \in [Threads -> [Vars -> Objects \cup {Null}]]
  /\ raw \in [Threads -> Objects \cup {Null}] /\ addr \in [Threads -> Objects \cup {Null}]
  /\ jobs \in [Objects -> Nat]
  /\ \A t \in Threads : Len(todo[t]) <= 3

\* The counter is exact between any two accesses: the references held, those
\* still to be counted and those still to be dropped.  Until the moment of
\* the delete, when unique() may have left it at 1.
CountExact ==
  \A o \in Objects : kind[o] # "none" /\ Pending(o, {"delete"}) = 0 /\ o \notin freed =>
    rc[o] + Pending(o, {"ref"}) = Holders(o) + Leaked(o) + Pending(o, {"unique", "sub"})

\* Once one thread has decided to delete an object no handle, no job and no
\* other pending access has it: the check in unique() and the decision of
\* fetch_sub cannot both be taken, and nobody comes late.
DeleteIsLast ==
  \A o \in Objects : Pending(o, {"delete"}) > 0 \/ o \in freed =>
    /\ Holders(o) = 0
    /\ Pending(o, {"ref", "unique", "sub", "post"}) = 0
    /\ Pending(o, {"delete"}) = IF o \in freed THEN 0 ELSE 1

\* What must never be deleted is not: an address_t outlives every handle of
\* its actor or supervisor and is dereferenced without a reference, and an
\* actor in memory of the resource starts an offset behind what was allocated,
\* where `delete this' would free an address the heap does not know.
DeleteIsLegal ==
  /\ \A t \in Threads : addr[t] \notin freed
  /\ \A o \in Objects : Pending(o, {"delete"}) > 0 \/ o \in freed =>
       block[o].object = block[o].original

\* An actor and the offset in front of it lie in the memory allocated for
\* them, at its alignment, and deallocation would find the start again.
BlockFits ==
  \A o \in Objects : kind[o] = "actor" =>
    /\ block[o].object % block[o].alignment = 0
    /\ block[o].object - Word >= block[o].original
    /\ block[o].object + Bytes <= block[o].end
    /\ AlignedDeallocate(block[o]) = block[o].original

\* An object made with make_counted is deleted once nobody holds it.
GarbageIsFreed ==
  \A o \in Objects :
    (kind[o] = "counted" /\ Holders(o) = 0) ~> (o \in freed)
=============================================================================
