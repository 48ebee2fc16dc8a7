-------------------------- MODULE RefCountingProofs --------------------------
(***************************************************************************)
(* Theorems about RefCounting, for every finite number of threads and of   *)
(* handles, any objects, alignments and addresses.                         *)
(***************************************************************************)
EXTENDS RefCounting, FiniteSetTheorems, SequenceTheorems, TLAPS

-----------------------------------------------------------------------------
(* Memory                                                                   *)

\* Quotient and remainder.
LEMMA Remainder ==
  ASSUME NEW a \in Nat \ {0}, NEW n \in Nat
  PROVE  n = a * (n \div a) + (n % a) /\ n % a \in 0 .. a - 1 /\ n \div a \in Nat
OBVIOUS

LEMMA RemainderUnique ==
  ASSUME NEW a \in Nat \ {0}, NEW n \in Nat, NEW q \in Nat, NEW r \in 0 .. a - 1,
         n = a * q + r
  PROVE  n % a = r
OBVIOUS

\* The padding std::align computes leads to the next multiple.
LEMMA PaddingAligns ==
  ASSUME NEW a \in Nat \ {0}, NEW n \in Nat
  PROVE  LET pad == (a - (n % a)) % a
         IN  pad \in 0 .. a - 1 /\ (n + pad) % a = 0
<1> DEFINE r   == n % a
           q   == n \div a
           pad == (a - r) % a
<1>1. n = a * q + r /\ r \in 0 .. a - 1 /\ q \in Nat
  BY Remainder
<1>2. CASE r = 0
  <2>1. pad = 0
    BY <1>2, RemainderUnique, a = a * 1 + 0, 0 \in 0 .. a - 1
  <2> QED BY <1>1, <1>2, <2>1
<1>3. CASE r # 0
  <2>1. a - r \in 0 .. a - 1 /\ a - r \in Nat /\ a - r = a * 0 + (a - r)
    BY <1>1, <1>3
  <2>2. pad = a - r
    BY <2>1, RemainderUnique
  <2>3. n + pad = a * (q + 1) + 0 /\ n + pad \in Nat /\ q + 1 \in Nat
    BY <1>1, <2>1, <2>2
  <2>4. (n + pad) % a = 0
    BY <2>3, RemainderUnique, 0 \in 0 .. a - 1
  <2> QED BY <2>1, <2>2, <2>4
<1> QED BY <1>1, <1>2, <1>3

\* aligned_allocate: the object is aligned, has its offset in front of it and
\* ends within the allocation, whose start the offset leads back to.
LEMMA AllocationFits ==
  ASSUME NEW alignment \in Alignments, NEW base \in Heap
  PROVE  LET b == AlignedAllocate(alignment, base)
         IN  /\ b.object % b.alignment = 0
             /\ b.object - Word >= b.original
             /\ b.object + Bytes <= b.end
             /\ AlignedDeallocate(b) = b.original
<1> DEFINE at  == base + Word
           pad == (alignment - (at % alignment)) % alignment
<1>1. alignment \in Nat \ {0} /\ base \in Nat /\ Word \in Nat /\ Bytes \in Nat /\ at \in Nat
  BY MemoryAssumption
<1>2. pad \in 0 .. alignment - 1 /\ (at + pad) % alignment = 0
  BY <1>1, PaddingAligns
<1>3. Align(alignment, at, Bytes + alignment + Word) = at + pad
  <2> HIDE DEF pad
  <2>1. ~(Bytes + pad > Bytes + alignment + Word)
    BY <1>1, <1>2
  <2> QED BY <2>1 DEF Align, pad
<1> HIDE DEF pad
<1> QED BY <1>1, <1>2, <1>3 DEF AlignedAllocate, AlignedDeallocate

\* Where an object of each kind lives.
MemoryOK ==
  /\ DOMAIN kind = Objects /\ DOMAIN block = Objects
  /\ \A o \in Objects :
       /\ kind[o] = "counted" => block[o].object = block[o].original
       /\ kind[o] = "actor" =>
            \E a \in Alignments, b \in Heap : block[o] = AlignedAllocate(a, b)

\* Only a constructor chooses a place, and it chooses the one of its kind.
LEMMA MemoryNext ==
  ASSUME MemoryOK, [Next]_vars
  PROVE  MemoryOK'
<1>1. CASE UNCHANGED vars
  BY <1>1 DEF vars, MemoryOK
<1>2. ASSUME NEW t \in Threads, Access(t) PROVE MemoryOK'
  <2>1. UNCHANGED <<kind, block>>
    BY <1>2 DEF Access, Ref, Unique, Sub, Delete, Post, Continue
  <2> QED BY <2>1 DEF MemoryOK
<1>3. ASSUME NEW t \in Threads, Handle(t) PROVE MemoryOK'
  <2>1. CASE \E v \in Vars, o \in Objects : MakeCounted(t, v, o)
    BY <2>1 DEF MakeCounted, Construct, HeapAllocate, MemoryOK
  <2>2. CASE \E v \in Vars, o \in Objects : SpawnSupervisor(t, v, o)
    BY <2>2 DEF SpawnSupervisor, Construct, MemoryOK
  <2>3. CASE \E v \in Vars, o \in Objects : SpawnActor(t, v, o)
    <3>1. PICK v \in Vars, o \in Objects : SpawnActor(t, v, o)
      BY <2>3
    <3>2. PICK base \in Heap, alignment \in Alignments :
            Construct(t, v, o, "actor", AlignedAllocate(alignment, base), RefOps(o))
      BY <3>1 DEF SpawnActor
    <3> QED BY <3>2 DEF Construct, MemoryOK
  <2>4. CASE UNCHANGED <<kind, block>>
    BY <2>4 DEF MemoryOK
  <2> QED BY <1>3, <2>1, <2>2, <2>3, <2>4 DEF Handle, Copy, Move, Swap, Reset, Detach, Adopt,
        Address, HandOver, Schedule, JobDone
<1> QED BY <1>1, <1>2, <1>3 DEF Next

\* Every actor aligned_allocate makes room for lies in its memory, at its
\* alignment, behind the word from which its start is found again.
THEOREM ActorsFitTheirBlocks == Spec => []BlockFits
<1>1. Init => MemoryOK
  BY DEF Init, MemoryOK
<1>2. MemoryOK /\ [Next]_vars => MemoryOK'
  BY MemoryNext
<1>3. MemoryOK => BlockFits
  BY AllocationFits DEF MemoryOK, BlockFits
<1> QED BY <1>1, <1>2, <1>3, PTL DEF Spec

-----------------------------------------------------------------------------
(* Counting                                                                 *)

Bit(b) == IF b THEN 1 ELSE 0

\* A finite set with one more element, or without.
LEMMA AddIf ==
  ASSUME NEW S, IsFiniteSet(S), NEW x, x \notin S, NEW b \in BOOLEAN
  PROVE  /\ IsFiniteSet(S \cup (IF b THEN {x} ELSE {}))
         /\ Cardinality(S \cup (IF b THEN {x} ELSE {})) = Cardinality(S) + Bit(b)
         /\ Cardinality(S) \in Nat
<1>1. Cardinality(S) \in Nat
  BY FS_CardinalityType
<1>2. CASE b
  BY <1>1, <1>2, FS_AddElement DEF Bit
<1>3. CASE ~b
  <2>1. S \cup (IF b THEN {x} ELSE {}) = S
    BY <1>3
  <2> QED BY <1>1, <1>3, <2>1 DEF Bit
<1> QED BY <1>2, <1>3

\* What one thread's list of accesses contributes.
Local(ops, o, accesses) ==
  Bit(Matches(ops, 1, o, accesses)) + Bit(Matches(ops, 2, o, accesses))
    + Bit(Matches(ops, 3, o, accesses))

\* Pending(o, accesses) as a function of todo (and without thread t), the handles to o as a function
\* of ptr, the pointers from release() as a function of raw.
Queued(td, o, accesses) ==
  Cardinality({p \in Threads \X (1 .. 3) : Matches(td[p[1]], p[2], o, accesses)})
Others(td, t, o, accesses) ==
  Cardinality({p \in (Threads \ {t}) \X (1 .. 3) : Matches(td[p[1]], p[2], o, accesses)})
Slots(pt, o) == Cardinality({p \in Threads \X Vars : pt[p[1]][p[2]] = o})
Raws(rw, o)  == Cardinality({t \in Threads : rw[t] = o})

\* The accesses of all threads but t, and those of t.
LEMMA PendingSplit ==
  ASSUME NEW t \in Threads, NEW td, NEW o, NEW accesses
  PROVE  /\ Others(td, t, o, accesses) \in Nat
         /\ Queued(td, o, accesses) = Others(td, t, o, accesses) + Local(td[t], o, accesses)
<1> DEFINE All  == {p \in Threads \X (1 .. 3) : Matches(td[p[1]], p[2], o, accesses)}
           Rest == {p \in (Threads \ {t}) \X (1 .. 3) : Matches(td[p[1]], p[2], o, accesses)}
           m(i) == Matches(td[t], i, o, accesses)
           R1   == Rest \cup (IF m(1) THEN {<<t, 1>>} ELSE {})
           R2   == R1 \cup (IF m(2) THEN {<<t, 2>>} ELSE {})
           R3   == R2 \cup (IF m(3) THEN {<<t, 3>>} ELSE {})
<1>1. IsFiniteSet(Threads \X (1 .. 3))
  <2>1. IsFiniteSet(1 .. 3)
    <3>1. 1 \in Int /\ 3 \in Int
      OBVIOUS
    <3> QED BY <3>1, FS_Interval, Zenon
  <2>2. IsFiniteSet(Threads)
    BY FiniteAssumption
  <2> QED BY <2>1, <2>2, FS_Product
<1>2. IsFiniteSet(All) /\ IsFiniteSet(Rest)
  <2>1. All \in SUBSET (Threads \X (1 .. 3)) /\ Rest \in SUBSET (Threads \X (1 .. 3))
    OBVIOUS
  <2> HIDE DEF All, Rest
  <2> QED BY <1>1, <2>1, FS_Subset
<1>3. All = R3
  <2>1. \A p \in Threads \X (1 .. 3) :
          p \in (Threads \ {t}) \X (1 .. 3) \/ p \in {<<t, 1>>, <<t, 2>>, <<t, 3>>}
    OBVIOUS
  <2> QED BY <2>1
<1>4. m(1) \in BOOLEAN /\ m(2) \in BOOLEAN /\ m(3) \in BOOLEAN
  BY DEF Matches
<1>5. <<t, 1>> \notin Rest /\ <<t, 2>> \notin R1 /\ <<t, 3>> \notin R2
  OBVIOUS
<1> HIDE DEF All, Rest, m
<1>6. IsFiniteSet(R1) /\ Cardinality(R1) = Cardinality(Rest) + Bit(m(1)) /\ Cardinality(Rest) \in Nat
  BY <1>2, <1>4, <1>5, AddIf
<1> HIDE DEF R1
<1>7. IsFiniteSet(R2) /\ Cardinality(R2) = Cardinality(R1) + Bit(m(2))
  BY <1>4, <1>5, <1>6, AddIf
<1> HIDE DEF R2
<1>8. Cardinality(R3) = Cardinality(R2) + Bit(m(3))
  BY <1>4, <1>5, <1>7, AddIf
<1>9. Cardinality(All) = Cardinality(Rest) + Bit(m(1)) + Bit(m(2)) + Bit(m(3))
  BY <1>3, <1>6, <1>7, <1>8 DEF Bit
<1>10. Cardinality(All) = Queued(td, o, accesses) /\ Cardinality(Rest) = Others(td, t, o, accesses)
  BY DEF All, Rest, Queued, Others
<1> QED BY <1>6, <1>9, <1>10 DEF m, Local, Bit

\* A thread that replaces its list changes what is queued by its own part.
LEMMA QueuedChange ==
  ASSUME NEW t \in Threads, NEW td, NEW te, \A u \in Threads : u # t => te[u] = td[u],
         NEW o, NEW accesses
  PROVE  /\ Queued(td, o, accesses) \in Nat /\ Queued(te, o, accesses) \in Nat
         /\ Queued(te, o, accesses) + Local(td[t], o, accesses)
              = Queued(td, o, accesses) + Local(te[t], o, accesses)
         /\ Queued(td, o, accesses) >= Local(td[t], o, accesses)
<1>1. Others(td, t, o, accesses) = Others(te, t, o, accesses)
  <2>1. {p \in (Threads \ {t}) \X (1 .. 3) : Matches(td[p[1]], p[2], o, accesses)}
          = {p \in (Threads \ {t}) \X (1 .. 3) : Matches(te[p[1]], p[2], o, accesses)}
    OBVIOUS
  <2> QED BY <2>1 DEF Others
<1>2. /\ Others(td, t, o, accesses) \in Nat
      /\ Queued(td, o, accesses) = Others(td, t, o, accesses) + Local(td[t], o, accesses)
      /\ Queued(te, o, accesses) = Others(te, t, o, accesses) + Local(te[t], o, accesses)
  BY PendingSplit
<1>3. Local(td[t], o, accesses) \in Nat /\ Local(te[t], o, accesses) \in Nat
  BY DEF Local, Bit
<1> QED BY <1>1, <1>2, <1>3

\* The same for one handle ...
LEMMA SlotChange ==
  ASSUME NEW t \in Threads, NEW v \in Vars, NEW pt, NEW pe, NEW o,
         \A u \in Threads, w \in Vars : u # t \/ w # v => pe[u][w] = pt[u][w]
  PROVE  /\ Slots(pt, o) \in Nat /\ Slots(pe, o) \in Nat
         /\ Slots(pe, o) + Bit(pt[t][v] = o) = Slots(pt, o) + Bit(pe[t][v] = o)
         /\ Slots(pt, o) >= Bit(pt[t][v] = o)
<1> DEFINE R  == {p \in Threads \X Vars : p # <<t, v>> /\ pt[p[1]][p[2]] = o}
           A  == {p \in Threads \X Vars : pt[p[1]][p[2]] = o}
           Ae == {p \in Threads \X Vars : pe[p[1]][p[2]] = o}
<1>1. \A p \in Threads \X Vars : p # <<t, v>> => pe[p[1]][p[2]] = pt[p[1]][p[2]]
  OBVIOUS
<1>2. IsFiniteSet(R)
  <2>1. IsFiniteSet(Threads) /\ IsFiniteSet(Vars)
    BY FiniteAssumption
  <2>2. IsFiniteSet(Threads \X Vars) /\ R \in SUBSET (Threads \X Vars)
    BY <2>1, FS_Product
  <2> HIDE DEF R
  <2> QED BY <2>2, FS_Subset
<1>3. <<t, v>> \notin R
  OBVIOUS
<1>4. A = R \cup (IF pt[t][v] = o THEN {<<t, v>>} ELSE {})
  OBVIOUS
<1>5. Ae = R \cup (IF pe[t][v] = o THEN {<<t, v>>} ELSE {})
  BY <1>1
<1> HIDE DEF R, A, Ae
<1>6. Cardinality(R) \in Nat /\ Cardinality(A) = Cardinality(R) + Bit(pt[t][v] = o)
  BY <1>2, <1>3, <1>4, AddIf, (pt[t][v] = o) \in BOOLEAN
<1>7. Cardinality(Ae) = Cardinality(R) + Bit(pe[t][v] = o)
  BY <1>2, <1>3, <1>5, AddIf, (pe[t][v] = o) \in BOOLEAN
<1>8. Slots(pt, o) = Cardinality(A) /\ Slots(pe, o) = Cardinality(Ae)
  BY DEF Slots, A, Ae
<1> QED BY <1>6, <1>7, <1>8 DEF Bit

\* ... and for one pointer from release().
LEMMA RawChange ==
  ASSUME NEW t \in Threads, NEW rw, NEW re, NEW o, \A u \in Threads : u # t => re[u] = rw[u]
  PROVE  /\ Raws(rw, o) \in Nat /\ Raws(re, o) \in Nat
         /\ Raws(re, o) + Bit(rw[t] = o) = Raws(rw, o) + Bit(re[t] = o)
         /\ Raws(rw, o) >= Bit(rw[t] = o)
<1> DEFINE R  == {u \in Threads : u # t /\ rw[u] = o}
           A  == {u \in Threads : rw[u] = o}
           Ae == {u \in Threads : re[u] = o}
<1>1. IsFiniteSet(R)
  <2>1. IsFiniteSet(Threads) /\ R \in SUBSET Threads
    BY FiniteAssumption
  <2> HIDE DEF R
  <2> QED BY <2>1, FS_Subset
<1>2. t \notin R
  OBVIOUS
<1>3. A = R \cup (IF rw[t] = o THEN {t} ELSE {})
  OBVIOUS
<1>4. Ae = R \cup (IF re[t] = o THEN {t} ELSE {})
  OBVIOUS
<1> HIDE DEF R, A, Ae
<1>5. Cardinality(R) \in Nat /\ Cardinality(A) = Cardinality(R) + Bit(rw[t] = o)
  BY <1>1, <1>2, <1>3, AddIf, (rw[t] = o) \in BOOLEAN
<1>6. Cardinality(Ae) = Cardinality(R) + Bit(re[t] = o)
  BY <1>1, <1>2, <1>4, AddIf, (re[t] = o) \in BOOLEAN
<1>7. Raws(rw, o) = Cardinality(A) /\ Raws(re, o) = Cardinality(Ae)
  BY DEF Raws, A, Ae
<1> QED BY <1>5, <1>6, <1>7 DEF Bit

-----------------------------------------------------------------------------
(* The inductive invariant                                                  *)

Accesses == {"ref", "unique", "sub", "delete", "post"}
Entry(op, o) == [op |-> op, on |-> o]

\* What a thread may have to do: nothing, one access, or a reference and then
\* the release of the handle's old object or the job's hand-over.
Lists ==
  {<<>>} \cup {<< Entry(op, o) >> : op \in Accesses, o \in Objects}
    \cup {<< Entry("ref", o), Entry(op, p) >> : o, p \in Objects, op \in {"unique", "post"}}

ShapeOK == TypeOK /\ todo \in [Threads -> Lists]

\* CountExact for one object.
Counted(o) ==
  kind[o] # "none" /\ Queued(todo, o, {"delete"}) = 0 /\ o \notin freed =>
    rc[o] + Queued(todo, o, {"ref"})
      = Slots(ptr, o) + Raws(raw, o) + jobs[o] + Queued(todo, o, {"post"})
          + Leaked(o) + Queued(todo, o, {"unique", "sub"})

\* Nobody refers to the object or is about to, except to delete it.
Unheld(o) ==
  /\ Slots(ptr, o) = 0 /\ Raws(raw, o) = 0 /\ jobs[o] = 0
  /\ Queued(todo, o, {"ref"}) = 0 /\ Queued(todo, o, {"post"}) = 0
  /\ Queued(todo, o, {"unique", "sub"}) = 0

Unborn(o) ==
  kind[o] = "none" => Unheld(o) /\ Queued(todo, o, {"delete"}) = 0 /\ o \notin freed

\* DeleteIsLast for one object, and that only make_counted's are deleted.
Dying(o) ==
  Queued(todo, o, {"delete"}) > 0 \/ o \in freed =>
    /\ kind[o] = "counted" /\ Unheld(o)
    /\ Queued(todo, o, {"delete"}) = IF o \in freed THEN 0 ELSE 1

\* Only actors have jobs.
Posting(o) == kind[o] # "actor" => Queued(todo, o, {"post"}) = 0

\* A reference that is not counted yet is that of a handle the thread has
\* filled already, or of the job it is about to post; and the object lives
\* without it: the thread has another handle to it, or still owes the release
\* of the handle's old reference, or the first reference has leaked.
Backed(t, o) ==
  Matches(todo[t], 1, o, {"ref"}) =>
    /\ (\E v \in Vars : ptr[t][v] = o) \/ Matches(todo[t], 2, o, {"post"})
    /\ \/ Leaked(o) = 1
       \/ \E v, w \in Vars : v # w /\ ptr[t][v] = o /\ ptr[t][w] = o
       \/ Matches(todo[t], 2, o, {"unique"})

\* An address_t is that of an object whose first reference has leaked.
AddressOK == \A t \in Threads : addr[t] # Null => kind[addr[t]] \in {"supervisor", "actor"}

ObjectInv(o) == Counted(o) /\ Unborn(o) /\ Dying(o) /\ Posting(o)

IInv ==
  /\ ShapeOK /\ AddressOK
  /\ \A o \in Objects : ObjectInv(o)
  /\ \A t \in Threads, o \in Objects : Backed(t, o)

-----------------------------------------------------------------------------
(* The last reference                                                       *)

\* What the lists contribute.
LEMMA LocalNone ==
  ASSUME NEW o, NEW A
  PROVE  Local(<<>>, o, A) = 0
BY DEF Local, Bit, Matches

LEMMA LocalOne ==
  ASSUME NEW o, NEW A, NEW op, NEW p
  PROVE  Local(<< Entry(op, p) >>, o, A) = Bit(op \in A /\ p = o)
BY DEF Local, Bit, Matches, Entry

LEMMA LocalTwo ==
  ASSUME NEW o, NEW A, NEW op1, NEW p1, NEW op2, NEW p2
  PROVE  Local(<< Entry(op1, p1), Entry(op2, p2) >>, o, A)
           = Bit(op1 \in A /\ p1 = o) + Bit(op2 \in A /\ p2 = o)
BY DEF Local, Bit, Matches, Entry

\* The three forms of a list.
LEMMA ListForms ==
  ASSUME NEW ops \in Lists
  PROVE  \/ ops = <<>>
         \/ \E op \in Accesses, o \in Objects : ops = << Entry(op, o) >>
         \/ \E o, p \in Objects, op \in {"unique", "post"} :
              ops = << Entry("ref", o), Entry(op, p) >>
BY DEF Lists

\* A reference to be counted comes first, its hand-over to the executor second.
LEMMA MatchPlaces ==
  ASSUME NEW ops \in Lists, NEW i \in 1 .. 3, NEW o
  PROVE  /\ Matches(ops, i, o, {"ref"}) => i = 1
         /\ Matches(ops, i, o, {"unique", "sub"}) /\ i # 1 =>
              i = 2 /\ \E p : Matches(ops, 1, p, {"ref"})
<1>1. CASE ops = <<>>
  BY <1>1 DEF Matches
<1>2. ASSUME NEW op \in Accesses, NEW p \in Objects, ops = << Entry(op, p) >>
      PROVE  Matches(ops, i, o, {"ref"}) \/ Matches(ops, i, o, {"unique", "sub"}) => i = 1
  BY <1>2 DEF Matches, Entry
<1>3. ASSUME NEW p \in Objects, NEW q \in Objects, NEW op \in {"unique", "post"},
             ops = << Entry("ref", p), Entry(op, q) >>
      PROVE  /\ Matches(ops, i, o, {"ref"}) => i = 1
             /\ i \in {1, 2} \/ ~Matches(ops, i, o, {"unique", "sub"})
             /\ Matches(ops, 1, p, {"ref"})
  BY <1>3 DEF Matches, Entry
<1> QED BY <1>1, <1>2, <1>3, ListForms

\* Counts are natural numbers, and zero where nothing matches.
LEMMA PendingFacts ==
  ASSUME NEW o, NEW A
  PROVE  /\ IsFiniteSet(PendingAt(o, A)) /\ Queued(todo, o, A) = Cardinality(PendingAt(o, A))
         /\ Queued(todo, o, A) \in Nat
         /\ Queued(todo, o, A) = 0 <=>
              \A t \in Threads, i \in 1 .. 3 : ~Matches(todo[t], i, o, A)
<1>1. PendingAt(o, A) \in SUBSET (Threads \X (1 .. 3))
  BY DEF PendingAt
<1>2. IsFiniteSet(Threads \X (1 .. 3))
  <2>1. 1 \in Int /\ 3 \in Int
    OBVIOUS
  <2>2. IsFiniteSet(1 .. 3)
    BY <2>1, FS_Interval, Zenon
  <2>3. IsFiniteSet(Threads)
    BY FiniteAssumption
  <2> QED BY <2>2, <2>3, FS_Product
<1>3. IsFiniteSet(PendingAt(o, A))
  BY <1>1, <1>2, FS_Subset
<1>4. Queued(todo, o, A) = Cardinality(PendingAt(o, A))
  BY DEF Queued, PendingAt
<1>5. PendingAt(o, A) = {} <=> \A t \in Threads, i \in 1 .. 3 : ~Matches(todo[t], i, o, A)
  <2>1. ASSUME NEW t \in Threads, NEW i \in 1 .. 3, Matches(todo[t], i, o, A)
        PROVE  <<t, i>> \in PendingAt(o, A)
    BY <2>1 DEF PendingAt
  <2>2. ASSUME NEW p \in PendingAt(o, A)
        PROVE  p[1] \in Threads /\ p[2] \in 1 .. 3 /\ Matches(todo[p[1]], p[2], o, A)
    BY DEF PendingAt
  <2> QED BY <2>1, <2>2
<1> QED BY <1>3, <1>4, <1>5, FS_CardinalityType, FS_EmptySet

LEMMA HandleFacts ==
  ASSUME NEW o
  PROVE  /\ IsFiniteSet(HandlesOf(o)) /\ Slots(ptr, o) = Cardinality(HandlesOf(o))
         /\ Slots(ptr, o) \in Nat
         /\ IsFiniteSet(RawsOf(o)) /\ Raws(raw, o) = Cardinality(RawsOf(o))
         /\ Raws(raw, o) \in Nat
<1>1. IsFiniteSet(Threads) /\ IsFiniteSet(Vars)
  BY FiniteAssumption
<1>2. IsFiniteSet(Threads \X Vars)
  BY <1>1, FS_Product
<1>3. HandlesOf(o) \in SUBSET (Threads \X Vars) /\ RawsOf(o) \in SUBSET Threads
  BY DEF HandlesOf, RawsOf
<1>4. IsFiniteSet(HandlesOf(o)) /\ IsFiniteSet(RawsOf(o))
  BY <1>1, <1>2, <1>3, FS_Subset
<1>5. Slots(ptr, o) = Cardinality(HandlesOf(o)) /\ Raws(raw, o) = Cardinality(RawsOf(o))
  BY DEF Slots, Raws, HandlesOf, RawsOf
<1> QED BY <1>4, <1>5, FS_CardinalityType

\* The handle that a reference still to be counted is for.
Extra(t, o) == CHOOSE v \in Vars : ptr[t][v] = o

\* The references still to be counted are for different handles and jobs, so
\* there are at most as many; and if they are for handles, and no handle to o
\* is without one, no thread has two.
LEMMA RefsBacked ==
  ASSUME IInv, NEW o \in Objects
  PROVE  /\ Queued(todo, o, {"ref"}) <= Slots(ptr, o) + Queued(todo, o, {"post"})
         /\ Queued(todo, o, {"post"}) = 0 /\ Queued(todo, o, {"ref"}) = Slots(ptr, o) =>
              \A t \in Threads, v, w \in Vars :
                ptr[t][v] = o /\ ptr[t][w] = o => v = w
<1> DEFINE All == PendingAt(o, {"ref"})
           A   == {p \in All : \E v \in Vars : ptr[p[1]][v] = o}
           B   == {p \in All : Matches(todo[p[1]], 2, o, {"post"})}
           f   == [p \in A |-> <<p[1], Extra(p[1], o)>>]
           g   == [p \in B |-> <<p[1], 2>>]
<1>1. \A p \in All : p[1] \in Threads /\ p = <<p[1], 1>> /\ Matches(todo[p[1]], 1, o, {"ref"})
  BY MatchPlaces DEF PendingAt, IInv, ShapeOK
<1>2. All = A \cup B
  BY <1>1 DEF IInv, Backed
<1>3. IsFiniteSet(A) /\ IsFiniteSet(B)
  <2>1. IsFiniteSet(All)
    BY PendingFacts
  <2> QED BY <2>1, FS_Subset, A \in SUBSET All, B \in SUBSET All
<1>4. f \in Injection(A, HandlesOf(o))
  <2>1. \A p \in A : Extra(p[1], o) \in Vars /\ ptr[p[1]][Extra(p[1], o)] = o
    BY DEF Extra
  <2>2. f \in [A -> HandlesOf(o)]
    BY <1>1, <2>1 DEF HandlesOf
  <2>3. \A p, q \in A : f[p] = f[q] => p = q
    BY <1>1
  <2> QED BY <2>2, <2>3 DEF Injection, IsInjective
<1>5. g \in Injection(B, PendingAt(o, {"post"}))
  <2>1. g \in [B -> PendingAt(o, {"post"})]
    BY <1>1 DEF PendingAt
  <2>2. \A p, q \in B : g[p] = g[q] => p = q
    BY <1>1
  <2> QED BY <2>1, <2>2 DEF Injection, IsInjective
<1>6. \A x \in A : f[x][1] = x[1] /\ x = <<x[1], 1>>
  BY <1>1
<1> HIDE DEF f, g
<1>7. /\ Cardinality(A) <= Slots(ptr, o)
      /\ Cardinality(A) = Slots(ptr, o) <=> f \in Surjection(A, HandlesOf(o))
  BY <1>4, HandleFacts, FS_Injection
<1>8. Cardinality(B) <= Queued(todo, o, {"post"})
  BY <1>5, PendingFacts, FS_Injection
<1>9. Cardinality(A \cup B) <= Cardinality(A) + Cardinality(B)
      /\ Cardinality(A) \in Nat /\ Cardinality(B) \in Nat
  <2>1. Cardinality(A \cup B) = Cardinality(A) + Cardinality(B) - Cardinality(A \cap B)
    BY <1>3, FS_Union
  <2>2. IsFiniteSet(A \cap B)
    BY <1>3, FS_Intersection
  <2>3. Cardinality(A) \in Nat /\ Cardinality(B) \in Nat /\ Cardinality(A \cap B) \in Nat
    BY <1>3, <2>2, FS_CardinalityType
  <2> HIDE DEF A, B
  <2> QED BY <2>1, <2>3
<1>10. Queued(todo, o, {"ref"}) = Cardinality(A \cup B)
  BY <1>2, PendingFacts
<1>11. Slots(ptr, o) \in Nat /\ Queued(todo, o, {"post"}) \in Nat /\ Queued(todo, o, {"ref"}) \in Nat
  BY HandleFacts, PendingFacts
<1>12. ASSUME Queued(todo, o, {"post"}) = 0, Queued(todo, o, {"ref"}) = Slots(ptr, o),
              NEW t \in Threads, NEW v \in Vars, NEW w \in Vars,
              ptr[t][v] = o, ptr[t][w] = o
       PROVE  v = w
  <2>1. Cardinality(A) = Slots(ptr, o)
    <3> HIDE DEF A, B
    <3> QED BY <1>7, <1>8, <1>9, <1>10, <1>11, <1>12
  <2>2. f \in Surjection(A, HandlesOf(o))
    BY <1>7, <2>1
  <2>3. <<t, v>> \in HandlesOf(o) /\ <<t, w>> \in HandlesOf(o)
    BY <1>12 DEF HandlesOf
  <2>4. PICK x \in A : f[x] = <<t, v>>
    BY <2>2, <2>3 DEF Surjection
  <2>5. PICK y \in A : f[y] = <<t, w>>
    BY <2>2, <2>3 DEF Surjection
  <2>6. x = <<t, 1>> /\ y = <<t, 1>>
    BY <1>6, <2>4, <2>5
  <2> QED BY <2>4, <2>5, <2>6
<1>13. Queued(todo, o, {"ref"}) <= Slots(ptr, o) + Queued(todo, o, {"post"})
  <2> HIDE DEF A, B
  <2> QED BY <1>7, <1>8, <1>9, <1>10, <1>11
<1>14. Queued(todo, o, {"post"}) = 0 /\ Queued(todo, o, {"ref"}) = Slots(ptr, o) =>
         \A t \in Threads, v, w \in Vars : ptr[t][v] = o /\ ptr[t][w] = o => v = w
  BY <1>12
<1> QED BY <1>13, <1>14

\* A thread that is about to release an object finds it alive, with a count
\* of at least its own reference and the leaked one; and if the count is 1,
\* nobody else has the object or is about to refer to it: nobody can come
\* between the test in unique() and the delete.
LEMMA LastRelease ==
  ASSUME IInv, NEW t \in Threads, NEW o \in Objects,
         Matches(todo[t], 1, o, {"unique", "sub"})
  PROVE  /\ kind[o] # "none" /\ Queued(todo, o, {"delete"}) = 0 /\ o \notin freed
         /\ rc[o] >= 1 + Leaked(o)
         /\ rc[o] = 1 =>
              /\ kind[o] = "counted" /\ Queued(todo, o, {"unique", "sub"}) = 1
              /\ Slots(ptr, o) = 0 /\ Raws(raw, o) = 0 /\ jobs[o] = 0
              /\ Queued(todo, o, {"ref"}) = 0 /\ Queued(todo, o, {"post"}) = 0
<1> DEFINE H == Slots(ptr, o)
           W == Raws(raw, o)
           R == Queued(todo, o, {"ref"})
           P == Queued(todo, o, {"post"})
           Q == Queued(todo, o, {"unique", "sub"})
           D == Queued(todo, o, {"delete"})
<1>1. H \in Nat /\ W \in Nat /\ R \in Nat /\ P \in Nat /\ Q \in Nat /\ D \in Nat
  BY PendingFacts, HandleFacts
<1>2. jobs[o] \in Nat /\ rc[o] \in Nat /\ Leaked(o) \in {0, 1}
  BY DEF IInv, ShapeOK, TypeOK, Leaked
<1>3. Q > 0
  BY <1>1, PendingFacts, 1 \in 1 .. 3
<1>4. ObjectInv(o)
  BY DEF IInv
<1>5. kind[o] # "none" /\ D = 0 /\ o \notin freed
  BY <1>1, <1>3, <1>4 DEF ObjectInv, Unborn, Dying, Unheld
<1>6. rc[o] + R = H + W + jobs[o] + P + Leaked(o) + Q
  BY <1>4, <1>5 DEF ObjectInv, Counted
<1>7. R <= H + P
  BY RefsBacked
<1> HIDE DEF H, W, R, P, Q, D
<1>8. rc[o] >= 1 + Leaked(o)
  BY <1>1, <1>2, <1>3, <1>6, <1>7
<1>9. ASSUME rc[o] = 1
      PROVE  kind[o] = "counted" /\ Q = 1 /\ H = 0 /\ W = 0 /\ jobs[o] = 0 /\ R = 0 /\ P = 0
  <2>1. Leaked(o) = 0 /\ Q = 1 /\ W = 0 /\ jobs[o] = 0 /\ R = H + P
    BY <1>1, <1>2, <1>3, <1>6, <1>7, <1>9
  <2>2. kind[o] = "counted"
    BY <2>1, <1>5 DEF Leaked, IInv, ShapeOK, TypeOK
  <2>3. P = 0
    BY <1>4, <2>2 DEF ObjectInv, Posting, P
  <2>4. R = 0
    <3> SUFFICES ASSUME R # 0 PROVE FALSE
      OBVIOUS
    <3>1. PICK s \in Threads, i \in 1 .. 3 : Matches(todo[s], i, o, {"ref"})
      BY PendingFacts DEF R
    <3>2. todo[s] \in Lists /\ todo[t] \in Lists
      BY DEF IInv, ShapeOK
    <3>3. Matches(todo[s], 1, o, {"ref"})
      BY <3>1, <3>2, MatchPlaces
    <3>4. R = H
      BY <1>1, <2>1, <2>3
    <3>5. \A v, w \in Vars : ptr[s][v] = o /\ ptr[s][w] = o => v = w
      BY <2>3, <3>4, RefsBacked DEF P, R, H
    <3>6. Matches(todo[s], 2, o, {"unique"})
      BY <2>1, <3>3, <3>5 DEF IInv, Backed
    <3>7. <<s, 2>> \in PendingAt(o, {"unique", "sub"}) /\ <<t, 1>> \in PendingAt(o, {"unique", "sub"})
      BY <3>6 DEF PendingAt, Matches
    <3>8. \E x : PendingAt(o, {"unique", "sub"}) = {x}
      BY <2>1, PendingFacts, FS_Singleton DEF Q
    <3> QED BY <3>7, <3>8
  <2>5. H = 0
    BY <1>1, <2>1, <2>3, <2>4
  <2> QED BY <2>1, <2>2, <2>3, <2>4, <2>5
<1> QED BY <1>5, <1>8, <1>9 DEF H, W, R, P, Q, D

\* Whatever the lists and the pointers are, counts are natural numbers.
LEMMA Naturalness ==
  ASSUME NEW td, NEW pt, NEW rw, NEW o, NEW A
  PROVE  Queued(td, o, A) \in Nat /\ Slots(pt, o) \in Nat /\ Raws(rw, o) \in Nat
<1> DEFINE X == {p \in Threads \X (1 .. 3) : Matches(td[p[1]], p[2], o, A)}
           Y == {p \in Threads \X Vars : pt[p[1]][p[2]] = o}
           Z == {t \in Threads : rw[t] = o}
<1>1. IsFiniteSet(Threads) /\ IsFiniteSet(Vars)
  BY FiniteAssumption
<1>2. 1 \in Int /\ 3 \in Int
  OBVIOUS
<1>3. IsFiniteSet(1 .. 3)
  BY <1>2, FS_Interval, Zenon
<1>4. IsFiniteSet(Threads \X (1 .. 3)) /\ IsFiniteSet(Threads \X Vars)
  BY <1>1, <1>3, FS_Product
<1>5. X \in SUBSET (Threads \X (1 .. 3)) /\ Y \in SUBSET (Threads \X Vars) /\ Z \in SUBSET Threads
  OBVIOUS
<1> HIDE DEF X, Y, Z
<1>6. IsFiniteSet(X) /\ IsFiniteSet(Y) /\ IsFiniteSet(Z)
  BY <1>1, <1>4, <1>5, FS_Subset
<1> QED BY <1>6, FS_CardinalityType DEF X, Y, Z, Queued, Slots, Raws

-----------------------------------------------------------------------------
(* Steps                                                                    *)

\* Lists are short.
LEMMA ListLength ==
  ASSUME NEW ops \in Lists
  PROVE  Len(ops) <= 3
<1>1. Len(<<>>) <= 3
  OBVIOUS
<1>2. ASSUME NEW a, NEW b PROVE Len(<<a>>) <= 3 /\ Len(<<a, b>>) <= 3
  OBVIOUS
<1> QED BY <1>1, <1>2, ListForms

\* Sequences of one element.
LEMMA Pair ==
  ASSUME NEW a, NEW b
  PROVE  <<a>> \o <<b>> = <<a, b>>
<1> DEFINE s == <<a>> \o <<b>>
<1>1. <<a>> \in Seq({a, b}) /\ <<b>> \in Seq({a, b}) /\ <<a, b>> \in Seq({a, b})
  OBVIOUS
<1>2. s \in Seq({a, b}) /\ Len(s) = 2 /\ s[1] = a /\ s[2] = b
  BY <1>1
<1>3. Len(<<a, b>>) = 2 /\ <<a, b>>[1] = a /\ <<a, b>>[2] = b
  OBVIOUS
<1>4. \A i \in 1 .. 2 : i = 1 \/ i = 2
  OBVIOUS
<1> HIDE DEF s
<1>5. s = <<a, b>>
  BY <1>1, <1>2, <1>3, <1>4, SeqEqual
<1> QED BY <1>5 DEF s

\* The lists the operations on handles start with ...
LEMMA OpsForms ==
  ASSUME NEW x \in Objects \cup {Null}, NEW y \in Objects \cup {Null}
  PROVE  /\ RefOps(x) = IF x = Null THEN <<>> ELSE << Entry("ref", x) >>
         /\ ReleaseOps(y) = IF y = Null THEN <<>> ELSE << Entry("unique", y) >>
         /\ RefOps(x) \o ReleaseOps(y)
              = IF x = Null THEN ReleaseOps(y)
                ELSE IF y = Null THEN RefOps(x) ELSE << Entry("ref", x), Entry("unique", y) >>
         /\ RefOps(x) \o ReleaseOps(y) \in Lists /\ RefOps(x) \in Lists /\ ReleaseOps(y) \in Lists
<1>1. RefOps(x) = IF x = Null THEN <<>> ELSE << Entry("ref", x) >>
  BY DEF RefOps, Entry
<1>2. ReleaseOps(y) = IF y = Null THEN <<>> ELSE << Entry("unique", y) >>
  BY DEF ReleaseOps, Entry
<1>3. ASSUME NEW a
      PROVE  <<>> \o <<>> = <<>> /\ <<a>> \o <<>> = <<a>> /\ <<>> \o <<a>> = <<a>>
  OBVIOUS
<1>4. RefOps(x) \o ReleaseOps(y)
        = IF x = Null THEN ReleaseOps(y)
          ELSE IF y = Null THEN RefOps(x) ELSE << Entry("ref", x), Entry("unique", y) >>
  BY <1>1, <1>2, <1>3, Pair
<1>5. <<>> \in Lists
  BY DEF Lists
<1>6. x # Null => << Entry("ref", x) >> \in Lists
  BY DEF Lists, Accesses
<1>7. y # Null => << Entry("unique", y) >> \in Lists
  BY DEF Lists, Accesses
<1>8. x # Null /\ y # Null => << Entry("ref", x), Entry("unique", y) >> \in Lists
  BY DEF Lists
<1> QED BY <1>1, <1>2, <1>4, <1>5, <1>6, <1>7, <1>8

\* ... and what they contribute.
LEMMA OpsLocal ==
  ASSUME NEW x \in Objects \cup {Null}, NEW y \in Objects \cup {Null}, NEW o \in Objects, NEW A
  PROVE  /\ Local(RefOps(x), o, A) = Bit("ref" \in A /\ x = o)
         /\ Local(ReleaseOps(y), o, A) = Bit("unique" \in A /\ y = o)
         /\ Local(RefOps(x) \o ReleaseOps(y), o, A)
              = Bit("ref" \in A /\ x = o) + Bit("unique" \in A /\ y = o)
<1>1. /\ Local(<<>>, o, A) = 0
      /\ Local(<< Entry("ref", x) >>, o, A) = Bit("ref" \in A /\ x = o)
      /\ Local(<< Entry("unique", y) >>, o, A) = Bit("unique" \in A /\ y = o)
      /\ Local(<< Entry("ref", x), Entry("unique", y) >>, o, A)
           = Bit("ref" \in A /\ x = o) + Bit("unique" \in A /\ y = o)
  BY LocalNone, LocalOne, LocalTwo
<1>2. /\ x = Null => Bit("ref" \in A /\ x = o) = 0
      /\ y = Null => Bit("unique" \in A /\ y = o) = 0
      /\ Bit("ref" \in A /\ x = o) \in Nat /\ Bit("unique" \in A /\ y = o) \in Nat
  BY NullAssumption DEF Bit
<1>3. /\ x = Null => RefOps(x) = <<>> /\ RefOps(x) \o ReleaseOps(y) = ReleaseOps(y)
      /\ x # Null => RefOps(x) = << Entry("ref", x) >>
      /\ y = Null => ReleaseOps(y) = <<>>
      /\ y # Null => ReleaseOps(y) = << Entry("unique", y) >>
      /\ x # Null /\ y = Null => RefOps(x) \o ReleaseOps(y) = RefOps(x)
      /\ x # Null /\ y # Null =>
           RefOps(x) \o ReleaseOps(y) = << Entry("ref", x), Entry("unique", y) >>
  BY OpsForms
<1>4. Local(RefOps(x), o, A) = Bit("ref" \in A /\ x = o)
  BY <1>1, <1>2, <1>3
<1>5. Local(ReleaseOps(y), o, A) = Bit("unique" \in A /\ y = o)
  BY <1>1, <1>2, <1>3
<1>6. Local(RefOps(x) \o ReleaseOps(y), o, A)
        = Bit("ref" \in A /\ x = o) + Bit("unique" \in A /\ y = o)
  <2>1. CASE x = Null
    BY <2>1, <1>2, <1>3, <1>5
  <2>2. CASE x # Null /\ y = Null
    BY <2>2, <1>2, <1>3, <1>4
  <2>3. CASE x # Null /\ y # Null
    BY <2>3, <1>1, <1>3
  <2> QED BY <2>1, <2>2, <2>3
<1> QED BY <1>4, <1>5, <1>6

\* A step that replaces the list of one thread.
LEMMA TodoStep ==
  ASSUME todo \in [Threads -> Lists], NEW t \in Threads, NEW new \in Lists,
         todo' = [todo EXCEPT ![t] = new]
  PROVE  /\ todo' \in [Threads -> Lists] /\ todo'[t] = new
         /\ \A s \in Threads : s # t => todo'[s] = todo[s]
         /\ \A s \in Threads : Len(todo'[s]) <= 3
<1>1. todo' \in [Threads -> Lists] /\ todo'[t] = new
      /\ \A s \in Threads : s # t => todo'[s] = todo[s]
  OBVIOUS
<1> QED BY <1>1, ListLength

LEMMA TodoCount ==
  ASSUME NEW t \in Threads, NEW new, todo'[t] = new,
         \A s \in Threads : s # t => todo'[s] = todo[s], NEW o, NEW A
  PROVE  /\ Queued(todo, o, A) \in Nat /\ Queued(todo', o, A) \in Nat
         /\ Queued(todo', o, A) + Local(todo[t], o, A) = Queued(todo, o, A) + Local(new, o, A)
         /\ Queued(todo, o, A) >= Local(todo[t], o, A)
         /\ Local(todo[t], o, A) \in Nat /\ Local(new, o, A) \in Nat
<1>1. Local(todo[t], o, A) \in Nat /\ Local(new, o, A) \in Nat
  BY DEF Local, Bit
<1> QED BY <1>1, QueuedChange

\* ... of a thread that had nothing to do.
LEMMA IdleCount ==
  ASSUME NEW t \in Threads, Idle(t), NEW new, todo'[t] = new,
         \A s \in Threads : s # t => todo'[s] = todo[s], NEW o, NEW A
  PROVE  Queued(todo, o, A) \in Nat /\ Queued(todo', o, A) = Queued(todo, o, A) + Local(new, o, A)
<1>1. Local(todo[t], o, A) = 0
  BY LocalNone DEF Idle
<1> QED BY <1>1, TodoCount

\* A step that keeps the balance of an object, and takes hold of an object that
\* nobody refers to only through the address of an actor.
LEMMA BalancedStep ==
  ASSUME NEW o \in Objects, ObjectInv(o), kind[o]' = kind[o], (o \in freed)' <=> (o \in freed),
         Queued(todo', o, {"delete"}) = Queued(todo, o, {"delete"}),
         kind[o] # "actor" /\ Unheld(o) => Unheld(o)', Posting(o)',
         rc'[o] \in Nat, rc[o] \in Nat, jobs'[o] \in Nat, jobs[o] \in Nat,
         rc'[o] + Queued(todo', o, {"ref"}) + Slots(ptr, o) + Raws(raw, o) + jobs[o]
             + Queued(todo, o, {"post"}) + Queued(todo, o, {"unique", "sub"})
           = rc[o] + Queued(todo, o, {"ref"}) + Slots(ptr', o) + Raws(raw', o) + jobs'[o]
             + Queued(todo', o, {"post"}) + Queued(todo', o, {"unique", "sub"})
  PROVE  ObjectInv(o)'
<1>1. /\ Queued(todo, o, {"ref"}) \in Nat /\ Queued(todo', o, {"ref"}) \in Nat
      /\ Queued(todo, o, {"post"}) \in Nat /\ Queued(todo', o, {"post"}) \in Nat
      /\ Queued(todo, o, {"unique", "sub"}) \in Nat /\ Queued(todo', o, {"unique", "sub"}) \in Nat
      /\ Slots(ptr, o) \in Nat /\ Slots(ptr', o) \in Nat
      /\ Raws(raw, o) \in Nat /\ Raws(raw', o) \in Nat
  BY Naturalness
<1>2. Leaked(o)' = Leaked(o) /\ Leaked(o) \in Nat
  BY DEF Leaked
<1>3. Counted(o)'
  <2> SUFFICES ASSUME kind'[o] # "none", Queued(todo', o, {"delete"}) = 0, o \notin freed'
               PROVE  rc'[o] + Queued(todo', o, {"ref"})
                        = Slots(ptr', o) + Raws(raw', o) + jobs'[o] + Queued(todo', o, {"post"})
                            + Leaked(o)' + Queued(todo', o, {"unique", "sub"})
    BY DEF Counted
  <2>1. rc[o] + Queued(todo, o, {"ref"})
          = Slots(ptr, o) + Raws(raw, o) + jobs[o] + Queued(todo, o, {"post"})
              + Leaked(o) + Queued(todo, o, {"unique", "sub"})
    BY DEF Counted, ObjectInv
  <2> DEFINE r  == rc[o]
             R  == Queued(todo, o, {"ref"})
             H  == Slots(ptr, o)
             W  == Raws(raw, o)
             J  == jobs[o]
             P  == Queued(todo, o, {"post"})
             Q  == Queued(todo, o, {"unique", "sub"})
             L  == Leaked(o)
             rp == rc'[o]
             Rp == Queued(todo', o, {"ref"})
             Hp == Slots(ptr', o)
             Wp == Raws(raw', o)
             Jp == jobs'[o]
             Pp == Queued(todo', o, {"post"})
             Qp == Queued(todo', o, {"unique", "sub"})
  <2>2. r \in Nat /\ R \in Nat /\ H \in Nat /\ W \in Nat /\ J \in Nat /\ P \in Nat /\ Q \in Nat
        /\ L \in Nat
    BY <1>1, <1>2
  <2>3. rp \in Nat /\ Rp \in Nat /\ Hp \in Nat /\ Wp \in Nat /\ Jp \in Nat /\ Pp \in Nat /\ Qp \in Nat
    BY <1>1
  <2>4. r + R = H + W + J + P + L + Q
    BY <2>1
  <2>5. rp + Rp + H + W + J + P + Q = r + R + Hp + Wp + Jp + Pp + Qp
    OBVIOUS
  <2> HIDE DEF r, R, H, W, J, P, Q, L, rp, Rp, Hp, Wp, Jp, Pp, Qp
  <2>6. rp + Rp = Hp + Wp + Jp + Pp + L + Qp
    BY <2>2, <2>3, <2>4, <2>5
  <2> QED BY <1>2, <2>6 DEF L, rp, Rp, Hp, Wp, Jp, Pp, Qp
<1>4. Unborn(o)' /\ Dying(o)'
  BY DEF Unborn, Dying, ObjectInv
<1> QED BY <1>3, <1>4 DEF ObjectInv

\* The references to an object that no list mentions.
Held(o) == Slots(ptr, o) + Raws(raw, o) + jobs[o]

\* An operation on handles by an idle thread leaves a reference to x to be
\* counted and one to y to be released, and moves references accordingly.
LEMMA HandleStep ==
  ASSUME IInv, NEW x, NEW y, NEW o \in Objects,
         kind'[o] = kind[o], freed' = freed, rc'[o] = rc[o], jobs'[o] \in Nat,
         Queued(todo', o, {"ref"}) = Queued(todo, o, {"ref"}) + Bit(x = o),
         Queued(todo', o, {"unique", "sub"}) = Queued(todo, o, {"unique", "sub"}) + Bit(y = o),
         Queued(todo', o, {"post"}) = Queued(todo, o, {"post"}),
         Queued(todo', o, {"delete"}) = Queued(todo, o, {"delete"}),
         Held(o)' + Bit(y = o) = Held(o) + Bit(x = o),
         x = o \/ y = o => Held(o) > 0
  PROVE  ObjectInv(o)'
<1> DEFINE R  == Queued(todo, o, {"ref"})
           H  == Slots(ptr, o)
           W  == Raws(raw, o)
           J  == jobs[o]
           P  == Queued(todo, o, {"post"})
           Q  == Queued(todo, o, {"unique", "sub"})
           Rp == Queued(todo', o, {"ref"})
           Hp == Slots(ptr', o)
           Wp == Raws(raw', o)
           Jp == jobs'[o]
           Pp == Queued(todo', o, {"post"})
           Qp == Queued(todo', o, {"unique", "sub"})
           bx == Bit(x = o)
           by == Bit(y = o)
<1>1. /\ R \in Nat /\ H \in Nat /\ W \in Nat /\ P \in Nat /\ Q \in Nat
      /\ Rp \in Nat /\ Hp \in Nat /\ Wp \in Nat /\ Pp \in Nat /\ Qp \in Nat
  BY Naturalness
<1>2. rc[o] \in Nat /\ J \in Nat /\ Jp \in Nat /\ bx \in Nat /\ by \in Nat
  BY DEF IInv, ShapeOK, TypeOK, Bit
<1>3. Hp + Wp + Jp + by = H + W + J + bx
  BY DEF Held
<1>4. Rp = R + bx /\ Qp = Q + by /\ Pp = P
  OBVIOUS
<1>5. bx # 0 \/ by # 0 => H + W + J > 0
  BY DEF Bit, Held
<1>6. ObjectInv(o)
  BY DEF IInv
<1> HIDE DEF R, H, W, J, P, Q, Rp, Hp, Wp, Jp, Pp, Qp, bx, by
<1>7. rc[o] + Rp + H + W + J + P + Q = rc[o] + R + Hp + Wp + Jp + Pp + Qp
  <2>1. Rp + H + W + J + P + Q = R + Hp + Wp + Jp + Pp + Qp
    BY <1>1, <1>2, <1>3, <1>4
  <2> QED BY <2>1, <1>1, <1>2
<1>8. Unheld(o) => Unheld(o)'
  <2> SUFFICES ASSUME H = 0, W = 0, J = 0, R = 0, P = 0, Q = 0
               PROVE  Hp = 0 /\ Wp = 0 /\ Jp = 0 /\ Rp = 0 /\ Pp = 0 /\ Qp = 0
    BY DEF Unheld, R, H, W, J, P, Q, Rp, Hp, Wp, Jp, Pp, Qp
  <2>1. bx = 0 /\ by = 0
    BY <1>1, <1>2, <1>5
  <2> QED BY <1>1, <1>2, <1>3, <1>4, <2>1
<1>9. Posting(o)'
  BY <1>6 DEF ObjectInv, Posting
<1>10. rc'[o] \in Nat /\ rc[o] \in Nat /\ jobs'[o] \in Nat /\ jobs[o] \in Nat
  BY <1>2 DEF J, Jp
<1>11. rc'[o] + Queued(todo', o, {"ref"}) + Slots(ptr, o) + Raws(raw, o) + jobs[o]
           + Queued(todo, o, {"post"}) + Queued(todo, o, {"unique", "sub"})
         = rc[o] + Queued(todo, o, {"ref"}) + Slots(ptr', o) + Raws(raw', o) + jobs'[o]
           + Queued(todo', o, {"post"}) + Queued(todo', o, {"unique", "sub"})
  BY <1>7 DEF R, H, W, J, P, Q, Rp, Hp, Wp, Jp, Pp, Qp
<1>12. kind[o]' = kind[o] /\ ((o \in freed)' <=> (o \in freed))
  OBVIOUS
<1> QED BY <1>6, <1>8, <1>9, <1>10, <1>11, <1>12, BalancedStep

\* What such an operation adds to the accesses under way.
LEMMA IdleAdds ==
  ASSUME NEW t \in Threads, Idle(t),
         NEW x \in Objects \cup {Null}, NEW y \in Objects \cup {Null},
         todo'[t] = RefOps(x) \o ReleaseOps(y),
         \A s \in Threads : s # t => todo'[s] = todo[s]
  PROVE  \A o \in Objects :
           /\ Queued(todo', o, {"ref"}) = Queued(todo, o, {"ref"}) + Bit(x = o)
           /\ Queued(todo', o, {"unique", "sub"})
                = Queued(todo, o, {"unique", "sub"}) + Bit(y = o)
           /\ Queued(todo', o, {"post"}) = Queued(todo, o, {"post"})
           /\ Queued(todo', o, {"delete"}) = Queued(todo, o, {"delete"})
<1> DEFINE new == RefOps(x) \o ReleaseOps(y)
<1>1. ASSUME NEW o \in Objects
      PROVE  /\ Local(new, o, {"ref"}) = Bit(x = o)
             /\ Local(new, o, {"unique", "sub"}) = Bit(y = o)
             /\ Local(new, o, {"post"}) = 0
             /\ Local(new, o, {"delete"}) = 0
  <2>1. ASSUME NEW A
        PROVE  Local(new, o, A) = Bit("ref" \in A /\ x = o) + Bit("unique" \in A /\ y = o)
    BY OpsLocal DEF new
  <2> HIDE DEF new
  <2> QED BY <2>1 DEF Bit
<1>2. todo'[t] = new
  OBVIOUS
<1> HIDE DEF new
<1>3. ASSUME NEW o \in Objects, NEW A
      PROVE  Queued(todo, o, A) \in Nat /\ Queued(todo', o, A) = Queued(todo, o, A) + Local(new, o, A)
  BY <1>2, IdleCount
<1> QED BY <1>1, <1>3

\* The list such an operation leaves.
LEMMA IdleCounts ==
  ASSUME todo \in [Threads -> Lists], NEW t \in Threads, Idle(t),
         NEW x \in Objects \cup {Null}, NEW y \in Objects \cup {Null},
         todo' = [todo EXCEPT ![t] = RefOps(x) \o ReleaseOps(y)]
  PROVE  /\ todo' \in [Threads -> Lists] /\ todo'[t] = RefOps(x) \o ReleaseOps(y)
         /\ \A s \in Threads : s # t => todo'[s] = todo[s]
         /\ \A s \in Threads : Len(todo'[s]) <= 3
         /\ \A o \in Objects :
              /\ Queued(todo', o, {"ref"}) = Queued(todo, o, {"ref"}) + Bit(x = o)
              /\ Queued(todo', o, {"unique", "sub"})
                   = Queued(todo, o, {"unique", "sub"}) + Bit(y = o)
              /\ Queued(todo', o, {"post"}) = Queued(todo, o, {"post"})
              /\ Queued(todo', o, {"delete"}) = Queued(todo, o, {"delete"})
<1>1. RefOps(x) \o ReleaseOps(y) \in Lists
  BY OpsForms
<1>2. /\ todo' \in [Threads -> Lists] /\ todo'[t] = RefOps(x) \o ReleaseOps(y)
      /\ \A s \in Threads : s # t => todo'[s] = todo[s]
      /\ \A s \in Threads : Len(todo'[s]) <= 3
  BY <1>1, TodoStep
<1> QED BY <1>2, IdleAdds, Zenon

\* A thread whose list and handles stay as they are stays backed.
LEMMA BackedKept ==
  ASSUME IInv, NEW s \in Threads, NEW o \in Objects, todo'[s] = todo[s],
         \A v \in Vars : ptr[s][v] = o => ptr'[s][v] = o,
         Leaked(o) = 1 => Leaked(o)' = 1
  PROVE  Backed(s, o)'
<1>1. Backed(s, o)
  BY DEF IInv
<1> QED BY <1>1 DEF Backed

\* The thread that has filled a handle with x is.
LEMMA BackedNew ==
  ASSUME NEW t \in Threads, NEW o \in Objects,
         NEW x \in Objects \cup {Null}, NEW y \in Objects \cup {Null},
         todo'[t] = RefOps(x) \o ReleaseOps(y),
         x = o => \E v \in Vars : ptr'[t][v] = o,
         x = o => \/ Leaked(o)' = 1 \/ y = o
                  \/ \E v, w \in Vars : v # w /\ ptr'[t][v] = o /\ ptr'[t][w] = o
  PROVE  Backed(t, o)'
<1>1. CASE x = o
  <2>1. o # Null
    BY NullAssumption
  <2>2. y = o => Matches(todo'[t], 2, o, {"unique"})
    <3>1. y = o => todo'[t] = << Entry("ref", x), Entry("unique", y) >>
      BY <1>1, <2>1, OpsForms
    <3>2. Matches(<< Entry("ref", x), Entry("unique", o) >>, 2, o, {"unique"})
      BY DEF Matches, Entry
    <3> QED BY <3>1, <3>2
  <2> QED BY <1>1, <2>2 DEF Backed
<1>2. CASE x # o
  <2>1. ~Matches(todo'[t], 1, o, {"ref"})
    <3>1. todo'[t] \in {<<>>, << Entry("ref", x) >>, << Entry("unique", y) >>,
                        << Entry("ref", x), Entry("unique", y) >>}
      BY OpsForms
    <3>2. ~Matches(<<>>, 1, o, {"ref"})
      BY DEF Matches
    <3>3. ~Matches(<< Entry("ref", x) >>, 1, o, {"ref"})
      BY <1>2 DEF Matches, Entry
    <3>4. ~Matches(<< Entry("unique", y) >>, 1, o, {"ref"})
      BY DEF Matches, Entry
    <3>5. ~Matches(<< Entry("ref", x), Entry("unique", y) >>, 1, o, {"ref"})
      BY <1>2 DEF Matches, Entry
    <3> QED BY <3>1, <3>2, <3>3, <3>4, <3>5
  <2> QED BY <2>1 DEF Backed
<1> QED BY <1>1, <1>2

\* What an operation on handles does to the pointers: it moves references as
\* HandleStep asks, leaves the handles of other threads filled, and fills one
\* with x.
HandleEffect(t, x, y) ==
  /\ kind' = kind /\ freed' = freed /\ rc' = rc /\ addr' = addr
  /\ ptr' \in [Threads -> [Vars -> Objects \cup {Null}]]
  /\ raw' \in [Threads -> Objects \cup {Null}] /\ jobs' \in [Objects -> Nat]
  /\ \A o \in Objects :
       /\ Held(o)' + Bit(y = o) = Held(o) + Bit(x = o)
       /\ x = o \/ y = o => Held(o) > 0
       /\ \A s \in Threads, v \in Vars : s # t /\ ptr[s][v] = o => ptr'[s][v] = o
       /\ x = o => \E v \in Vars : ptr'[t][v] = o
       /\ x = o => \/ Leaked(o) = 1 \/ y = o
                   \/ \E v, w \in Vars : v # w /\ ptr'[t][v] = o /\ ptr'[t][w] = o

\* An operation on handles keeps the invariant.
LEMMA HandleOp ==
  ASSUME IInv, NEW t \in Threads, Idle(t),
         NEW x \in Objects \cup {Null}, NEW y \in Objects \cup {Null},
         todo' = [todo EXCEPT ![t] = RefOps(x) \o ReleaseOps(y)],
         HandleEffect(t, x, y)
  PROVE  IInv'
<1>1. /\ todo' \in [Threads -> Lists] /\ todo'[t] = RefOps(x) \o ReleaseOps(y)
      /\ \A s \in Threads : s # t => todo'[s] = todo[s]
      /\ \A s \in Threads : Len(todo'[s]) <= 3
      /\ \A o \in Objects :
           /\ Queued(todo', o, {"ref"}) = Queued(todo, o, {"ref"}) + Bit(x = o)
           /\ Queued(todo', o, {"unique", "sub"})
                = Queued(todo, o, {"unique", "sub"}) + Bit(y = o)
           /\ Queued(todo', o, {"post"}) = Queued(todo, o, {"post"})
           /\ Queued(todo', o, {"delete"}) = Queued(todo, o, {"delete"})
  <2>1. todo \in [Threads -> Lists]
    BY DEF IInv, ShapeOK
  <2> QED BY <2>1, IdleCounts, Zenon
<1>2. ShapeOK' /\ AddressOK'
  BY <1>1 DEF IInv, ShapeOK, TypeOK, AddressOK, HandleEffect
<1>3. ASSUME NEW o \in Objects PROVE ObjectInv(o)'
  <2>1. kind'[o] = kind[o] /\ freed' = freed /\ rc'[o] = rc[o] /\ jobs'[o] \in Nat
    BY DEF HandleEffect
  <2>2. Held(o)' + Bit(y = o) = Held(o) + Bit(x = o) /\ (x = o \/ y = o => Held(o) > 0)
    BY DEF HandleEffect
  <2>3. /\ Queued(todo', o, {"ref"}) = Queued(todo, o, {"ref"}) + Bit(x = o)
        /\ Queued(todo', o, {"unique", "sub"}) = Queued(todo, o, {"unique", "sub"}) + Bit(y = o)
        /\ Queued(todo', o, {"post"}) = Queued(todo, o, {"post"})
        /\ Queued(todo', o, {"delete"}) = Queued(todo, o, {"delete"})
    BY <1>1
  <2> QED BY <2>1, <2>2, <2>3, HandleStep, Zenon
<1>4. ASSUME NEW s \in Threads, NEW o \in Objects PROVE Backed(s, o)'
  <2>1. Leaked(o)' = Leaked(o)
    BY DEF Leaked, HandleEffect
  <2>2. CASE s = t
    <3>1. /\ x = o => \E v \in Vars : ptr'[t][v] = o
          /\ x = o => \/ Leaked(o)' = 1 \/ y = o
                      \/ \E v, w \in Vars : v # w /\ ptr'[t][v] = o /\ ptr'[t][w] = o
      BY <2>1 DEF HandleEffect
    <3> QED BY <1>1, <2>2, <3>1, BackedNew
  <2>3. CASE s # t
    <3>1. todo'[s] = todo[s] /\ \A v \in Vars : ptr[s][v] = o => ptr'[s][v] = o
      BY <1>1, <2>3 DEF HandleEffect
    <3> QED BY <2>1, <3>1, BackedKept
  <2> QED BY <2>2, <2>3
<1> QED BY <1>2, <1>3, <1>4 DEF IInv

\* An object in a handle, or in a pointer from release(), is held.
LEMMA HolderCounts ==
  ASSUME IInv, NEW t \in Threads, NEW o \in Objects
  PROVE  /\ Slots(ptr, o) \in Nat /\ Raws(raw, o) \in Nat /\ jobs[o] \in Nat
         /\ \A v \in Vars : ptr[t][v] = o => Slots(ptr, o) > 0 /\ Held(o) > 0
         /\ raw[t] = o => Raws(raw, o) > 0 /\ Held(o) > 0
         /\ jobs[o] > 0 => Held(o) > 0
<1>1. Slots(ptr, o) \in Nat /\ Raws(raw, o) \in Nat
  BY Naturalness
<1>2. jobs[o] \in Nat
  BY DEF IInv, ShapeOK, TypeOK
<1>3. ASSUME NEW v \in Vars, ptr[t][v] = o PROVE Slots(ptr, o) > 0
  <2>1. Slots(ptr, o) >= Bit(ptr[t][v] = o)
    BY SlotChange
  <2> QED BY <1>1, <1>3, <2>1 DEF Bit
<1>4. ASSUME raw[t] = o PROVE Raws(raw, o) > 0
  <2>1. Raws(raw, o) >= Bit(raw[t] = o)
    BY RawChange
  <2> QED BY <1>1, <1>4, <2>1 DEF Bit
<1> QED BY <1>1, <1>2, <1>3, <1>4 DEF Held

\* v = w.
LEMMA CopyStep ==
  ASSUME IInv, NEW t \in Threads, NEW v \in Vars, NEW w \in Vars, Copy(t, v, w)
  PROVE  IInv'
<1> DEFINE x == ptr[t][w]
           y == ptr[t][v]
<1>1. /\ Idle(t) /\ todo' = [todo EXCEPT ![t] = RefOps(x) \o ReleaseOps(y)]
      /\ ptr' = [ptr EXCEPT ![t][v] = x]
      /\ UNCHANGED <<kind, rc, freed, raw, addr, jobs>>
  BY DEF Copy, Assign, counters
<1>2. /\ ptr \in [Threads -> [Vars -> Objects \cup {Null}]]
      /\ raw \in [Threads -> Objects \cup {Null}] /\ jobs \in [Objects -> Nat]
  BY DEF IInv, ShapeOK, TypeOK
<1>3. x \in Objects \cup {Null} /\ y \in Objects \cup {Null}
  BY <1>2
<1>4. /\ ptr' \in [Threads -> [Vars -> Objects \cup {Null}]] /\ ptr'[t][v] = x
      /\ \A s \in Threads, u \in Vars : s # t \/ u # v => ptr'[s][u] = ptr[s][u]
  BY <1>1, <1>2, <1>3
<1>5. ASSUME NEW o \in Objects
      PROVE  /\ Held(o)' + Bit(y = o) = Held(o) + Bit(x = o)
             /\ x = o \/ y = o => Held(o) > 0
             /\ x = o => \/ y = o
                         \/ \E a, b \in Vars : a # b /\ ptr'[t][a] = o /\ ptr'[t][b] = o
  <2>1. /\ Slots(ptr, o) \in Nat /\ Slots(ptr', o) \in Nat
        /\ Slots(ptr', o) + Bit(ptr[t][v] = o) = Slots(ptr, o) + Bit(ptr'[t][v] = o)
    BY <1>4, SlotChange
  <2>2. Held(o)' = Slots(ptr', o) + Raws(raw, o) + jobs[o]
    BY <1>1 DEF Held
  <2>3. Raws(raw, o) \in Nat /\ jobs[o] \in Nat
    BY HolderCounts
  <2>4. Held(o)' + Bit(y = o) = Held(o) + Bit(x = o)
    BY <1>4, <2>1, <2>2, <2>3 DEF Held, Bit
  <2>5. x = o \/ y = o => Held(o) > 0
    BY HolderCounts
  <2> QED BY <1>4, <2>4, <2>5
<1>6. HandleEffect(t, x, y)
  BY <1>1, <1>2, <1>4, <1>5 DEF HandleEffect
<1> QED BY <1>1, <1>3, <1>6, HandleOp

\* v = nullptr.
LEMMA ResetStep ==
  ASSUME IInv, NEW t \in Threads, NEW v \in Vars, Reset(t, v)
  PROVE  IInv'
<1> DEFINE y == ptr[t][v]
<1>1. /\ Idle(t) /\ todo' = [todo EXCEPT ![t] = RefOps(Null) \o ReleaseOps(y)]
      /\ ptr' = [ptr EXCEPT ![t][v] = Null]
      /\ UNCHANGED <<kind, rc, freed, raw, addr, jobs>>
  BY DEF Reset, Assign, counters
<1>2. /\ ptr \in [Threads -> [Vars -> Objects \cup {Null}]]
      /\ raw \in [Threads -> Objects \cup {Null}] /\ jobs \in [Objects -> Nat]
  BY DEF IInv, ShapeOK, TypeOK
<1>3. y \in Objects \cup {Null}
  BY <1>2
<1>4. /\ ptr' \in [Threads -> [Vars -> Objects \cup {Null}]] /\ ptr'[t][v] = Null
      /\ \A s \in Threads, u \in Vars : s # t \/ u # v => ptr'[s][u] = ptr[s][u]
  BY <1>1, <1>2
<1>5. ASSUME NEW o \in Objects
      PROVE  /\ Held(o)' + Bit(y = o) = Held(o) + Bit(Null = o)
             /\ Null # o /\ (y = o => Held(o) > 0)
  <2>1. /\ Slots(ptr, o) \in Nat /\ Slots(ptr', o) \in Nat
        /\ Slots(ptr', o) + Bit(ptr[t][v] = o) = Slots(ptr, o) + Bit(ptr'[t][v] = o)
    BY <1>4, SlotChange
  <2>2. Held(o)' = Slots(ptr', o) + Raws(raw, o) + jobs[o]
    BY <1>1 DEF Held
  <2>3. Raws(raw, o) \in Nat /\ jobs[o] \in Nat
    BY HolderCounts
  <2>4. Held(o)' + Bit(y = o) = Held(o) + Bit(Null = o)
    BY <1>4, <2>1, <2>2, <2>3 DEF Held, Bit
  <2>5. y = o => Held(o) > 0
    BY HolderCounts
  <2> QED BY <2>4, <2>5, NullAssumption
<1>6. HandleEffect(t, Null, y)
  BY <1>1, <1>2, <1>4, <1>5 DEF HandleEffect
<1> QED BY <1>1, <1>3, <1>6, HandleOp

\* No reference to count: only a release, or nothing.
LEMMA NoRef ==
  ASSUME IInv, NEW t \in Threads, Idle(t), NEW y \in Objects \cup {Null}
  PROVE  /\ RefOps(Null) \o ReleaseOps(y) = ReleaseOps(y)
         /\ [todo EXCEPT ![t] = RefOps(Null) \o ReleaseOps(Null)] = todo
<1>1. \A z \in Objects \cup {Null} : RefOps(Null) \o ReleaseOps(z) = ReleaseOps(z)
  BY OpsForms
<1>2. ReleaseOps(Null) = <<>> /\ RefOps(Null) \o ReleaseOps(Null) = <<>>
  BY <1>1 DEF ReleaseOps
<1>3. todo \in [Threads -> Lists] /\ todo[t] = <<>>
  BY DEF IInv, ShapeOK, Idle
<1> QED BY <1>1, <1>2, <1>3

\* Only the handles v of t and w of u change: first one, then the other.
OnlyTwo(t, v, u, w) ==
  \A a \in Threads, b \in Vars :
    (a # t \/ b # v) /\ (a # u \/ b # w) => ptr'[a][b] = ptr[a][b]

LEMMA TwoSlots ==
  ASSUME NEW t \in Threads, NEW v \in Vars, NEW u \in Threads, NEW w \in Vars,
         t # u \/ v # w, OnlyTwo(t, v, u, w),
         ptr \in [Threads -> [Vars -> Objects \cup {Null}]], NEW o
  PROVE  /\ Slots(ptr, o) \in Nat /\ Slots(ptr', o) \in Nat
         /\ Slots(ptr', o) + Bit(ptr[t][v] = o) + Bit(ptr[u][w] = o)
              = Slots(ptr, o) + Bit(ptr'[t][v] = o) + Bit(ptr'[u][w] = o)
<1> DEFINE x   == ptr'[t][v]
           mid == [ptr EXCEPT ![t][v] = x]
<1>1. mid[t][v] = x /\ \A a \in Threads, b \in Vars : a # t \/ b # v => mid[a][b] = ptr[a][b]
  OBVIOUS
<1>2. mid[u][w] = ptr[u][w]
  BY <1>1
<1>3. \A a \in Threads, b \in Vars : a # u \/ b # w => ptr'[a][b] = mid[a][b]
  BY <1>1 DEF OnlyTwo
<1> HIDE DEF mid
<1>4. /\ Slots(ptr, o) \in Nat /\ Slots(mid, o) \in Nat
      /\ Slots(mid, o) + Bit(ptr[t][v] = o) = Slots(ptr, o) + Bit(mid[t][v] = o)
  BY <1>1, SlotChange
<1>5. /\ Slots(ptr', o) \in Nat
      /\ Slots(ptr', o) + Bit(mid[u][w] = o) = Slots(mid, o) + Bit(ptr'[u][w] = o)
  BY <1>3, SlotChange
<1>6. /\ Bit(ptr[t][v] = o) \in Nat /\ Bit(ptr[u][w] = o) \in Nat
      /\ Bit(x = o) \in Nat /\ Bit(ptr'[u][w] = o) \in Nat
  BY DEF Bit
<1>7. Slots(mid, o) + Bit(ptr[t][v] = o) = Slots(ptr, o) + Bit(x = o)
  BY <1>1, <1>4
<1>8. Slots(ptr', o) + Bit(ptr[u][w] = o) = Slots(mid, o) + Bit(ptr'[u][w] = o)
  BY <1>2, <1>5
<1> HIDE DEF x
<1>9. Slots(ptr', o) + Bit(ptr[t][v] = o) + Bit(ptr[u][w] = o)
        = Slots(ptr, o) + Bit(x = o) + Bit(ptr'[u][w] = o)
  BY <1>4, <1>5, <1>6, <1>7, <1>8
<1> QED BY <1>4, <1>5, <1>9 DEF x

\* v = std::move(w).
LEMMA MoveStep ==
  ASSUME IInv, NEW t \in Threads, NEW v \in Vars, NEW w \in Vars, Move(t, v, w)
  PROVE  IInv'
<1> DEFINE y == IF v = w THEN Null ELSE ptr[t][v]
<1>1. /\ Idle(t) /\ ptr' = [ptr EXCEPT ![t][w] = Null, ![t][v] = ptr[t][w]]
      /\ todo' = [todo EXCEPT ![t] = IF v = w THEN <<>> ELSE ReleaseOps(ptr[t][v])]
      /\ UNCHANGED <<kind, rc, freed, raw, addr, jobs>>
  BY DEF Move, counters
<1>2. /\ ptr \in [Threads -> [Vars -> Objects \cup {Null}]]
      /\ raw \in [Threads -> Objects \cup {Null}] /\ jobs \in [Objects -> Nat]
  BY DEF IInv, ShapeOK, TypeOK
<1>3. y \in Objects \cup {Null} /\ ptr[t][w] \in Objects \cup {Null}
  BY <1>2
<1>4. todo' = [todo EXCEPT ![t] = RefOps(Null) \o ReleaseOps(y)]
  <2>1. RefOps(Null) \o ReleaseOps(y) = ReleaseOps(y)
    BY <1>1, <1>3, NoRef
  <2>2. ReleaseOps(y) = IF v = w THEN <<>> ELSE ReleaseOps(ptr[t][v])
    BY DEF ReleaseOps
  <2> QED BY <1>1, <2>1, <2>2
<1>5. /\ ptr' \in [Threads -> [Vars -> Objects \cup {Null}]]
      /\ v # w => ptr'[t][v] = ptr[t][w] /\ ptr'[t][w] = Null
      /\ v = w => ptr' = ptr
      /\ \A s \in Threads, u \in Vars : s # t \/ u \notin {v, w} => ptr'[s][u] = ptr[s][u]
  BY <1>1, <1>2, <1>3
<1>6. ASSUME NEW o \in Objects
      PROVE  Held(o)' + Bit(y = o) = Held(o) + Bit(Null = o) /\ Null # o /\ (y = o => Held(o) > 0)
  <2>1. Null # o
    BY NullAssumption
  <2>2. Held(o)' = Slots(ptr', o) + Raws(raw, o) + jobs[o]
    BY <1>1 DEF Held
  <2>3. Slots(ptr, o) \in Nat /\ Raws(raw, o) \in Nat /\ jobs[o] \in Nat
    BY HolderCounts
  <2>4. Slots(ptr', o) \in Nat /\ Slots(ptr', o) + Bit(y = o) = Slots(ptr, o) + Bit(Null = o)
    <3>1. CASE v = w
      BY <1>5, <2>1, <2>3, <3>1 DEF Bit
    <3>2. CASE v # w
      <4>1. /\ Slots(ptr', o) \in Nat
            /\ Slots(ptr', o) + Bit(ptr[t][v] = o) + Bit(ptr[t][w] = o)
                 = Slots(ptr, o) + Bit(ptr'[t][v] = o) + Bit(ptr'[t][w] = o)
        <5>1. OnlyTwo(t, v, t, w)
          BY <1>5 DEF OnlyTwo
        <5> QED BY <1>2, <3>2, <5>1, TwoSlots
      <4>2. y = ptr[t][v] /\ ptr'[t][v] = ptr[t][w] /\ ptr'[t][w] = Null
        BY <1>5, <3>2
      <4> HIDE DEF y
      <4> QED BY <2>3, <4>1, <4>2 DEF Bit
    <3> QED BY <3>1, <3>2
  <2>5. y = o => Held(o) > 0
    BY <2>1, HolderCounts
  <2> HIDE DEF y
  <2>6. Held(o)' + Bit(y = o) = Held(o) + Bit(Null = o)
    BY <2>2, <2>3, <2>4 DEF Held, Bit
  <2> QED BY <2>1, <2>5, <2>6
<1>7. HandleEffect(t, Null, y)
  BY <1>1, <1>2, <1>5, <1>6 DEF HandleEffect
<1> HIDE DEF y
<1> QED BY <1>1, <1>3, <1>4, <1>7, HandleOp

LEMMA SwapStep ==
  ASSUME IInv, NEW t \in Threads, NEW v \in Vars, NEW w \in Vars, Swap(t, v, w)
  PROVE  IInv'
<1>1. /\ Idle(t) /\ ptr' = [ptr EXCEPT ![t][v] = ptr[t][w], ![t][w] = ptr[t][v]]
      /\ UNCHANGED <<kind, rc, freed, raw, addr, jobs, todo>>
  BY DEF Swap, counters
<1>2. /\ ptr \in [Threads -> [Vars -> Objects \cup {Null}]]
      /\ raw \in [Threads -> Objects \cup {Null}] /\ jobs \in [Objects -> Nat]
  BY DEF IInv, ShapeOK, TypeOK
<1>3. todo' = [todo EXCEPT ![t] = RefOps(Null) \o ReleaseOps(Null)]
  BY <1>1, NoRef
<1>4. /\ ptr' \in [Threads -> [Vars -> Objects \cup {Null}]]
      /\ ptr'[t][v] = ptr[t][w] /\ ptr'[t][w] = ptr[t][v]
      /\ \A s \in Threads, u \in Vars : s # t \/ u \notin {v, w} => ptr'[s][u] = ptr[s][u]
  BY <1>1, <1>2
<1>5. ASSUME NEW o \in Objects
      PROVE  Held(o)' + Bit(Null = o) = Held(o) + Bit(Null = o) /\ Null # o
  <2>1. Slots(ptr, o) \in Nat
    BY HolderCounts
  <2>2. Slots(ptr', o) = Slots(ptr, o)
    <3>1. CASE v = w
      <4>1. ptr' = ptr
        BY <1>1, <1>2, <3>1
      <4> QED BY <4>1
    <3>2. CASE v # w
      <4>1. OnlyTwo(t, v, t, w)
        BY <1>4 DEF OnlyTwo
      <4>2. /\ Slots(ptr', o) \in Nat
            /\ Slots(ptr', o) + Bit(ptr[t][v] = o) + Bit(ptr[t][w] = o)
                 = Slots(ptr, o) + Bit(ptr'[t][v] = o) + Bit(ptr'[t][w] = o)
        BY <1>2, <3>2, <4>1, TwoSlots
      <4> QED BY <1>4, <2>1, <4>2 DEF Bit
    <3> QED BY <3>1, <3>2
  <2>3. Held(o)' = Held(o)
    BY <1>1, <2>2 DEF Held
  <2> QED BY <2>3, NullAssumption
<1>6. HandleEffect(t, Null, Null)
  BY <1>1, <1>2, <1>4, <1>5 DEF HandleEffect
<1>7. Idle(t) /\ Null \in Objects \cup {Null}
  BY <1>1
<1> QED BY <1>3, <1>6, <1>7, HandleOp, Zenon

\* release().
LEMMA DetachStep ==
  ASSUME IInv, NEW t \in Threads, NEW v \in Vars, Detach(t, v)
  PROVE  IInv'
<1>1. /\ Idle(t) /\ raw[t] = Null
      /\ raw' = [raw EXCEPT ![t] = ptr[t][v]] /\ ptr' = [ptr EXCEPT ![t][v] = Null]
      /\ UNCHANGED <<kind, rc, freed, addr, jobs, todo>>
  BY DEF Detach, counters
<1>2. /\ ptr \in [Threads -> [Vars -> Objects \cup {Null}]]
      /\ raw \in [Threads -> Objects \cup {Null}] /\ jobs \in [Objects -> Nat]
  BY DEF IInv, ShapeOK, TypeOK
<1>3. todo' = [todo EXCEPT ![t] = RefOps(Null) \o ReleaseOps(Null)]
  BY <1>1, NoRef
<1>4. /\ ptr' \in [Threads -> [Vars -> Objects \cup {Null}]] /\ ptr'[t][v] = Null
      /\ \A s \in Threads, u \in Vars : s # t \/ u # v => ptr'[s][u] = ptr[s][u]
  BY <1>1, <1>2
<1>5. /\ raw' \in [Threads -> Objects \cup {Null}] /\ raw'[t] = ptr[t][v]
      /\ \A s \in Threads : s # t => raw'[s] = raw[s]
  BY <1>1, <1>2
<1>6. ASSUME NEW o \in Objects
      PROVE  Held(o)' + Bit(Null = o) = Held(o) + Bit(Null = o) /\ Null # o
  <2>1. /\ Slots(ptr, o) \in Nat /\ Slots(ptr', o) \in Nat
        /\ Slots(ptr', o) + Bit(ptr[t][v] = o) = Slots(ptr, o) + Bit(ptr'[t][v] = o)
    BY <1>4, SlotChange
  <2>2. /\ Raws(raw, o) \in Nat /\ Raws(raw', o) \in Nat
        /\ Raws(raw', o) + Bit(raw[t] = o) = Raws(raw, o) + Bit(raw'[t] = o)
    BY <1>5, RawChange
  <2>3. Null # o
    BY NullAssumption
  <2>4. Slots(ptr', o) + Bit(ptr[t][v] = o) = Slots(ptr, o)
    BY <1>4, <2>1, <2>3 DEF Bit
  <2>5. Raws(raw', o) = Raws(raw, o) + Bit(ptr[t][v] = o)
    BY <1>1, <1>5, <2>2, <2>3 DEF Bit
  <2>6. Slots(ptr', o) + Raws(raw', o) = Slots(ptr, o) + Raws(raw, o)
    BY <2>1, <2>2, <2>4, <2>5 DEF Bit
  <2>7. Held(o)' = Held(o)
    BY <1>1, <2>6 DEF Held
  <2> QED BY <2>3, <2>7
<1>7. HandleEffect(t, Null, Null)
  BY <1>1, <1>2, <1>4, <1>5, <1>6 DEF HandleEffect
<1>8. Idle(t) /\ Null \in Objects \cup {Null}
  BY <1>1
<1> QED BY <1>3, <1>7, <1>8, HandleOp, Zenon

\* v.reset(raw, false).
LEMMA AdoptStep ==
  ASSUME IInv, NEW t \in Threads, NEW v \in Vars, Adopt(t, v)
  PROVE  IInv'
<1> DEFINE y == ptr[t][v]
<1>1. /\ Idle(t) /\ raw[t] # Null
      /\ raw' = [raw EXCEPT ![t] = Null] /\ ptr' = [ptr EXCEPT ![t][v] = raw[t]]
      /\ todo' = [todo EXCEPT ![t] = ReleaseOps(y)]
      /\ UNCHANGED <<kind, rc, freed, addr, jobs>>
  BY DEF Adopt, counters
<1>2. /\ ptr \in [Threads -> [Vars -> Objects \cup {Null}]]
      /\ raw \in [Threads -> Objects \cup {Null}] /\ jobs \in [Objects -> Nat]
  BY DEF IInv, ShapeOK, TypeOK
<1>3. y \in Objects \cup {Null} /\ raw[t] \in Objects \cup {Null}
  BY <1>2
<1>4. todo' = [todo EXCEPT ![t] = RefOps(Null) \o ReleaseOps(y)]
  BY <1>1, <1>3, NoRef
<1>5. /\ ptr' \in [Threads -> [Vars -> Objects \cup {Null}]] /\ ptr'[t][v] = raw[t]
      /\ \A s \in Threads, u \in Vars : s # t \/ u # v => ptr'[s][u] = ptr[s][u]
  BY <1>1, <1>2, <1>3
<1>6. /\ raw' \in [Threads -> Objects \cup {Null}] /\ raw'[t] = Null
      /\ \A s \in Threads : s # t => raw'[s] = raw[s]
  BY <1>1, <1>2
<1>7. ASSUME NEW o \in Objects
      PROVE  Held(o)' + Bit(y = o) = Held(o) + Bit(Null = o) /\ Null # o /\ (y = o => Held(o) > 0)
  <2>1. /\ Slots(ptr, o) \in Nat /\ Slots(ptr', o) \in Nat
        /\ Slots(ptr', o) + Bit(ptr[t][v] = o) = Slots(ptr, o) + Bit(ptr'[t][v] = o)
    BY <1>5, SlotChange
  <2>2. /\ Raws(raw, o) \in Nat /\ Raws(raw', o) \in Nat
        /\ Raws(raw', o) + Bit(raw[t] = o) = Raws(raw, o) + Bit(raw'[t] = o)
    BY <1>6, RawChange
  <2>3. Null # o
    BY NullAssumption
  <2>4. Slots(ptr', o) + Bit(y = o) = Slots(ptr, o) + Bit(raw[t] = o)
    BY <1>5, <2>1
  <2>5. Raws(raw', o) + Bit(raw[t] = o) = Raws(raw, o)
    BY <1>6, <2>2, <2>3 DEF Bit
  <2>6. Slots(ptr', o) + Raws(raw', o) + Bit(y = o) = Slots(ptr, o) + Raws(raw, o)
    BY <2>1, <2>2, <2>4, <2>5 DEF Bit
  <2>7. Held(o)' = Slots(ptr', o) + Raws(raw', o) + jobs[o] /\ jobs[o] \in Nat
    BY <1>1, <1>2 DEF Held
  <2>8. Bit(Null = o) = 0 /\ Bit(y = o) \in Nat
    BY <2>3 DEF Bit
  <2>9. Held(o)' + Bit(y = o) = Held(o) + Bit(Null = o)
    BY <2>1, <2>2, <2>6, <2>7, <2>8 DEF Held
  <2>10. y = o => Held(o) > 0
    BY HolderCounts
  <2> QED BY <2>3, <2>9, <2>10
<1>8. HandleEffect(t, Null, y)
  BY <1>1, <1>2, <1>5, <1>6, <1>7 DEF HandleEffect
<1>9. Idle(t) /\ Null \in Objects \cup {Null}
  BY <1>1
<1> QED BY <1>3, <1>4, <1>8, <1>9, HandleOp

\* A handle moves to another thread.
LEMMA HandOverStep ==
  ASSUME IInv, NEW t \in Threads, NEW v \in Vars, NEW u \in Threads, NEW w \in Vars,
         HandOver(t, v, u, w)
  PROVE  IInv'
<1>1. /\ Idle(t) /\ t # u /\ ptr[u][w] = Null
      /\ ptr' = [ptr EXCEPT ![u][w] = ptr[t][v], ![t][v] = Null]
      /\ UNCHANGED <<kind, rc, freed, raw, addr, jobs, todo>>
  BY DEF HandOver, counters
<1>2. /\ ptr \in [Threads -> [Vars -> Objects \cup {Null}]]
      /\ raw \in [Threads -> Objects \cup {Null}] /\ jobs \in [Objects -> Nat]
  BY DEF IInv, ShapeOK, TypeOK
<1>3. todo' = [todo EXCEPT ![t] = RefOps(Null) \o ReleaseOps(Null)]
  BY <1>1, NoRef
<1>4. /\ ptr' \in [Threads -> [Vars -> Objects \cup {Null}]]
      /\ ptr'[t][v] = Null /\ ptr'[u][w] = ptr[t][v]
      /\ \A a \in Threads, b \in Vars : (a # t \/ b # v) /\ (a # u \/ b # w) =>
           ptr'[a][b] = ptr[a][b]
  <2> DEFINE mid == [ptr EXCEPT ![u][w] = ptr[t][v]]
  <2>1. /\ mid \in [Threads -> [Vars -> Objects \cup {Null}]] /\ mid[u][w] = ptr[t][v]
        /\ \A a \in Threads, b \in Vars : a # u \/ b # w => mid[a][b] = ptr[a][b]
    BY <1>2
  <2>2. ptr' = [mid EXCEPT ![t][v] = Null]
    BY <1>1
  <2> HIDE DEF mid
  <2>3. ptr' \in [Threads -> [Vars -> Objects \cup {Null}]] /\ ptr'[t][v] = Null
    BY <2>1, <2>2
  <2>4. \A a \in Threads, b \in Vars : a # t \/ b # v => ptr'[a][b] = mid[a][b]
    BY <2>1, <2>2
  <2>5. ptr'[u][w] = ptr[t][v]
    BY <1>1, <2>1, <2>4
  <2> QED BY <2>1, <2>3, <2>4, <2>5
<1>5. ASSUME NEW o \in Objects
      PROVE  Held(o)' + Bit(Null = o) = Held(o) + Bit(Null = o) /\ Null # o
  <2>1. Null # o
    BY NullAssumption
  <2>2. /\ Slots(ptr', o) \in Nat /\ Slots(ptr, o) \in Nat
        /\ Slots(ptr', o) + Bit(ptr[t][v] = o) + Bit(ptr[u][w] = o)
             = Slots(ptr, o) + Bit(ptr'[t][v] = o) + Bit(ptr'[u][w] = o)
    <3>1. t # u
      BY <1>1
    <3>2. OnlyTwo(t, v, u, w)
      BY <1>4 DEF OnlyTwo
    <3> QED BY <1>2, <3>1, <3>2, TwoSlots
  <2>3. Bit(ptr[u][w] = o) = 0 /\ Bit(ptr'[t][v] = o) = 0
        /\ Bit(ptr'[u][w] = o) = Bit(ptr[t][v] = o) /\ Bit(ptr[t][v] = o) \in Nat
    BY <1>1, <1>4, <2>1 DEF Bit
  <2>4. Slots(ptr', o) = Slots(ptr, o)
    BY <2>2, <2>3
  <2>5. Held(o)' = Held(o)
    BY <1>1, <2>4 DEF Held
  <2> QED BY <2>1, <2>5
<1>6. ASSUME NEW o \in Objects, NEW s \in Threads, NEW b \in Vars, s # t, ptr[s][b] = o
      PROVE  ptr'[s][b] = o
  BY <1>1, <1>4, <1>6, NullAssumption
<1>7. HandleEffect(t, Null, Null)
  BY <1>1, <1>2, <1>4, <1>5, <1>6 DEF HandleEffect
<1>8. Idle(t) /\ Null \in Objects \cup {Null}
  BY <1>1
<1> QED BY <1>3, <1>7, <1>8, HandleOp, Zenon

\* A worker releases a job.
LEMMA JobDoneStep ==
  ASSUME IInv, NEW t \in Threads, NEW j \in Objects, JobDone(t, j)
  PROVE  IInv'
<1>1. /\ Idle(t) /\ jobs[j] > 0 /\ jobs' = [jobs EXCEPT ![j] = @ - 1]
      /\ todo' = [todo EXCEPT ![t] = ReleaseOps(j)]
      /\ UNCHANGED <<kind, rc, freed, ptr, raw, addr>>
  BY DEF JobDone, counters
<1>2. /\ ptr \in [Threads -> [Vars -> Objects \cup {Null}]]
      /\ raw \in [Threads -> Objects \cup {Null}] /\ jobs \in [Objects -> Nat]
  BY DEF IInv, ShapeOK, TypeOK
<1>3. todo' = [todo EXCEPT ![t] = RefOps(Null) \o ReleaseOps(j)]
  BY <1>1, NoRef
<1>4. jobs' \in [Objects -> Nat] /\ jobs'[j] = jobs[j] - 1
      /\ \A o \in Objects : o # j => jobs'[o] = jobs[o]
  BY <1>1, <1>2
<1>5. ASSUME NEW o \in Objects
      PROVE  Held(o)' + Bit(j = o) = Held(o) + Bit(Null = o) /\ Null # o /\ (j = o => Held(o) > 0)
  <2>1. Null # o /\ Slots(ptr, o) \in Nat /\ Raws(raw, o) \in Nat /\ jobs[o] \in Nat
        /\ (j = o => Held(o) > 0)
    BY <1>1, HolderCounts, NullAssumption
  <2>2. Held(o)' = Slots(ptr, o) + Raws(raw, o) + jobs'[o]
    BY <1>1 DEF Held
  <2>3. Held(o)' + Bit(j = o) = Held(o) + Bit(Null = o)
    BY <1>4, <2>1, <2>2 DEF Held, Bit
  <2> QED BY <2>1, <2>3
<1>6. HandleEffect(t, Null, j)
  BY <1>1, <1>2, <1>4, <1>5 DEF HandleEffect
<1>7. Idle(t) /\ Null \in Objects \cup {Null} /\ j \in Objects \cup {Null}
  BY <1>1
<1> QED BY <1>3, <1>6, <1>7, HandleOp

\* Nothing about an object changes but its address.
LEMMA ObjectKept ==
  ASSUME IInv, NEW o \in Objects,
         UNCHANGED <<kind, rc, freed, ptr, raw, jobs, todo>>
  PROVE  ObjectInv(o)'
<1>1. ObjectInv(o)
  BY DEF IInv
<1>2. Leaked(o)' = Leaked(o) /\ Unheld(o)' = Unheld(o)
  BY DEF Leaked, Unheld
<1> QED BY <1>1, <1>2 DEF ObjectInv, Counted, Unborn, Dying, Posting

\* v.address().
LEMMA AddressStep ==
  ASSUME IInv, NEW t \in Threads, NEW v \in Vars, NEW u \in Threads, Address(t, v, u)
  PROVE  IInv'
<1>1. /\ ptr[t][v] # Null /\ kind[ptr[t][v]] # "counted"
      /\ addr' = [addr EXCEPT ![u] = ptr[t][v]]
      /\ UNCHANGED <<kind, rc, freed, ptr, raw, jobs, todo>>
  BY DEF Address, counters
<1>2. ptr[t][v] \in Objects
  BY <1>1 DEF IInv, ShapeOK, TypeOK
<1>3. kind[ptr[t][v]] \in {"supervisor", "actor"}
  <2>1. Slots(ptr, ptr[t][v]) > 0 /\ Slots(ptr, ptr[t][v]) \in Nat
    BY <1>2, HolderCounts
  <2>2. kind[ptr[t][v]] # "none"
    BY <1>2, <2>1 DEF IInv, ObjectInv, Unborn, Unheld
  <2> QED BY <1>1, <1>2, <2>2 DEF IInv, ShapeOK, TypeOK
<1>4. ShapeOK' /\ AddressOK'
  BY <1>1, <1>2, <1>3 DEF IInv, ShapeOK, TypeOK, AddressOK
<1>5. ASSUME NEW o \in Objects PROVE ObjectInv(o)'
  BY <1>1, ObjectKept
<1>6. ASSUME NEW s \in Threads, NEW o \in Objects PROVE Backed(s, o)'
  <2>1. Leaked(o)' = Leaked(o)
    BY <1>1 DEF Leaked
  <2> QED BY <1>1, <2>1, BackedKept
<1> QED BY <1>4, <1>5, <1>6 DEF IInv

\* The handles stay as they are, and of the references to o that lists
\* mention dr are counted, dq released, dp handed to the executor, and da
\* are new ones that Schedule makes.
CountEffect(o, dr, dq, dp, da) ==
  /\ kind'[o] = kind[o] /\ ((o \in freed)' <=> (o \in freed)) /\ ptr' = ptr /\ raw' = raw
  /\ rc'[o] \in Nat /\ rc'[o] + dq = rc[o] + dr
  /\ jobs'[o] \in Nat /\ jobs'[o] = jobs[o] + dp
  /\ Queued(todo', o, {"delete"}) = Queued(todo, o, {"delete"})
  /\ Queued(todo', o, {"ref"}) + dr = Queued(todo, o, {"ref"}) + da
  /\ Queued(todo', o, {"unique", "sub"}) + dq = Queued(todo, o, {"unique", "sub"})
  /\ Queued(todo', o, {"post"}) + dp = Queued(todo, o, {"post"}) + da
  /\ da # 0 => kind[o] = "actor"

LEMMA CountStep ==
  ASSUME IInv, NEW o \in Objects,
         NEW dr \in Nat, NEW dq \in Nat, NEW dp \in Nat, NEW da \in Nat,
         CountEffect(o, dr, dq, dp, da)
  PROVE  ObjectInv(o)'
<1> DEFINE r  == rc[o]
           R  == Queued(todo, o, {"ref"})
           H  == Slots(ptr, o)
           W  == Raws(raw, o)
           J  == jobs[o]
           P  == Queued(todo, o, {"post"})
           Q  == Queued(todo, o, {"unique", "sub"})
           rp == rc'[o]
           Rp == Queued(todo', o, {"ref"})
           Jp == jobs'[o]
           Pp == Queued(todo', o, {"post"})
           Qp == Queued(todo', o, {"unique", "sub"})
<1>1. /\ R \in Nat /\ H \in Nat /\ W \in Nat /\ P \in Nat /\ Q \in Nat
      /\ Rp \in Nat /\ Pp \in Nat /\ Qp \in Nat
  BY Naturalness
<1>2. r \in Nat /\ J \in Nat /\ Jp \in Nat /\ rp \in Nat
  BY DEF IInv, ShapeOK, TypeOK, CountEffect
<1>3. Rp + dr = R + da /\ Qp + dq = Q /\ Pp + dp = P + da /\ rp + dq = r + dr /\ Jp = J + dp
  BY DEF CountEffect
<1>4. ObjectInv(o)
  BY DEF IInv
<1> HIDE DEF r, R, H, W, J, P, Q, rp, Rp, Jp, Pp, Qp
<1>5. rp + Rp + H + W + J + P + Q = r + R + H + W + Jp + Pp + Qp
  BY <1>1, <1>2, <1>3
<1>6. kind[o] # "actor" /\ Unheld(o) => Unheld(o)'
  <2> SUFFICES ASSUME H = 0, W = 0, J = 0, R = 0, P = 0, Q = 0, da = 0
               PROVE  Jp = 0 /\ Rp = 0 /\ Pp = 0 /\ Qp = 0
    BY DEF CountEffect, Unheld, R, H, W, J, P, Q, Rp, Jp, Pp, Qp
  <2> QED BY <1>1, <1>2, <1>3
<1>7. Posting(o)'
  <2> SUFFICES ASSUME kind[o] # "actor" PROVE Pp = 0
    BY DEF CountEffect, Posting, Pp
  <2>1. P = 0 /\ da = 0
    BY <1>4 DEF CountEffect, ObjectInv, Posting, P
  <2> QED BY <1>1, <1>2, <1>3, <2>1
<1>8. rc'[o] \in Nat /\ rc[o] \in Nat /\ jobs'[o] \in Nat /\ jobs[o] \in Nat
  BY <1>2 DEF r, J, Jp, rp
<1>9. rc'[o] + Queued(todo', o, {"ref"}) + Slots(ptr, o) + Raws(raw, o) + jobs[o]
           + Queued(todo, o, {"post"}) + Queued(todo, o, {"unique", "sub"})
         = rc[o] + Queued(todo, o, {"ref"}) + Slots(ptr', o) + Raws(raw', o) + jobs'[o]
           + Queued(todo', o, {"post"}) + Queued(todo', o, {"unique", "sub"})
  BY <1>5 DEF CountEffect, r, R, H, W, J, P, Q, rp, Rp, Jp, Pp, Qp
<1>10. /\ kind[o]' = kind[o] /\ ((o \in freed)' <=> (o \in freed))
       /\ Queued(todo', o, {"delete"}) = Queued(todo, o, {"delete"})
  BY DEF CountEffect
<1> QED BY <1>4, <1>6, <1>7, <1>8, <1>9, <1>10, BalancedStep

\* Where a list begins with something else than a reference, it ends there.
LEMMA HeadForms ==
  ASSUME IInv, NEW t \in Threads, NEW op, Doing(t, op)
  PROVE  /\ On(t) \in Objects /\ op \in Accesses
         /\ Tail(todo[t]) \in Lists /\ <<>> \o Tail(todo[t]) = Tail(todo[t])
         /\ \A o : ~Matches(Tail(todo[t]), 1, o, {"ref"})
         /\ op # "ref" => todo[t] = << Entry(op, On(t)) >> /\ Tail(todo[t]) = <<>>
         /\ \A o, A : Local(todo[t], o, A)
                        = Bit(op \in A /\ On(t) = o) + Local(Tail(todo[t]), o, A)
<1>1. todo[t] \in Lists /\ todo[t] # <<>> /\ Head(todo[t]).op = op /\ On(t) = Head(todo[t]).on
  BY DEF IInv, ShapeOK, Doing, On
<1>2. ASSUME NEW a \in Accesses, NEW p \in Objects, todo[t] = << Entry(a, p) >>
      PROVE  /\ op = a /\ On(t) = p /\ Tail(todo[t]) = <<>>
             /\ todo[t] = << Entry(op, On(t)) >>
  BY <1>1, <1>2 DEF Entry
<1>3. ASSUME NEW p \in Objects, NEW q \in Objects, NEW b \in {"unique", "post"},
             todo[t] = << Entry("ref", p), Entry(b, q) >>
      PROVE  op = "ref" /\ On(t) = p /\ Tail(todo[t]) = << Entry(b, q) >>
  BY <1>1, <1>3 DEF Entry
<1>4. <<>> \in Lists /\ <<>> \o <<>> = <<>> /\ \A o : ~Matches(<<>>, 1, o, {"ref"})
  BY DEF Lists, Matches
<1>5. ASSUME NEW q \in Objects, NEW b \in {"unique", "post"}
      PROVE  /\ << Entry(b, q) >> \in Lists /\ <<>> \o << Entry(b, q) >> = << Entry(b, q) >>
             /\ \A o : ~Matches(<< Entry(b, q) >>, 1, o, {"ref"})
  BY DEF Lists, Accesses, Matches, Entry
<1>6. ASSUME NEW o, NEW A
      PROVE  Local(todo[t], o, A) = Bit(op \in A /\ On(t) = o) + Local(Tail(todo[t]), o, A)
  <2>1. ASSUME NEW a \in Accesses, NEW p \in Objects, todo[t] = << Entry(a, p) >>
        PROVE  Local(todo[t], o, A) = Bit(op \in A /\ On(t) = o) + Local(Tail(todo[t]), o, A)
    <3>1. Local(<< Entry(op, On(t)) >>, o, A) = Bit(op \in A /\ On(t) = o) /\ Local(<<>>, o, A) = 0
      BY LocalOne, LocalNone
    <3>2. todo[t] = << Entry(op, On(t)) >> /\ Tail(todo[t]) = <<>>
      BY <1>2, <2>1
    <3>3. Bit(op \in A /\ On(t) = o) \in Nat
      BY DEF Bit
    <3> HIDE <2>1
    <3> QED BY <3>1, <3>2, <3>3
  <2>2. ASSUME NEW p \in Objects, NEW q \in Objects, NEW b \in {"unique", "post"},
               todo[t] = << Entry("ref", p), Entry(b, q) >>
        PROVE  Local(todo[t], o, A) = Bit(op \in A /\ On(t) = o) + Local(Tail(todo[t]), o, A)
    <3>1. /\ Local(<< Entry("ref", p), Entry(b, q) >>, o, A)
               = Bit("ref" \in A /\ p = o) + Bit(b \in A /\ q = o)
          /\ Local(<< Entry(b, q) >>, o, A) = Bit(b \in A /\ q = o)
      BY LocalOne, LocalTwo
    <3>2. op = "ref" /\ On(t) = p /\ Tail(todo[t]) = << Entry(b, q) >>
      BY <1>3, <2>2
    <3> QED BY <2>2, <3>1, <3>2
  <2> QED BY <1>1, <2>1, <2>2, ListForms
<1>7. CASE \E a \in Accesses, p \in Objects : todo[t] = << Entry(a, p) >>
  BY <1>2, <1>4, <1>6, <1>7
<1>8. CASE \E p, q \in Objects, b \in {"unique", "post"} :
             todo[t] = << Entry("ref", p), Entry(b, q) >>
  <2>1. "ref" \in Accesses
    BY DEF Accesses
  <2> QED BY <1>3, <1>5, <1>6, <1>8, <2>1
<1> QED BY <1>1, <1>7, <1>8, ListForms

\* Thread t goes on with ops: the access gone has been made, and there is one
\* of come (or none) to the same object in its place.
Rest(t, ops) == todo' = [todo EXCEPT ![t] = ops \o Tail(@)]

ListStep(t, gone, come) ==
  /\ todo' \in [Threads -> Lists] /\ \A s \in Threads : s # t => todo'[s] = todo[s]
  /\ \A o : ~Matches(todo'[t], 1, o, {"ref"})
  /\ \A o, A : /\ Queued(todo', o, A) \in Nat /\ Queued(todo, o, A) \in Nat
               /\ Queued(todo', o, A) + Bit(gone \cap A # {} /\ On(t) = o)
                    = Queued(todo, o, A) + Bit(come \cap A # {} /\ On(t) = o)

\* A thread has made an access.
LEMMA HeadRemoved ==
  ASSUME IInv, NEW t \in Threads, NEW op, Doing(t, op), Rest(t, <<>>)
  PROVE  ListStep(t, {op}, {})
<1> DEFINE new == Tail(todo[t])
<1>1. todo \in [Threads -> Lists] /\ new \in Lists /\ todo' = [todo EXCEPT ![t] = new]
  BY HeadForms DEF IInv, ShapeOK, Rest
<1>2. todo' \in [Threads -> Lists] /\ todo'[t] = new /\ \A s \in Threads : s # t => todo'[s] = todo[s]
  BY <1>1
<1>3. \A o : ~Matches(new, 1, o, {"ref"})
  BY HeadForms
<1>4. ASSUME NEW o, NEW A
      PROVE  /\ Queued(todo', o, A) \in Nat /\ Queued(todo, o, A) \in Nat
             /\ Queued(todo', o, A) + Bit(op \in A /\ On(t) = o) = Queued(todo, o, A)
  <2>1. Local(todo[t], o, A) = Bit(op \in A /\ On(t) = o) + Local(new, o, A)
    <3>1. \A q, B : Local(todo[t], q, B)
                      = Bit(op \in B /\ On(t) = q) + Local(Tail(todo[t]), q, B)
      BY HeadForms, Zenon
    <3> QED BY <3>1, Zenon DEF new
  <2> HIDE DEF new
  <2>2. /\ Queued(todo, o, A) \in Nat /\ Queued(todo', o, A) \in Nat
        /\ Queued(todo', o, A) + Local(todo[t], o, A) = Queued(todo, o, A) + Local(new, o, A)
        /\ Local(new, o, A) \in Nat
    BY <1>2, TodoCount
  <2>3. Bit(op \in A /\ On(t) = o) \in Nat
    BY DEF Bit
  <2> QED BY <2>1, <2>2, <2>3
<1>5. ASSUME NEW o, NEW A
      PROVE  /\ Queued(todo', o, A) \in Nat /\ Queued(todo, o, A) \in Nat
             /\ Queued(todo', o, A) + Bit({op} \cap A # {} /\ On(t) = o)
                  = Queued(todo, o, A) + Bit({} \cap A # {} /\ On(t) = o)
  <2>1. Bit({op} \cap A # {} /\ On(t) = o) = Bit(op \in A /\ On(t) = o)
        /\ Bit({} \cap A # {} /\ On(t) = o) = 0
    BY DEF Bit
  <2> QED BY <1>4, <2>1
<1> HIDE DEF new
<1> QED BY <1>2, <1>3, <1>5 DEF ListStep

\* deref() goes from one access to the next.
LEMMA HeadReplaced ==
  ASSUME IInv, NEW t \in Threads, NEW op, op # "ref", Doing(t, op), NEW next \in {"sub", "delete"},
         Rest(t, << Entry(next, On(t)) >>)
  PROVE  ListStep(t, {op}, {next})
<1> DEFINE new == << Entry(next, On(t)) >>
<1>1. todo \in [Threads -> Lists] /\ On(t) \in Objects
      /\ todo[t] = << Entry(op, On(t)) >> /\ Tail(todo[t]) = <<>>
  BY HeadForms DEF IInv, ShapeOK
<1>2. new \in Lists /\ new \o <<>> = new
  BY <1>1 DEF Lists, Accesses
<1>3. \A o : ~Matches(new, 1, o, {"ref"})
  BY DEF Matches, Entry
<1>4. ASSUME NEW o, NEW A
      PROVE  Local(todo[t], o, A) = Bit(op \in A /\ On(t) = o)
             /\ Local(new, o, A) = Bit(next \in A /\ On(t) = o)
  BY <1>1, LocalOne
<1> HIDE DEF new
<1>5. todo' = [todo EXCEPT ![t] = new]
  BY <1>1, <1>2 DEF new, Rest
<1>6. todo' \in [Threads -> Lists] /\ todo'[t] = new /\ \A s \in Threads : s # t => todo'[s] = todo[s]
  BY <1>1, <1>2, <1>5
<1>7. ASSUME NEW o, NEW A
      PROVE  /\ Queued(todo', o, A) \in Nat /\ Queued(todo, o, A) \in Nat
             /\ Queued(todo', o, A) + Bit(op \in A /\ On(t) = o)
                  = Queued(todo, o, A) + Bit(next \in A /\ On(t) = o)
  <2>1. /\ Queued(todo, o, A) \in Nat /\ Queued(todo', o, A) \in Nat
        /\ Queued(todo', o, A) + Local(todo[t], o, A) = Queued(todo, o, A) + Local(new, o, A)
    BY <1>6, TodoCount
  <2> QED BY <1>4, <2>1
<1>8. ASSUME NEW o, NEW A
      PROVE  /\ Queued(todo', o, A) \in Nat /\ Queued(todo, o, A) \in Nat
             /\ Queued(todo', o, A) + Bit({op} \cap A # {} /\ On(t) = o)
                  = Queued(todo, o, A) + Bit({next} \cap A # {} /\ On(t) = o)
  <2>1. Bit({op} \cap A # {} /\ On(t) = o) = Bit(op \in A /\ On(t) = o)
        /\ Bit({next} \cap A # {} /\ On(t) = o) = Bit(next \in A /\ On(t) = o)
    BY DEF Bit
  <2> QED BY <1>7, <2>1
<1> QED BY <1>3, <1>6, <1>8 DEF ListStep

\* What is left to show of an access.
LEMMA AccessOp ==
  ASSUME IInv, NEW t \in Threads, NEW gone, NEW come, ListStep(t, gone, come),
         UNCHANGED <<kind, ptr, raw, addr>>,
         rc' \in [Objects -> Nat], freed' \subseteq Objects, jobs' \in [Objects -> Nat],
         \A o \in Objects : ObjectInv(o)'
  PROVE  IInv'
<1>1. todo' \in [Threads -> Lists] /\ \A s \in Threads : Len(todo'[s]) <= 3
  BY ListLength DEF ListStep
<1>2. ShapeOK' /\ AddressOK'
  BY <1>1 DEF IInv, ShapeOK, TypeOK, AddressOK
<1>3. ASSUME NEW s \in Threads, NEW o \in Objects PROVE Backed(s, o)'
  <2>1. CASE s = t
    BY <2>1 DEF Backed, ListStep
  <2>2. CASE s # t
    <3>1. Leaked(o)' = Leaked(o) /\ todo'[s] = todo[s]
      BY <2>2 DEF Leaked, ListStep
    <3> QED BY <2>2, <3>1, BackedKept
  <2> QED BY <2>1, <2>2
<1> QED BY <1>2, <1>3 DEF IInv

LEMMA RefStep ==
  ASSUME IInv, NEW t \in Threads, Ref(t)
  PROVE  IInv'
<1>1. /\ Doing(t, "ref") /\ rc' = [rc EXCEPT ![On(t)] = @ + 1]
      /\ Rest(t, <<>>) /\ UNCHANGED <<kind, freed, ptr, raw, addr, jobs>>
  BY DEF Ref, Continue, Rest
<1>2. On(t) \in Objects /\ rc \in [Objects -> Nat] /\ jobs \in [Objects -> Nat]
      /\ freed \subseteq Objects
  BY <1>1, HeadForms DEF IInv, ShapeOK, TypeOK
<1>3. ListStep(t, {"ref"}, {})
  BY <1>1, HeadRemoved
<1>4. rc' \in [Objects -> Nat] /\ rc'[On(t)] = rc[On(t)] + 1
      /\ \A o \in Objects : o # On(t) => rc'[o] = rc[o]
  BY <1>1, <1>2
<1>5. ASSUME NEW o \in Objects PROVE ObjectInv(o)'
  <2>1. /\ Queued(todo', o, {"ref"}) + Bit(On(t) = o) = Queued(todo, o, {"ref"}) + 0
        /\ Queued(todo', o, {"unique", "sub"}) + 0 = Queued(todo, o, {"unique", "sub"})
        /\ Queued(todo', o, {"post"}) + 0 = Queued(todo, o, {"post"}) + 0
        /\ Queued(todo', o, {"delete"}) = Queued(todo, o, {"delete"})
    BY <1>3 DEF Bit, ListStep
  <2>2. rc'[o] \in Nat /\ rc'[o] + 0 = rc[o] + Bit(On(t) = o)
    BY <1>2, <1>4 DEF Bit
  <2>3. jobs'[o] \in Nat /\ jobs'[o] = jobs[o] + 0
    BY <1>1, <1>2
  <2>4. CountEffect(o, Bit(On(t) = o), 0, 0, 0)
    BY <1>1, <2>1, <2>2, <2>3 DEF CountEffect
  <2>5. Bit(On(t) = o) \in Nat /\ 0 \in Nat
    BY DEF Bit
  <2> QED BY <2>4, <2>5, CountStep
<1>6. UNCHANGED <<kind, ptr, raw, addr>> /\ freed' \subseteq Objects /\ jobs' \in [Objects -> Nat]
  BY <1>1, <1>2
<1> QED BY <1>3, <1>4, <1>5, <1>6, AccessOp

LEMMA PostStep ==
  ASSUME IInv, NEW t \in Threads, Post(t)
  PROVE  IInv'
<1>1. /\ Doing(t, "post") /\ jobs' = [jobs EXCEPT ![On(t)] = @ + 1]
      /\ Rest(t, <<>>) /\ UNCHANGED <<kind, rc, freed, ptr, raw, addr>>
  <2>1. <<>> \o Tail(todo[t]) = Tail(todo[t])
    BY HeadForms DEF Post
  <2> QED BY <2>1 DEF Post, Rest, counters
<1>2. On(t) \in Objects /\ rc \in [Objects -> Nat] /\ jobs \in [Objects -> Nat]
      /\ freed \subseteq Objects
  BY <1>1, HeadForms DEF IInv, ShapeOK, TypeOK
<1>3. ListStep(t, {"post"}, {})
  BY <1>1, HeadRemoved
<1>4. jobs' \in [Objects -> Nat] /\ jobs'[On(t)] = jobs[On(t)] + 1
      /\ \A o \in Objects : o # On(t) => jobs'[o] = jobs[o]
  BY <1>1, <1>2
<1>5. ASSUME NEW o \in Objects PROVE ObjectInv(o)'
  <2>1. /\ Queued(todo', o, {"ref"}) + 0 = Queued(todo, o, {"ref"}) + 0
        /\ Queued(todo', o, {"unique", "sub"}) + 0 = Queued(todo, o, {"unique", "sub"})
        /\ Queued(todo', o, {"post"}) + Bit(On(t) = o) = Queued(todo, o, {"post"}) + 0
        /\ Queued(todo', o, {"delete"}) = Queued(todo, o, {"delete"})
    BY <1>3 DEF Bit, ListStep
  <2>2. rc'[o] \in Nat /\ rc'[o] + 0 = rc[o] + 0
    BY <1>1, <1>2
  <2>3. jobs'[o] \in Nat /\ jobs'[o] = jobs[o] + Bit(On(t) = o)
    BY <1>2, <1>4 DEF Bit
  <2>4. CountEffect(o, 0, 0, Bit(On(t) = o), 0)
    BY <1>1, <2>1, <2>2, <2>3 DEF CountEffect
  <2>5. Bit(On(t) = o) \in Nat /\ 0 \in Nat
    BY DEF Bit
  <2> QED BY <2>4, <2>5, CountStep
<1>6. UNCHANGED <<kind, ptr, raw, addr>> /\ freed' \subseteq Objects /\ rc' \in [Objects -> Nat]
  BY <1>1, <1>2
<1> QED BY <1>3, <1>4, <1>5, <1>6, AccessOp

\* The thread that finds the last reference is alone with the object.
LEMMA DecideDelete ==
  ASSUME IInv, NEW t \in Threads, NEW op \in {"unique", "sub"}, Doing(t, op), rc[On(t)] = 1,
         Rest(t, << Entry("delete", On(t)) >>),
         rc' \in [Objects -> Nat], \A o \in Objects : o # On(t) => rc'[o] = rc[o],
         UNCHANGED <<kind, freed, ptr, raw, addr, jobs>>
  PROVE  IInv'
<1>1. On(t) \in Objects /\ todo[t] = << Entry(op, On(t)) >>
  BY HeadForms
<1>2. rc \in [Objects -> Nat] /\ jobs \in [Objects -> Nat] /\ freed \subseteq Objects
  BY DEF IInv, ShapeOK, TypeOK
<1>3. Matches(todo[t], 1, On(t), {"unique", "sub"})
  BY <1>1 DEF Matches, Entry
<1>4. /\ kind[On(t)] = "counted" /\ Queued(todo, On(t), {"unique", "sub"}) = 1
      /\ Slots(ptr, On(t)) = 0 /\ Raws(raw, On(t)) = 0 /\ jobs[On(t)] = 0
      /\ Queued(todo, On(t), {"ref"}) = 0 /\ Queued(todo, On(t), {"post"}) = 0
      /\ Queued(todo, On(t), {"delete"}) = 0 /\ On(t) \notin freed
  BY <1>1, <1>3, LastRelease
<1>5. ListStep(t, {op}, {"delete"})
  <2>1. op # "ref" /\ "delete" \in {"sub", "delete"}
    OBVIOUS
  <2> QED BY <2>1, HeadReplaced
<1>6. ASSUME NEW o \in Objects PROVE ObjectInv(o)'
  <2>1. CASE o # On(t)
    <3>1. /\ Queued(todo', o, {"ref"}) + 0 = Queued(todo, o, {"ref"}) + 0
          /\ Queued(todo', o, {"unique", "sub"}) + 0 = Queued(todo, o, {"unique", "sub"})
          /\ Queued(todo', o, {"post"}) + 0 = Queued(todo, o, {"post"}) + 0
          /\ Queued(todo', o, {"delete"}) = Queued(todo, o, {"delete"})
      BY <1>5, <2>1 DEF Bit, ListStep
    <3>2. rc'[o] \in Nat /\ rc'[o] + 0 = rc[o] + 0 /\ jobs'[o] \in Nat /\ jobs'[o] = jobs[o] + 0
      BY <1>2, <2>1
    <3>3. CountEffect(o, 0, 0, 0, 0)
      BY <3>1, <3>2 DEF CountEffect
    <3> QED BY <3>3, CountStep, 0 \in Nat
  <2>2. CASE o = On(t)
    <3>1. /\ Queued(todo', o, {"ref"}) = 0 /\ Queued(todo', o, {"unique", "sub"}) = 0
          /\ Queued(todo', o, {"post"}) = 0 /\ Queued(todo', o, {"delete"}) = 1
      BY <1>4, <1>5, <2>2 DEF Bit, ListStep
    <3>2. Unheld(o)' /\ kind'[o] = "counted" /\ o \notin freed'
      BY <1>4, <2>2, <3>1 DEF Unheld
    <3> QED BY <3>1, <3>2 DEF ObjectInv, Counted, Unborn, Dying, Posting
  <2> QED BY <2>1, <2>2
<1>7. freed' \subseteq Objects /\ jobs' \in [Objects -> Nat]
  BY <1>2
<1> QED BY <1>5, <1>6, <1>7, AccessOp

\* unique().
LEMMA UniqueStep ==
  ASSUME IInv, NEW t \in Threads, Unique(t)
  PROVE  IInv'
<1>1. /\ Doing(t, "unique") /\ UNCHANGED <<kind, rc, freed, ptr, raw, addr, jobs>>
      /\ Rest(t, << Entry(IF rc[On(t)] = 1 THEN "delete" ELSE "sub", On(t)) >>)
  BY DEF Unique, Continue, Rest, Entry, counters
<1>2. On(t) \in Objects /\ rc \in [Objects -> Nat] /\ jobs \in [Objects -> Nat]
      /\ freed \subseteq Objects
  BY <1>1, HeadForms DEF IInv, ShapeOK, TypeOK
<1>3. CASE rc[On(t)] = 1
  <2>1. Rest(t, << Entry("delete", On(t)) >>) /\ "unique" \in {"unique", "sub"}
    BY <1>1, <1>3
  <2>2. rc' \in [Objects -> Nat] /\ \A o \in Objects : o # On(t) => rc'[o] = rc[o]
    BY <1>1, <1>2
  <2> QED BY <1>1, <1>3, <2>1, <2>2, DecideDelete
<1>4. CASE rc[On(t)] # 1
  <2>1. Rest(t, << Entry("sub", On(t)) >>) /\ "unique" # "ref" /\ "sub" \in {"sub", "delete"}
    BY <1>1, <1>4
  <2>2. ListStep(t, {"unique"}, {"sub"})
    BY <1>1, <2>1, HeadReplaced
  <2>3. ASSUME NEW o \in Objects PROVE ObjectInv(o)'
    <3>1. /\ Queued(todo', o, {"ref"}) + 0 = Queued(todo, o, {"ref"}) + 0
          /\ Queued(todo', o, {"unique", "sub"}) + 0 = Queued(todo, o, {"unique", "sub"})
          /\ Queued(todo', o, {"post"}) + 0 = Queued(todo, o, {"post"}) + 0
          /\ Queued(todo', o, {"delete"}) = Queued(todo, o, {"delete"})
      BY <2>2 DEF Bit, ListStep
    <3>2. rc'[o] \in Nat /\ rc'[o] + 0 = rc[o] + 0 /\ jobs'[o] \in Nat /\ jobs'[o] = jobs[o] + 0
      BY <1>1, <1>2
    <3>3. CountEffect(o, 0, 0, 0, 0)
      BY <1>1, <3>1, <3>2 DEF CountEffect
    <3> QED BY <3>3, CountStep, 0 \in Nat
  <2>4. UNCHANGED <<kind, ptr, raw, addr>> /\ rc' \in [Objects -> Nat]
        /\ freed' \subseteq Objects /\ jobs' \in [Objects -> Nat]
    BY <1>1, <1>2
  <2> QED BY <2>2, <2>3, <2>4, AccessOp
<1> QED BY <1>3, <1>4

\* The fetch_sub.
LEMMA SubStep ==
  ASSUME IInv, NEW t \in Threads, Sub(t)
  PROVE  IInv'
<1>1. /\ Doing(t, "sub") /\ rc' = [rc EXCEPT ![On(t)] = @ - 1]
      /\ Rest(t, IF rc[On(t)] = 1 THEN << Entry("delete", On(t)) >> ELSE <<>>)
      /\ UNCHANGED <<kind, freed, ptr, raw, addr, jobs>>
  BY DEF Sub, Continue, Rest, Entry
<1>2. On(t) \in Objects /\ rc \in [Objects -> Nat] /\ jobs \in [Objects -> Nat]
      /\ freed \subseteq Objects
  BY <1>1, HeadForms DEF IInv, ShapeOK, TypeOK
<1>3. Matches(todo[t], 1, On(t), {"unique", "sub"})
  <2>1. todo[t] = << Entry("sub", On(t)) >>
    BY <1>1, HeadForms
  <2> QED BY <2>1 DEF Matches, Entry
<1>4. rc[On(t)] >= 1
  <2>1. rc[On(t)] >= 1 + Leaked(On(t))
    BY <1>2, <1>3, LastRelease
  <2> QED BY <1>2, <2>1 DEF Leaked
<1>5. rc' \in [Objects -> Nat] /\ rc'[On(t)] = rc[On(t)] - 1
      /\ \A o \in Objects : o # On(t) => rc'[o] = rc[o]
  BY <1>1, <1>2, <1>4
<1>6. CASE rc[On(t)] = 1
  <2>1. Rest(t, << Entry("delete", On(t)) >>) /\ "sub" \in {"unique", "sub"}
    BY <1>1, <1>6
  <2>2. UNCHANGED <<kind, freed, ptr, raw, addr, jobs>>
    BY <1>1
  <2> QED BY <1>1, <1>5, <1>6, <2>1, <2>2, DecideDelete
<1>7. CASE rc[On(t)] # 1
  <2>1. Rest(t, <<>>)
    BY <1>1, <1>7
  <2>2. ListStep(t, {"sub"}, {})
    BY <1>1, <2>1, HeadRemoved
  <2>3. ASSUME NEW o \in Objects PROVE ObjectInv(o)'
    <3>1. /\ Queued(todo', o, {"ref"}) + 0 = Queued(todo, o, {"ref"}) + 0
          /\ Queued(todo', o, {"unique", "sub"}) + Bit(On(t) = o)
               = Queued(todo, o, {"unique", "sub"})
          /\ Queued(todo', o, {"post"}) + 0 = Queued(todo, o, {"post"}) + 0
          /\ Queued(todo', o, {"delete"}) = Queued(todo, o, {"delete"})
      BY <2>2 DEF Bit, ListStep
    <3>2. rc'[o] \in Nat /\ rc'[o] + Bit(On(t) = o) = rc[o] + 0
      BY <1>2, <1>5 DEF Bit
    <3>3. jobs'[o] \in Nat /\ jobs'[o] = jobs[o] + 0
      BY <1>1, <1>2
    <3>4. CountEffect(o, 0, Bit(On(t) = o), 0, 0)
      BY <1>1, <3>1, <3>2, <3>3 DEF CountEffect
    <3>5. Bit(On(t) = o) \in Nat /\ 0 \in Nat
      BY DEF Bit
    <3> QED BY <3>4, <3>5, CountStep
  <2>4. UNCHANGED <<kind, ptr, raw, addr>> /\ freed' \subseteq Objects /\ jobs' \in [Objects -> Nat]
    BY <1>1, <1>2
  <2> QED BY <1>5, <2>2, <2>3, <2>4, AccessOp
<1> QED BY <1>6, <1>7

LEMMA DeleteStep ==
  ASSUME IInv, NEW t \in Threads, Delete(t)
  PROVE  IInv'
<1>1. /\ Doing(t, "delete") /\ freed' = freed \cup {On(t)} /\ Rest(t, <<>>)
      /\ UNCHANGED <<kind, rc, ptr, raw, addr, jobs>>
  BY DEF Delete, Continue, Rest
<1>2. On(t) \in Objects /\ rc \in [Objects -> Nat] /\ jobs \in [Objects -> Nat]
      /\ freed \subseteq Objects
  BY <1>1, HeadForms DEF IInv, ShapeOK, TypeOK
<1>3. ListStep(t, {"delete"}, {})
  BY <1>1, HeadRemoved
<1>4. ASSUME NEW o \in Objects PROVE ObjectInv(o)'
  <2>1. /\ Queued(todo', o, {"ref"}) = Queued(todo, o, {"ref"})
        /\ Queued(todo', o, {"unique", "sub"}) = Queued(todo, o, {"unique", "sub"})
        /\ Queued(todo', o, {"post"}) = Queued(todo, o, {"post"})
        /\ Queued(todo', o, {"delete"}) + Bit(On(t) = o) = Queued(todo, o, {"delete"})
        /\ Queued(todo', o, {"delete"}) \in Nat /\ Queued(todo, o, {"delete"}) \in Nat
        /\ Queued(todo', o, {"ref"}) \in Nat /\ Queued(todo', o, {"unique", "sub"}) \in Nat
        /\ Queued(todo', o, {"post"}) \in Nat
    BY <1>3 DEF Bit, ListStep
  <2>2. CASE o # On(t)
    <3>1. (o \in freed' <=> o \in freed) /\ Queued(todo', o, {"delete"}) = Queued(todo, o, {"delete"})
      BY <1>1, <2>1, <2>2 DEF Bit
    <3>2. rc'[o] \in Nat /\ rc'[o] + 0 = rc[o] + 0 /\ jobs'[o] \in Nat /\ jobs'[o] = jobs[o] + 0
      BY <1>1, <1>2
    <3>3. CountEffect(o, 0, 0, 0, 0)
      BY <1>1, <2>1, <3>1, <3>2 DEF CountEffect
    <3> QED BY <3>3, CountStep, 0 \in Nat
  <2>3. CASE o = On(t)
    <3>1. Queued(todo, o, {"delete"}) > 0
      BY <2>1, <2>3 DEF Bit
    <3>2. kind[o] = "counted" /\ Unheld(o) /\ Queued(todo, o, {"delete"}) = 1
      BY <3>1 DEF IInv, ObjectInv, Dying
    <3>3. Queued(todo', o, {"delete"}) = 0
      BY <2>1, <2>3, <3>2 DEF Bit
    <3>4. Unheld(o)' /\ kind'[o] = "counted" /\ o \in freed'
      BY <1>1, <2>1, <2>3, <3>2 DEF Unheld
    <3> QED BY <3>3, <3>4 DEF ObjectInv, Counted, Unborn, Dying, Posting, Unheld
  <2> QED BY <2>2, <2>3
<1>5. UNCHANGED <<kind, ptr, raw, addr>> /\ rc' \in [Objects -> Nat]
      /\ freed' \subseteq Objects /\ jobs' \in [Objects -> Nat]
  BY <1>1, <1>2
<1> QED BY <1>3, <1>4, <1>5, AccessOp

\* enqueue_base of an actor.
LEMMA ScheduleStep ==
  ASSUME IInv, NEW t \in Threads, Schedule(t)
  PROVE  IInv'
<1> DEFINE a   == addr[t]
           new == << Entry("ref", a), Entry("post", a) >>
<1>1. /\ Idle(t) /\ a \in Objects /\ kind[a] = "actor"
      /\ UNCHANGED <<kind, rc, freed, ptr, raw, addr, jobs>>
  BY DEF Schedule, IInv, ShapeOK, TypeOK, counters
<1>2. todo' = [todo EXCEPT ![t] = new]
  <2>1. RefOps(a) = << Entry("ref", a) >>
    BY <1>1, NullAssumption DEF RefOps, Entry
  <2>2. RefOps(a) \o << Entry("post", a) >> = new
    BY <2>1, Pair
  <2>3. todo' = [todo EXCEPT ![t] = RefOps(a) \o << Entry("post", a) >>]
    BY DEF Schedule, Entry
  <2> QED BY <2>2, <2>3
<1>3. new \in Lists
  BY <1>1 DEF Lists
<1>4. ASSUME NEW o, NEW A
      PROVE  Local(new, o, A) = Bit("ref" \in A /\ a = o) + Bit("post" \in A /\ a = o)
  BY LocalTwo
<1>5. ~Matches(<<>>, 1, a, {"ref"}) /\ Matches(new, 2, a, {"post"})
      /\ \A o : Matches(new, 1, o, {"ref"}) => o = a
  BY DEF Matches, Entry
<1> HIDE DEF a, new
<1>6. /\ todo' \in [Threads -> Lists] /\ todo'[t] = new
      /\ \A s \in Threads : s # t => todo'[s] = todo[s]
      /\ \A s \in Threads : Len(todo'[s]) <= 3
  BY <1>2, <1>3, TodoStep DEF IInv, ShapeOK
<1>7. ASSUME NEW o \in Objects PROVE ObjectInv(o)'
  <2>1. ASSUME NEW A
        PROVE  /\ Queued(todo, o, A) \in Nat
               /\ Queued(todo', o, A) = Queued(todo, o, A)
                    + (Bit("ref" \in A /\ a = o) + Bit("post" \in A /\ a = o))
    BY <1>1, <1>4, <1>6, IdleCount
  <2>2. /\ Queued(todo', o, {"ref"}) + 0 = Queued(todo, o, {"ref"}) + Bit(a = o)
        /\ Queued(todo', o, {"unique", "sub"}) + 0 = Queued(todo, o, {"unique", "sub"})
        /\ Queued(todo', o, {"post"}) + 0 = Queued(todo, o, {"post"}) + Bit(a = o)
        /\ Queued(todo', o, {"delete"}) = Queued(todo, o, {"delete"})
    BY <2>1 DEF Bit
  <2>3. rc'[o] \in Nat /\ rc'[o] + 0 = rc[o] + 0 /\ jobs'[o] \in Nat /\ jobs'[o] = jobs[o] + 0
    BY <1>1 DEF IInv, ShapeOK, TypeOK
  <2>4. Bit(a = o) \in Nat /\ 0 \in Nat /\ (Bit(a = o) # 0 => kind[o] = "actor")
    BY <1>1 DEF Bit
  <2>5. CountEffect(o, 0, 0, 0, Bit(a = o))
    BY <1>1, <2>2, <2>3, <2>4 DEF CountEffect
  <2> QED BY <2>4, <2>5, CountStep
<1>8. ShapeOK' /\ AddressOK'
  BY <1>1, <1>6 DEF IInv, ShapeOK, TypeOK, AddressOK
<1>9. ASSUME NEW s \in Threads, NEW o \in Objects PROVE Backed(s, o)'
  <2>1. Leaked(o)' = Leaked(o) /\ Leaked(a) = 1
    BY <1>1 DEF Leaked
  <2>2. CASE s # t
    BY <1>1, <1>6, <2>1, <2>2, BackedKept
  <2>3. CASE s = t
    BY <1>5, <1>6, <2>1, <2>3 DEF Backed
  <2> QED BY <2>2, <2>3
<1> QED BY <1>7, <1>8, <1>9 DEF IInv

\* A new object is born with one reference, which its first handle takes or
\* which leaks.
LEMMA ConstructStep ==
  ASSUME IInv, NEW t \in Threads, NEW v \in Vars, NEW n \in Objects,
         NEW k \in {"counted", "supervisor", "actor"}, NEW b, NEW x \in {n, Null},
         x = Null <=> k = "counted",
         Construct(t, v, n, k, b, RefOps(x))
  PROVE  IInv'
<1>1. /\ Idle(t) /\ kind[n] = "none" /\ ptr[t][v] = Null
      /\ kind' = [kind EXCEPT ![n] = k] /\ rc' = [rc EXCEPT ![n] = 1]
      /\ ptr' = [ptr EXCEPT ![t][v] = n] /\ todo' = [todo EXCEPT ![t] = RefOps(x)]
      /\ UNCHANGED <<freed, raw, addr, jobs>>
  BY DEF Construct
<1>2. /\ kind \in [Objects -> {"none", "counted", "supervisor", "actor"}]
      /\ rc \in [Objects -> Nat] /\ ptr \in [Threads -> [Vars -> Objects \cup {Null}]]
      /\ raw \in [Threads -> Objects \cup {Null}] /\ jobs \in [Objects -> Nat]
      /\ addr \in [Threads -> Objects \cup {Null}] /\ freed \subseteq Objects
      /\ todo \in [Threads -> Lists]
  BY DEF IInv, ShapeOK, TypeOK
<1>3. /\ kind' \in [Objects -> {"none", "counted", "supervisor", "actor"}] /\ kind'[n] = k
      /\ rc' \in [Objects -> Nat] /\ rc'[n] = 1
      /\ \A o \in Objects : o # n => kind'[o] = kind[o] /\ rc'[o] = rc[o]
  BY <1>1, <1>2
<1>4. /\ ptr' \in [Threads -> [Vars -> Objects \cup {Null}]] /\ ptr'[t][v] = n
      /\ \A s \in Threads, u \in Vars : s # t \/ u # v => ptr'[s][u] = ptr[s][u]
  BY <1>1, <1>2
<1>5. /\ todo' \in [Threads -> Lists] /\ todo'[t] = RefOps(x) \o ReleaseOps(Null)
      /\ \A s \in Threads : s # t => todo'[s] = todo[s]
      /\ \A s \in Threads : Len(todo'[s]) <= 3
      /\ \A o \in Objects :
           /\ Queued(todo', o, {"ref"}) = Queued(todo, o, {"ref"}) + Bit(x = o)
           /\ Queued(todo', o, {"unique", "sub"})
                = Queued(todo, o, {"unique", "sub"}) + Bit(Null = o)
           /\ Queued(todo', o, {"post"}) = Queued(todo, o, {"post"})
           /\ Queued(todo', o, {"delete"}) = Queued(todo, o, {"delete"})
  <2>1. x \in Objects \cup {Null} /\ Null \in Objects \cup {Null}
    OBVIOUS
  <2>2. RefOps(x) \o ReleaseOps(Null) = RefOps(x)
    BY <2>1, OpsForms
  <2>3. todo' = [todo EXCEPT ![t] = RefOps(x) \o ReleaseOps(Null)]
    BY <1>1, <2>2
  <2>4. Idle(t) /\ todo \in [Threads -> Lists]
    BY <1>1, <1>2
  <2> QED BY <2>1, <2>3, <2>4, IdleCounts, Zenon
<1>6. UNCHANGED <<freed, raw, addr, jobs>> /\ kind[n] = "none" /\ ptr[t][v] = Null
  BY <1>1
<1>7. ShapeOK'
  BY <1>2, <1>3, <1>4, <1>5, <1>6 DEF ShapeOK, TypeOK
<1>8. AddressOK'
  BY <1>2, <1>3, <1>6 DEF IInv, AddressOK
<1>9. ASSUME NEW o \in Objects
      PROVE  /\ Slots(ptr, o) \in Nat
             /\ Slots(ptr', o) = Slots(ptr, o) + Bit(n = o)
  <2>1. /\ Slots(ptr, o) \in Nat /\ Slots(ptr', o) \in Nat
        /\ Slots(ptr', o) + Bit(ptr[t][v] = o) = Slots(ptr, o) + Bit(ptr'[t][v] = o)
    BY <1>4, SlotChange
  <2>2. Bit(ptr[t][v] = o) = 0 /\ Bit(ptr'[t][v] = o) = Bit(n = o)
    BY <1>4, <1>6, NullAssumption DEF Bit
  <2> QED BY <2>1, <2>2 DEF Bit
<1>10. ObjectInv(n)'
  <2>1. Unheld(n) /\ Queued(todo, n, {"delete"}) = 0 /\ n \notin freed
    BY <1>6 DEF IInv, ObjectInv, Unborn
  <2>2. /\ Slots(ptr', n) = 1 /\ Raws(raw', n) = 0 /\ jobs'[n] = 0
        /\ Queued(todo', n, {"ref"}) = Bit(x = n) /\ Queued(todo', n, {"unique", "sub"}) = 0
        /\ Queued(todo', n, {"post"}) = 0 /\ Queued(todo', n, {"delete"}) = 0
    BY <1>5, <1>6, <1>9, <2>1, NullAssumption DEF Unheld, Bit
  <2>3. Leaked(n)' = Bit(x = n)
    BY <1>3, NullAssumption DEF Leaked, Bit
  <2>4. Counted(n)'
    BY <1>3, <2>2, <2>3 DEF Counted, Bit
  <2>5. kind'[n] # "none" /\ n \notin freed'
    BY <1>3, <1>6, <2>1
  <2> QED BY <2>2, <2>4, <2>5 DEF ObjectInv, Unborn, Dying, Posting
<1>11. ASSUME NEW o \in Objects, o # n PROVE ObjectInv(o)'
  <2>1. kind'[o] = kind[o] /\ freed' = freed /\ rc'[o] = rc[o] /\ jobs'[o] \in Nat
    BY <1>2, <1>3, <1>6, <1>11
  <2>2. Null # o /\ Bit(Null = o) = 0 /\ Bit(n = o) = 0 /\ Bit(x = o) = 0
    BY <1>11, NullAssumption DEF Bit
  <2>3. /\ Queued(todo', o, {"ref"}) = Queued(todo, o, {"ref"}) + Bit(Null = o)
        /\ Queued(todo', o, {"unique", "sub"}) = Queued(todo, o, {"unique", "sub"}) + Bit(Null = o)
        /\ Queued(todo', o, {"post"}) = Queued(todo, o, {"post"})
        /\ Queued(todo', o, {"delete"}) = Queued(todo, o, {"delete"})
    BY <1>5, <2>2
  <2>4. Slots(ptr', o) = Slots(ptr, o)
    BY <1>9, <2>2
  <2>5. Held(o)' + Bit(Null = o) = Held(o) + Bit(Null = o)
    BY <1>6, <2>4 DEF Held
  <2>6. Null = o \/ Null = o => Held(o) > 0
    BY <2>2
  <2> QED BY <2>1, <2>3, <2>5, <2>6, HandleStep, Zenon
<1>12. ASSUME NEW s \in Threads, NEW o \in Objects PROVE Backed(s, o)'
  <2>1. Leaked(o) = 1 => Leaked(o)' = 1
    BY <1>3, <1>6 DEF Leaked
  <2>2. CASE s # t
    <3>1. todo'[s] = todo[s] /\ \A u \in Vars : ptr[s][u] = o => ptr'[s][u] = o
      BY <1>4, <1>5, <2>2
    <3> QED BY <2>1, <3>1, BackedKept
  <2>3. CASE s = t
    <3>1. x = o => (\E u \in Vars : ptr'[t][u] = o) /\ Leaked(o)' = 1
      BY <1>3, <1>4, NullAssumption DEF Leaked
    <3>2. todo'[t] = RefOps(x) \o ReleaseOps(Null) /\ x \in Objects \cup {Null}
      BY <1>5
    <3> QED BY <2>3, <3>1, <3>2, BackedNew
  <2> QED BY <2>2, <2>3
<1> QED BY <1>7, <1>8, <1>10, <1>11, <1>12 DEF IInv

-----------------------------------------------------------------------------
(* The theorems                                                             *)

\* Nothing exists at first.
LEMMA IInvInit == Init => IInv
<1> SUFFICES ASSUME Init PROVE IInv
  OBVIOUS
<1>1. \A t \in Threads : todo[t] = <<>> /\ raw[t] = Null /\ addr[t] = Null
                         /\ \A v \in Vars : ptr[t][v] = Null
  BY DEF Init
<1>2. <<>> \in Lists /\ Len(<<>>) <= 3
  BY DEF Lists
<1>3. ShapeOK
  <2>1. TypeOK
    BY <1>1, <1>2 DEF Init, TypeOK
  <2> QED BY <1>2, <2>1 DEF Init, ShapeOK
<1>4. \A i, o, A : ~Matches(<<>>, i, o, A) \/ i \notin 1 .. 3
  BY DEF Matches
<1>5. ASSUME NEW o, NEW A PROVE Queued(todo, o, A) = 0
  BY <1>1, <1>4, PendingFacts
<1>6. ASSUME NEW o \in Objects PROVE Slots(ptr, o) = 0 /\ Raws(raw, o) = 0
  <2>1. HandlesOf(o) = {} /\ RawsOf(o) = {}
    BY <1>1, NullAssumption DEF HandlesOf, RawsOf
  <2> QED BY <2>1, HandleFacts, FS_EmptySet
<1>7. ASSUME NEW o \in Objects PROVE ObjectInv(o)
  <2>1. kind[o] = "none" /\ jobs[o] = 0 /\ o \notin freed
    BY DEF Init
  <2>2. Unheld(o)
    BY <1>5, <1>6, <2>1 DEF Unheld
  <2> QED BY <1>5, <2>1, <2>2 DEF ObjectInv, Counted, Unborn, Dying, Posting
<1>8. ASSUME NEW t \in Threads, NEW o \in Objects PROVE Backed(t, o)
  BY <1>1, <1>4, 1 \in 1 .. 3 DEF Backed
<1>9. AddressOK
  BY <1>1 DEF AddressOK
<1> QED BY <1>3, <1>7, <1>8, <1>9 DEF IInv

\* The three constructors.
LEMMA BirthStep ==
  ASSUME IInv, NEW t \in Threads, NEW v \in Vars, NEW o \in Objects,
         MakeCounted(t, v, o) \/ SpawnSupervisor(t, v, o) \/ SpawnActor(t, v, o)
  PROVE  IInv'
<1>1. CASE MakeCounted(t, v, o)
  <2>1. PICK base \in Heap : Construct(t, v, o, "counted", HeapAllocate(base), <<>>)
    BY <1>1 DEF MakeCounted
  <2>2. RefOps(Null) = <<>>
    BY DEF RefOps
  <2>3. Construct(t, v, o, "counted", HeapAllocate(base), RefOps(Null))
    BY <2>1, <2>2
  <2> QED BY <2>3, ConstructStep
<1>2. CASE SpawnSupervisor(t, v, o)
  <2>1. PICK base \in Heap : Construct(t, v, o, "supervisor", HeapAllocate(base), RefOps(o))
    BY <1>2 DEF SpawnSupervisor
  <2>2. o # Null
    BY NullAssumption
  <2> QED BY <2>1, <2>2, ConstructStep
<1>3. CASE SpawnActor(t, v, o)
  <2>1. PICK base \in Heap, alignment \in Alignments :
          Construct(t, v, o, "actor", AlignedAllocate(alignment, base), RefOps(o))
    BY <1>3 DEF SpawnActor
  <2>2. o # Null
    BY NullAssumption
  <2> QED BY <2>1, <2>2, ConstructStep
<1> QED BY <1>1, <1>2, <1>3

\* Every step keeps the invariant.
LEMMA IInvNext == IInv /\ [Next]_vars => IInv'
<1> SUFFICES ASSUME IInv, [Next]_vars PROVE IInv'
  OBVIOUS
<1>1. CASE UNCHANGED vars
  <2>1. UNCHANGED <<kind, rc, freed, ptr, raw, addr, jobs, todo>>
    BY <1>1 DEF vars, counters
  <2>2. ASSUME NEW o \in Objects PROVE ObjectInv(o)'
    BY <2>1, ObjectKept
  <2>3. ASSUME NEW s \in Threads, NEW o \in Objects PROVE Backed(s, o)'
    BY <2>1, BackedKept DEF Leaked
  <2>4. ShapeOK' /\ AddressOK'
    BY <2>1 DEF IInv, ShapeOK, TypeOK, AddressOK
  <2> QED BY <2>2, <2>3, <2>4 DEF IInv
<1>2. ASSUME NEW t \in Threads, Access(t) PROVE IInv'
  BY <1>2, RefStep, UniqueStep, SubStep, DeleteStep, PostStep DEF Access
<1>3. ASSUME NEW t \in Threads, Handle(t) PROVE IInv'
  <2>1. ASSUME NEW v \in Vars, NEW o \in Objects,
               MakeCounted(t, v, o) \/ SpawnSupervisor(t, v, o) \/ SpawnActor(t, v, o)
        PROVE  IInv'
    BY <2>1, BirthStep
  <2>2. ASSUME NEW v \in Vars, NEW w \in Vars, Copy(t, v, w) \/ Move(t, v, w) \/ Swap(t, v, w)
        PROVE  IInv'
    BY <2>2, CopyStep, MoveStep, SwapStep
  <2>3. ASSUME NEW v \in Vars, Reset(t, v) \/ Detach(t, v) \/ Adopt(t, v) PROVE IInv'
    BY <2>3, ResetStep, DetachStep, AdoptStep
  <2>4. ASSUME NEW v \in Vars, NEW u \in Threads, Address(t, v, u) PROVE IInv'
    BY <2>4, AddressStep
  <2>5. ASSUME NEW v \in Vars, NEW u \in Threads, NEW w \in Vars, HandOver(t, v, u, w)
        PROVE  IInv'
    BY <2>5, HandOverStep
  <2>6. ASSUME Schedule(t) PROVE IInv'
    BY <2>6, ScheduleStep
  <2>7. ASSUME NEW o \in Objects, JobDone(t, o) PROVE IInv'
    BY <2>7, JobDoneStep
  <2> QED BY <1>3, <2>1, <2>2, <2>3, <2>4, <2>5, <2>6, <2>7 DEF Handle
<1> QED BY <1>1, <1>2, <1>3 DEF Next

\* The counts of the properties are those of the invariant.
LEMMA CountsAgree ==
  ASSUME NEW o, NEW A
  PROVE  /\ Pending(o, A) = Queued(todo, o, A) /\ Pending(o, A) \in Nat
         /\ Holders(o) = Slots(ptr, o) + Raws(raw, o) + jobs[o] + Queued(todo, o, {"post"})
<1>1. ASSUME NEW B PROVE Pending(o, B) = Queued(todo, o, B) /\ Pending(o, B) \in Nat
  BY PendingFacts DEF Pending
<1>2. Cardinality(HandlesOf(o)) = Slots(ptr, o) /\ Cardinality(RawsOf(o)) = Raws(raw, o)
  BY HandleFacts
<1> QED BY <1>1, <1>2 DEF Holders

LEMMA IInvCountExact == IInv => CountExact
<1> SUFFICES ASSUME IInv, NEW o \in Objects, kind[o] # "none", Pending(o, {"delete"}) = 0,
                    o \notin freed
             PROVE  rc[o] + Pending(o, {"ref"})
                      = Holders(o) + Leaked(o) + Pending(o, {"unique", "sub"})
  BY DEF CountExact
<1>1. Counted(o)
  BY DEF IInv, ObjectInv
<1> QED BY <1>1, CountsAgree DEF Counted

LEMMA IInvDeleteIsLast == IInv => DeleteIsLast
<1> SUFFICES ASSUME IInv, NEW o \in Objects, Pending(o, {"delete"}) > 0 \/ o \in freed
             PROVE  /\ Holders(o) = 0
                    /\ Pending(o, {"ref", "unique", "sub", "post"}) = 0
                    /\ Pending(o, {"delete"}) = IF o \in freed THEN 0 ELSE 1
  BY DEF DeleteIsLast
<1>1. Unheld(o) /\ Queued(todo, o, {"delete"}) = IF o \in freed THEN 0 ELSE 1
  BY CountsAgree DEF IInv, ObjectInv, Dying
<1>2. Holders(o) = 0
  BY <1>1, CountsAgree DEF Unheld
<1>3. Queued(todo, o, {"ref", "unique", "sub", "post"}) = 0
  <2>1. ASSUME NEW t \in Threads, NEW i \in 1 .. 3
        PROVE  ~Matches(todo[t], i, o, {"ref", "unique", "sub", "post"})
    <3>1. /\ ~Matches(todo[t], i, o, {"ref"}) /\ ~Matches(todo[t], i, o, {"unique", "sub"})
          /\ ~Matches(todo[t], i, o, {"post"})
      BY <1>1, PendingFacts DEF Unheld
    <3> QED BY <3>1 DEF Matches
  <2> QED BY <2>1, PendingFacts
<1> QED BY <1>1, <1>2, <1>3, CountsAgree

LEMMA IInvDeleteIsLegal == IInv /\ MemoryOK => DeleteIsLegal
<1> SUFFICES ASSUME IInv, MemoryOK PROVE DeleteIsLegal
  OBVIOUS
<1>1. ASSUME NEW o \in Objects, Pending(o, {"delete"}) > 0 \/ o \in freed
      PROVE  kind[o] = "counted"
  BY <1>1, CountsAgree DEF IInv, ObjectInv, Dying
<1>2. ASSUME NEW t \in Threads, addr[t] \in freed PROVE FALSE
  <2>1. addr[t] \in Objects
    BY <1>2 DEF IInv, ShapeOK, TypeOK
  <2>2. kind[addr[t]] = "counted"
    BY <1>1, <1>2, <2>1
  <2> QED BY <2>1, <2>2, NullAssumption DEF IInv, AddressOK
<1> QED BY <1>1, <1>2 DEF DeleteIsLegal, MemoryOK

\* No thread ever has more than three accesses to make, no counter and no
\* number of jobs goes below zero, whatever operations on handles the threads
\* interleave.
THEOREM TypeCorrect == Spec => []TypeOK
<1>1. IInv => TypeOK
  BY DEF IInv, ShapeOK
<1> QED BY <1>1, IInvInit, IInvNext, PTL DEF Spec

\* rc_ counts exactly the handles, the pointers got from release() and the
\* executor's jobs, up to the accesses of ref() and deref() that threads are
\* still to make, and to the reference that spawn leaks.
THEOREM CountIsExact == Spec => []CountExact
BY IInvInit, IInvNext, IInvCountExact, PTL DEF Spec

\* deref(): a thread that decides to delete, in unique() or after fetch_sub,
\* is the only one to decide and the last to know the object.
THEOREM DeleterIsAlone == Spec => []DeleteIsLast
BY IInvInit, IInvNext, IInvDeleteIsLast, PTL DEF Spec

\* `delete this' is only ever reached by an object of make_counted: never by
\* the target of an address_t, never by one in memory of the resource.
THEOREM OnlyLegalDeletes == Spec => []DeleteIsLegal
<1>1. Init => MemoryOK
  BY DEF Init, MemoryOK
<1>2. MemoryOK /\ [Next]_vars => MemoryOK'
  BY MemoryNext
<1> QED BY <1>1, <1>2, IInvInit, IInvNext, IInvDeleteIsLegal, PTL DEF Spec
=============================================================================
