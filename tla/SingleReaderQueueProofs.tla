----------------------- MODULE SingleReaderQueueProofs -----------------------
(***************************************************************************)
(* Theorems about SingleReaderQueue, for any writers, any finite number of *)
(* addresses and any number of messages.                                   *)
(***************************************************************************)
EXTENDS SingleReaderQueue, FiniteSetTheorems, SequenceTheorems, WellFoundedInduction, TLAPS

-----------------------------------------------------------------------------
(* Lists                                                                    *)

Distinct(ns) == \A i, j \in 1 .. Len(ns) : ns[i] = ns[j] => i = j

LEMMA InRange ==
  ASSUME NEW ns \in Seq(Nodes), NEW n
  PROVE  n \in Range(ns) <=> \E i \in 1 .. Len(ns) : ns[i] = n
BY RangeEquality

\* What the operations on lists do to lists without repetition.
LEMMA ConsList ==
  ASSUME NEW n \in Nodes, NEW ns \in Seq(Nodes), Distinct(ns), n \notin Range(ns)
  PROVE  /\ <<n>> \o ns \in Seq(Nodes) /\ Len(<<n>> \o ns) = Len(ns) + 1
         /\ (<<n>> \o ns)[1] = n
         /\ \A i \in 1 .. Len(ns) : (<<n>> \o ns)[i + 1] = ns[i]
         /\ Distinct(<<n>> \o ns)
         /\ Range(<<n>> \o ns) = {n} \cup Range(ns)
<1> DEFINE s == <<n>> \o ns
<1>1. <<n>> \in Seq(Nodes) /\ Len(<<n>>) = 1 /\ <<n>>[1] = n /\ Len(ns) \in Nat
  OBVIOUS
<1>2. /\ s \in Seq(Nodes) /\ Len(s) = Len(ns) + 1 /\ s[1] = n
      /\ \A i \in 1 .. Len(ns) : s[i + 1] = ns[i]
  BY <1>1, ConcatProperties
<1>3. \A i \in 1 .. Len(s) : i = 1 \/ \E k \in 1 .. Len(ns) : i = k + 1
  BY <1>1, <1>2
<1> HIDE DEF s
<1>4. \A m : /\ m \in Range(ns) <=> \E i \in 1 .. Len(ns) : ns[i] = m
             /\ m \in Range(s) <=> \E i \in 1 .. Len(s) : s[i] = m
  BY <1>2, InRange
<1>5. \A i \in 1 .. Len(ns) : ns[i] # n
  BY <1>4
<1>6. Distinct(s)
  <2> SUFFICES ASSUME NEW i \in 1 .. Len(s), NEW j \in 1 .. Len(s), s[i] = s[j] PROVE i = j
    BY DEF Distinct
  <2>1. CASE i = 1 \/ j = 1
    BY <1>2, <1>3, <1>5, <2>1
  <2>2. CASE i # 1 /\ j # 1
    <3>1. PICK k \in 1 .. Len(ns) : i = k + 1
      BY <1>3, <2>2
    <3>2. PICK l \in 1 .. Len(ns) : j = l + 1
      BY <1>3, <2>2
    <3>3. ns[k] = ns[l]
      BY <1>2, <3>1, <3>2
    <3> QED BY <3>1, <3>2, <3>3 DEF Distinct
  <2> QED BY <2>1, <2>2
<1>7. Range(s) = {n} \cup Range(ns)
  <2>1. 1 \in 1 .. Len(s) /\ \A k \in 1 .. Len(ns) : k + 1 \in 1 .. Len(s)
    BY <1>1, <1>2
  <2> QED BY <1>2, <1>3, <1>4, <2>1
<1> QED BY <1>2, <1>6, <1>7 DEF s

LEMMA ReverseList ==
  ASSUME NEW ns \in Seq(Nodes), Distinct(ns)
  PROVE  /\ Reverse(ns) \in Seq(Nodes) /\ Len(Reverse(ns)) = Len(ns)
         /\ \A i \in 1 .. Len(ns) : Reverse(ns)[i] = ns[Len(ns) - i + 1]
         /\ Distinct(Reverse(ns)) /\ Range(Reverse(ns)) = Range(ns)
<1> DEFINE s == Reverse(ns)
<1>1. /\ s \in Seq(Nodes) /\ Len(s) = Len(ns) /\ Len(ns) \in Nat
      /\ \A i \in 1 .. Len(ns) : s[i] = ns[Len(ns) - i + 1]
  BY DEF Reverse
<1>2. \A i \in 1 .. Len(ns) : /\ Len(ns) - i + 1 \in 1 .. Len(ns)
                              /\ Len(ns) - (Len(ns) - i + 1) + 1 = i
  BY <1>1
<1> HIDE DEF s
<1>3. \A m : /\ m \in Range(ns) <=> \E i \in 1 .. Len(ns) : ns[i] = m
             /\ m \in Range(s) <=> \E i \in 1 .. Len(s) : s[i] = m
  BY <1>1, InRange
<1>4. Range(s) = Range(ns)
  <2>1. ASSUME NEW m \in Range(s) PROVE m \in Range(ns)
    BY <1>1, <1>2, <1>3
  <2>2. ASSUME NEW m \in Range(ns) PROVE m \in Range(s)
    <3>1. PICK i \in 1 .. Len(ns) : ns[i] = m
      BY <1>3
    <3>2. s[Len(ns) - i + 1] = m
      BY <1>1, <1>2, <3>1
    <3> QED BY <1>1, <1>2, <1>3, <3>2
  <2> QED BY <2>1, <2>2
<1>5. Distinct(s)
  <2> SUFFICES ASSUME NEW i \in 1 .. Len(ns), NEW j \in 1 .. Len(ns), s[i] = s[j] PROVE i = j
    BY <1>1 DEF Distinct
  <2>1. Len(ns) - i + 1 = Len(ns) - j + 1
    BY <1>1, <1>2 DEF Distinct
  <2> QED BY <1>1, <2>1
<1> QED BY <1>1, <1>4, <1>5 DEF s

LEMMA JoinLists ==
  ASSUME NEW s \in Seq(Nodes), NEW u \in Seq(Nodes), Distinct(s), Distinct(u),
         Range(s) \cap Range(u) = {}
  PROVE  /\ s \o u \in Seq(Nodes) /\ Distinct(s \o u) /\ Len(s \o u) = Len(s) + Len(u)
         /\ Range(s \o u) = Range(s) \cup Range(u)
<1> DEFINE c == s \o u
<1>1. /\ c \in Seq(Nodes) /\ Len(c) = Len(s) + Len(u) /\ Len(s) \in Nat /\ Len(u) \in Nat
      /\ \A i \in 1 .. Len(s) + Len(u) : c[i] = IF i <= Len(s) THEN s[i] ELSE u[i - Len(s)]
  BY ConcatProperties
<1>2. Range(c) = Range(s) \cup Range(u)
  BY RangeConcatenation
<1>3. Range(s) = {s[i] : i \in 1 .. Len(s)} /\ Range(u) = {u[i] : i \in 1 .. Len(u)}
  BY RangeEquality
<1> HIDE DEF c
<1>4. \A i \in 1 .. Len(s), j \in 1 .. Len(u) : s[i] # u[j]
  BY <1>3
<1>5. \A i \in 1 .. Len(c) : i \in 1 .. Len(s) \/ (i - Len(s) \in 1 .. Len(u) /\ ~(i <= Len(s)))
  BY <1>1
<1>6. Distinct(c)
  <2> SUFFICES ASSUME NEW i \in 1 .. Len(c), NEW j \in 1 .. Len(c), c[i] = c[j] PROVE i = j
    BY DEF Distinct
  <2>1. CASE i \in 1 .. Len(s) /\ j \in 1 .. Len(s)
    BY <1>1, <2>1 DEF Distinct
  <2>2. CASE ~(i <= Len(s)) /\ ~(j <= Len(s))
    <3>1. i - Len(s) = j - Len(s)
      BY <1>1, <1>5, <2>2 DEF Distinct
    <3> QED BY <1>1, <3>1
  <2> QED BY <1>1, <1>4, <1>5, <2>1, <2>2
<1> QED BY <1>1, <1>2, <1>6 DEF c

LEMMA TailList ==
  ASSUME NEW ns \in Seq(Nodes), Distinct(ns), ns # <<>>
  PROVE  /\ Head(ns) \in Nodes /\ Head(ns) \in Range(ns) /\ Tail(ns) \in Seq(Nodes)
         /\ Distinct(Tail(ns)) /\ Range(Tail(ns)) = Range(ns) \ {Head(ns)}
<1> DEFINE s == Tail(ns)
<1>1. /\ s \in Seq(Nodes) /\ Len(s) = Len(ns) - 1 /\ Len(ns) \in Nat \ {0}
      /\ \A i \in 1 .. Len(s) : s[i] = ns[i + 1]
  BY HeadTailProperties, EmptySeq
<1>2. Head(ns) = ns[1] /\ Head(ns) \in Nodes
  BY <1>1
<1> HIDE DEF s
<1>3. \A m : /\ m \in Range(ns) <=> \E i \in 1 .. Len(ns) : ns[i] = m
             /\ m \in Range(s) <=> \E i \in 1 .. Len(s) : s[i] = m
  BY <1>1, InRange
<1>4. \A i \in 1 .. Len(ns) : i = 1 \/ \E k \in 1 .. Len(s) : i = k + 1
  <2>1. ASSUME NEW i \in 1 .. Len(ns), i # 1 PROVE i - 1 \in 1 .. Len(s) /\ i = (i - 1) + 1
    BY <1>1, <2>1
  <2> QED BY <2>1
<1>5. 1 \in 1 .. Len(ns) /\ \A k \in 1 .. Len(s) : k + 1 \in 1 .. Len(ns) /\ k + 1 # 1
  BY <1>1
<1>6. \A i, j \in 1 .. Len(s) : s[i] = s[j] => i = j
  BY <1>1, <1>5 DEF Distinct
<1>7. Range(s) = Range(ns) \ {ns[1]}
  <2>1. ASSUME NEW m \in Range(s) PROVE m \in Range(ns) /\ m # ns[1]
    <3>1. PICK k \in 1 .. Len(s) : s[k] = m
      BY <1>3
    <3>2. ns[k + 1] = m /\ k + 1 \in 1 .. Len(ns) /\ k + 1 # 1
      BY <1>1, <1>5, <3>1
    <3> QED BY <1>3, <1>5, <3>2 DEF Distinct
  <2>2. ASSUME NEW m \in Range(ns), m # ns[1] PROVE m \in Range(s)
    <3>1. PICK i \in 1 .. Len(ns) : ns[i] = m
      BY <1>3
    <3>2. PICK k \in 1 .. Len(s) : i = k + 1
      BY <1>4, <2>2, <3>1
    <3> QED BY <1>1, <1>3, <3>1, <3>2
  <2> QED BY <2>1, <2>2
<1> QED BY <1>1, <1>2, <1>3, <1>5, <1>6, <1>7 DEF s, Distinct

\* A list without repetition has as many elements as it is long.
LEMMA ListCardinality ==
  ASSUME NEW ns \in Seq(Nodes), Distinct(ns)
  PROVE  /\ IsFiniteSet(Range(ns)) /\ Cardinality(Range(ns)) = Len(ns)
         /\ Len(ns) <= Cardinality(Nodes)
<1>1. Len(ns) \in Nat /\ ns \in [1 .. Len(ns) -> Nodes]
  BY LenProperties
<1>2. Range(ns) = {ns[i] : i \in 1 .. Len(ns)}
  BY RangeEquality
<1>3. ns \in Bijection(1 .. Len(ns), Range(ns))
  BY <1>1, <1>2 DEF Distinct, Bijection, Injection, Surjection, IsInjective
<1>4. IsFiniteSet(1 .. Len(ns)) /\ Cardinality(1 .. Len(ns)) = Len(ns)
  <2>1. 1 \in Int /\ Len(ns) \in Int /\ (Len(ns) < 1 => Len(ns) = 0) /\ Len(ns) - 1 + 1 = Len(ns)
    BY <1>1
  <2>2. /\ IsFiniteSet(1 .. Len(ns))
        /\ Cardinality(1 .. Len(ns)) = IF 1 > Len(ns) THEN 0 ELSE Len(ns) - 1 + 1
    BY <2>1, FS_Interval, Zenon
  <2> QED BY <1>1, <2>1, <2>2
<1>5. IsFiniteSet(Range(ns)) /\ Cardinality(Range(ns)) = Len(ns)
  BY <1>3, <1>4, FS_Bijection DEF ExistsBijection
<1>6. Range(ns) \in SUBSET Nodes /\ IsFiniteSet(Nodes)
  BY RangeOfSeq, SetsAssumption
<1> QED BY <1>5, <1>6, FS_Subset

\* Induction over lists by a least counterexample.
LEMMA Least ==
  ASSUME NEW T \in SUBSET Nat, T # {}
  PROVE  \E m \in T : \A n \in T : m <= n
<1>1. PICK m \in T : \A n \in T : ~(<<n, m>> \in OpToRel(<, Nat))
  BY NatLessThanWellFounded, WFMin
<1>2. \A n \in T : ~(n < m)
  BY <1>1 DEF OpToRel
<1> HIDE <1>1
<1>3. m \in T /\ \A n \in T : n \in Nat
  OBVIOUS
<1> QED BY <1>2, <1>3

\* The links from p on lead along ns ...
Along(p, links, ns) == \A i \in 1 .. Len(ns) : ns[i] = Link(p, links, ns, i - 1)

\* ... and then out of the list: no cycle.
Path(p, links, ns) ==
  /\ ns \in Seq(Nodes) /\ Distinct(ns)
  /\ Along(p, links, ns)
  /\ Link(p, links, ns, Len(ns)) \notin Nodes

\* Two lists that follow the same links agree as far as both go.
LEMMA FollowsAgree ==
  ASSUME NEW p, NEW links, NEW s \in Seq(Nodes), NEW u \in Seq(Nodes),
         Along(p, links, s), Along(p, links, u)
  PROVE  \A i \in 1 .. Len(s) : i <= Len(u) => s[i] = u[i]
<1> DEFINE T == {i \in 1 .. Len(s) : i <= Len(u) /\ s[i] # u[i]}
<1>1. Len(s) \in Nat /\ Len(u) \in Nat
  OBVIOUS
<1> SUFFICES ASSUME T # {} PROVE FALSE
  OBVIOUS
<1>2. T \in SUBSET Nat
  BY <1>1
<1>3. PICK m \in T : \A n \in T : m <= n
  BY <1>2, Least
<1>4. m \in 1 .. Len(s) /\ m \in 1 .. Len(u) /\ s[m] # u[m]
  BY <1>1, <1>3
<1>5. CASE m = 1
  BY <1>1, <1>4, <1>5 DEF Link, Along
<1>6. CASE m # 1
  <2>1. m - 1 \in 1 .. Len(s) /\ m - 1 <= Len(u) /\ ~(m <= m - 1)
    BY <1>1, <1>4, <1>6
  <2>2. s[m - 1] = u[m - 1]
    BY <1>3, <2>1
  <2>3. s[m] = links[s[m - 1]] /\ u[m] = links[u[m - 1]]
    BY <1>4, <1>6, <2>1 DEF Link, Along
  <2> QED BY <1>4, <2>2, <2>3
<1> QED BY <1>5, <1>6

\* ListFrom finds the path, if there is one.
LEMMA PathIsList ==
  ASSUME NEW p, NEW links, NEW ns, Path(p, links, ns)
  PROVE  ListFrom(p, links) = ns
<1> DEFINE B == BoundedSeq(Nodes, Cardinality(Nodes))
           u == ListFrom(p, links)
           C == Cardinality(Nodes)
<1>1. ns \in Seq(Nodes) /\ Len(ns) \in Nat /\ Len(ns) <= C /\ C \in Nat
  <2>1. IsFiniteSet(Nodes)
    BY SetsAssumption
  <2> QED BY <2>1, ListCardinality, FS_CardinalityType DEF Path
<1>2. ns \in B
  <2>1. ns \in [1 .. Len(ns) -> Nodes] /\ Len(ns) \in 0 .. C
    BY <1>1
  <2> QED BY <2>1 DEF BoundedSeq, SeqOf
<1>3. Follows(p, links, ns)
  BY DEF Path, Follows, Along
<1>4. u \in B /\ Follows(p, links, u)
  BY <1>2, <1>3 DEF ListFrom
<1>5. u \in Seq(Nodes) /\ Len(u) \in Nat /\ Len(u) <= C
  <2>1. PICK m \in 0 .. C : u \in [1 .. m -> Nodes]
    BY <1>4 DEF BoundedSeq, SeqOf
  <2> HIDE DEF u
  <2>2. m \in Nat /\ m <= C
    BY <1>1, <2>1
  <2> QED BY <2>1, <2>2
<1> HIDE DEF u, C
<1>6. /\ Along(p, links, ns) /\ Along(p, links, u)
      /\ Link(p, links, ns, Len(ns)) \notin Nodes
      /\ Len(u) < C => Link(p, links, u, Len(u)) \notin Nodes
  BY <1>3, <1>4 DEF Path, Follows, Along, C
<1>7. \A i \in 1 .. Len(ns) : i <= Len(u) => ns[i] = u[i]
  BY <1>1, <1>5, <1>6, FollowsAgree
<1>8. ASSUME Len(u) < Len(ns) PROVE FALSE
  <2>1. Len(u) + 1 \in 1 .. Len(ns) /\ (Len(u) + 1) - 1 = Len(u) /\ Len(u) < C
    BY <1>1, <1>5, <1>8
  <2>2. Link(p, links, ns, Len(u)) = Link(p, links, u, Len(u))
    BY <1>1, <1>5, <1>7, <1>8 DEF Link
  <2>3. ns[Len(u) + 1] \in Nodes
    BY <1>1, <2>1
  <2> QED BY <1>6, <2>1, <2>2, <2>3 DEF Along
<1>9. ASSUME Len(ns) < Len(u) PROVE FALSE
  <2>1. Len(ns) + 1 \in 1 .. Len(u) /\ (Len(ns) + 1) - 1 = Len(ns)
    BY <1>1, <1>5, <1>9
  <2>2. Link(p, links, ns, Len(ns)) = Link(p, links, u, Len(ns))
    BY <1>1, <1>5, <1>7, <1>9 DEF Link
  <2>3. u[Len(ns) + 1] \in Nodes
    BY <1>5, <2>1
  <2> QED BY <1>6, <2>1, <2>2, <2>3 DEF Along
<1>10. Len(ns) = Len(u)
  BY <1>1, <1>5, <1>8, <1>9
<1>11. \A i \in 1 .. Len(ns) : ns[i] = u[i]
  BY <1>1, <1>7, <1>10
<1>12. ns = u
  BY <1>1, <1>5, <1>10, <1>11, SeqEqual
<1> QED BY <1>12 DEF u

-----------------------------------------------------------------------------
(* The inductive invariant                                                  *)

\* The stack is a list.
StackOK == Path(stack, next, Chain(stack))

\* A writer holds a message between new and the push, and no other one does.
WritersOK ==
  /\ \A t \in Writers : wpc[t] \in {"load", "cas"} <=> new[t] # Null
  /\ \A t, u \in Writers : new[t] = new[u] /\ new[t] # Null => t = u

\* Where the reader may find the queue closed, blocked or without a message.
ReaderOK ==
  /\ stack = Null => rpc = "done"
  /\ stack = BlockedDummy => rpc \in {"parked", "await", "asleep", "timeout", "done"}
  /\ rpc \in {"load", "cas"} => op # "none"
  /\ op = "close" => rpc \in {"load", "cas", "done"}
  /\ rpc = "done" => op = "close"
  /\ \/ rpc \in {"block", "parked", "await", "asleep", "timeout", "done"} \/ op = "close"
     \/ rpc \in {"load", "cas"} /\ op \in {"pop", "peek"}
     => head = <<>>
  /\ rpc = "cas" =>
       /\ e \in Nodes \/ (op = "close" /\ e = EmptyDummy)
       /\ stack \in Nodes \/ (op = "close" /\ stack = EmptyDummy)

\* Four sets that share all the addresses out.
Partition(F, S, H, W) ==
  /\ F \cup S \cup H \cup W = Nodes
  /\ F \cap S = {} /\ F \cap H = {} /\ F \cap W = {}
  /\ S \cap H = {} /\ S \cap W = {} /\ H \cap W = {}

AtWriters == {new[t] : t \in Held}

PlacesOK ==
  /\ Distinct(head)
  /\ Partition(free, Range(Chain(stack)), Range(head), AtWriters)
  /\ \A n \in Nodes \ free : val[n] # 0

IInv == TypeOK /\ StackOK /\ WritersOK /\ ReaderOK /\ PlacesOK

-----------------------------------------------------------------------------
(* Steps on the list                                                        *)

\* The dummies and nullptr are no addresses of messages, and three values.
LEMMA Marks ==
  /\ EmptyDummy # BlockedDummy /\ EmptyDummy # Null /\ BlockedDummy # Null
  /\ EmptyDummy \notin Nodes /\ BlockedDummy \notin Nodes /\ Null \notin Nodes
<1>1. EmptyDummy # BlockedDummy
  <2> SUFFICES ASSUME EmptyDummy = BlockedDummy PROVE FALSE
    OBVIOUS
  <2>1. Dummies = {EmptyDummy}
    BY DEF Dummies
  <2>2. Cardinality({EmptyDummy}) = 1
    BY FS_Singleton
  <2>3. Cardinality(Dummies) = 2
    BY SetsAssumption
  <2> QED BY <2>1, <2>2, <2>3
<1> QED BY <1>1, SetsAssumption DEF Dummies

LEMMA EmptyPath ==
  ASSUME NEW p, NEW links, p \notin Nodes
  PROVE  Path(p, links, <<>>) /\ ListFrom(p, links) = <<>>
<1>1. Path(p, links, <<>>)
  BY DEF Path, Along, Distinct, Link
<1> QED BY <1>1, PathIsList

LEMMA PathForms ==
  ASSUME NEW p, NEW links, NEW ns, Path(p, links, ns)
  PROVE  /\ p \notin Nodes => ns = <<>>
         /\ p \in Nodes => ns # <<>> /\ ns[1] = p /\ Len(ns) \in Nat \ {0}
<1>1. ns \in Seq(Nodes) /\ Len(ns) \in Nat
  BY DEF Path
<1>2. p \notin Nodes => ns = <<>>
  BY EmptyPath, PathIsList
<1>3. ASSUME p \in Nodes, Len(ns) = 0 PROVE FALSE
  BY <1>3 DEF Path, Link
<1>4. p \in Nodes => Len(ns) \in Nat \ {0} /\ ns # <<>>
  BY <1>1, <1>3
<1>5. p \in Nodes => ns[1] = p
  BY <1>1, <1>4 DEF Path, Along, Link
<1> QED BY <1>2, <1>4, <1>5

\* A new node in front.
LEMMA PushPath ==
  ASSUME NEW p, NEW links \in [Nodes -> Nodes \cup {Null}], NEW ns, Path(p, links, ns),
         NEW n \in Nodes, n \notin Range(ns),
         NEW q, q = (IF p \in Nodes THEN p ELSE Null)
  PROVE  Path(n, [links EXCEPT ![n] = q], <<n>> \o ns)
<1> DEFINE s == <<n>> \o ns
           l == [links EXCEPT ![n] = q]
<1>1. ns \in Seq(Nodes) /\ Len(ns) \in Nat /\ Distinct(ns)
  BY DEF Path
<1>2. /\ s \in Seq(Nodes) /\ Len(s) = Len(ns) + 1 /\ s[1] = n /\ Distinct(s)
      /\ \A i \in 1 .. Len(ns) : s[i + 1] = ns[i]
  BY <1>1, ConsList
<1>3. \A i \in 1 .. Len(ns) : ns[i] \in Nodes /\ ns[i] # n
  BY <1>1, InRange
<1>4. l[n] = q /\ \A m \in Nodes : m # n => l[m] = links[m]
  OBVIOUS
<1> HIDE DEF s, l
<1>5. Along(n, l, s)
  <2> SUFFICES ASSUME NEW i \in 1 .. Len(s) PROVE s[i] = Link(n, l, s, i - 1)
    BY DEF Along
  <2>1. CASE i = 1
    BY <1>2, <2>1 DEF Link
  <2>2. CASE i = 2
    <3>1. 1 \in 1 .. Len(ns)
      BY <1>1, <1>2, <2>2
    <3>2. p \in Nodes /\ ns[1] = p
      BY <1>1, <3>1, PathForms
    <3>3. Link(n, l, s, 1) = q
      BY <1>2, <1>4 DEF Link
    <3>4. s[2] = ns[1]
      BY <1>2, <3>1
    <3> QED BY <2>2, <3>2, <3>3, <3>4
  <2>3. CASE i # 1 /\ i # 2
    <3> DEFINE k == i - 1
               j == i - 2
    <3>1. k \in 1 .. Len(ns) /\ j \in 1 .. Len(ns) /\ k + 1 = i /\ j + 1 = k /\ k # 0 /\ j # 0
          /\ k - 1 = j
      BY <1>1, <1>2, <2>3
    <3> HIDE DEF k, j
    <3>2. s[i] = ns[k] /\ s[k] = ns[j]
      BY <1>2, <3>1
    <3>3. ns[k] = links[ns[j]]
      BY <3>1 DEF Path, Along, Link
    <3>4. Link(n, l, s, k) = links[ns[j]]
      BY <1>3, <1>4, <3>1, <3>2 DEF Link
    <3> QED BY <3>2, <3>3, <3>4 DEF k
  <2> QED BY <2>1, <2>2, <2>3
<1>6. Link(n, l, s, Len(s)) \notin Nodes
  <2>1. CASE Len(ns) = 0
    <3>1. p \notin Nodes
      BY <2>1, PathForms
    <3>2. Link(n, l, s, 1) = q
      BY <1>2, <1>4 DEF Link
    <3> QED BY <1>2, <2>1, <3>1, <3>2, Marks
  <2>2. CASE Len(ns) # 0
    <3>1. Len(ns) \in 1 .. Len(ns) /\ Len(ns) + 1 # 0
      BY <1>1, <2>2
    <3>2. s[Len(ns) + 1] = ns[Len(ns)]
      BY <1>2, <3>1
    <3>3. Link(n, l, s, Len(s)) = links[ns[Len(ns)]]
      BY <1>2, <1>3, <1>4, <3>1, <3>2 DEF Link
    <3>4. links[ns[Len(ns)]] \notin Nodes
      BY <2>2 DEF Path, Link
    <3> QED BY <3>3, <3>4
  <2> QED BY <2>1, <2>2
<1> QED BY <1>2, <1>5, <1>6 DEF Path, s, l

-----------------------------------------------------------------------------
(* Steps                                                                    *)

\* The list at the stack stays: stack_ does, or one mark replaces another.
LEMMA ListStays ==
  ASSUME StackOK, UNCHANGED next, stack' = stack \/ (stack \notin Nodes /\ stack' \notin Nodes)
  PROVE  Chain(stack)' = Chain(stack) /\ StackOK'
<1>1. Chain(stack)' = ListFrom(stack', next') /\ Chain(stack) = ListFrom(stack, next)
  BY DEF Chain
<1>2. CASE stack' = stack
  <2>1. Chain(stack)' = Chain(stack)
    BY <1>1, <1>2
  <2> QED BY <1>2, <2>1 DEF StackOK
<1>3. CASE stack \notin Nodes /\ stack' \notin Nodes
  <2>1. Chain(stack) = <<>> /\ Chain(stack)' = <<>> /\ Path(stack', next', <<>>)
    BY <1>1, <1>3, EmptyPath
  <2> QED BY <2>1 DEF StackOK
<1> QED BY <1>2, <1>3

\* A step that moves no message.
LEMMA NothingMoves ==
  ASSUME StackOK, PlacesOK, UNCHANGED <<next, head, free, val, new>>,
         stack' = stack \/ (stack \notin Nodes /\ stack' \notin Nodes)
  PROVE  StackOK' /\ PlacesOK'
<1>1. Chain(stack)' = Chain(stack) /\ StackOK'
  BY ListStays
<1>2. AtWriters' = AtWriters
  BY DEF AtWriters, Held
<1> QED BY <1>1, <1>2 DEF PlacesOK

\* Steps of a writer that only look.
LEMMA LookStep ==
  ASSUME IInv, NEW t \in Writers, LoadStack(t) \/ PushFails(t) \/ Notify(t)
  PROVE  IInv'
<1>1. UNCHANGED <<stack, next, head, free, val, new>>
  BY DEF LoadStack, PushFails, Notify, queue, store
<1>2. StackOK' /\ PlacesOK'
  BY <1>1, NothingMoves DEF IInv
<1>3. TypeOK' /\ WritersOK' /\ ReaderOK'
  BY DEF IInv, TypeOK, WritersOK, ReaderOK, LoadStack, PushFails, Notify, queue, store, reader
<1> QED BY <1>2, <1>3 DEF IInv

\* Steps of the reader that move no message.
ReaderLooks ==
  \/ \E f \in {"pop", "peek", "peek_all", "count"} : CallFetch(f)
  \/ TryBlock \/ Rescheduled \/ TryUnblock \/ CallAwait \/ FetchLoad \/ FetchFails
  \/ AwaitTryBlock \/ WaitWhileBlocked \/ SpuriousWakeup \/ TimeOut \/ AwaitTryUnblock

LEMMA ReaderLooksStep ==
  ASSUME IInv, ReaderLooks
  PROVE  IInv'
<1>1. /\ UNCHANGED <<next, head, val, free, sent, wpc, new, seen>>
      /\ stack' = stack \/ (stack \in Dummies /\ stack' \in Dummies)
  BY DEF ReaderLooks, CallFetch, TryBlock, Rescheduled, TryUnblock, CallAwait, FetchLoad,
         FetchFails, AwaitTryBlock, WaitWhileBlocked, SpuriousWakeup, TimeOut, AwaitTryUnblock,
         queue, store, writer, Dummies
<1>2. stack' = stack \/ (stack \notin Nodes /\ stack' \notin Nodes)
  BY <1>1, Marks DEF Dummies
<1>3. StackOK' /\ PlacesOK'
  BY <1>1, <1>2, NothingMoves DEF IInv
<1>4. WritersOK'
  BY <1>1 DEF IInv, WritersOK
<1>5. stack' \in Pointers
  BY <1>1 DEF IInv, TypeOK, Pointers
<1>6. e' \in Pointers /\ op' \in {"none", "pop", "peek", "peek_all", "count", "close"}
      /\ rpc' \in {"idle", "load", "cas", "block", "await", "asleep", "timeout", "parked", "done"}
  BY DEF IInv, TypeOK, ReaderLooks, CallFetch, TryBlock, Rescheduled, TryUnblock, CallAwait,
         FetchLoad, FetchFails, AwaitTryBlock, WaitWhileBlocked, SpuriousWakeup, TimeOut,
         AwaitTryUnblock, ReaderGoto, AfterFetch
<1>7. TypeOK'
  BY <1>1, <1>5, <1>6 DEF IInv, TypeOK
<1>8. ReaderOK'
  <2>1. /\ stack \in Pointers /\ e \in Pointers /\ ReaderOK /\ head' = head
        /\ op \in {"none", "pop", "peek", "peek_all", "count", "close"}
    BY <1>1 DEF IInv, TypeOK
  <2>2. ASSUME NEW f \in {"pop", "peek", "peek_all", "count"}, CallFetch(f) PROVE ReaderOK'
    BY <2>1, <2>2 DEF ReaderOK, CallFetch, ReaderGoto, queue
  <2>3. CASE TryBlock \/ Rescheduled \/ TryUnblock
    BY <2>1, <2>3, Marks DEF ReaderOK, TryBlock, Rescheduled, TryUnblock, ReaderGoto, queue
  <2>4. CASE CallAwait \/ AwaitTryBlock \/ WaitWhileBlocked
    BY <2>1, <2>4, Marks DEF ReaderOK, CallAwait, AwaitTryBlock, WaitWhileBlocked, ReaderGoto, queue
  <2>5. CASE SpuriousWakeup \/ TimeOut \/ AwaitTryUnblock
    BY <2>1, <2>5, Marks DEF ReaderOK, SpuriousWakeup, TimeOut, AwaitTryUnblock, ReaderGoto, queue
  <2>6. CASE FetchLoad
    BY <2>1, <2>6, Marks DEF ReaderOK, FetchLoad, EndPtr, AfterFetch, queue, Pointers, Dummies
  <2>7. CASE FetchFails
    BY <2>1, <2>7, Marks DEF ReaderOK, FetchFails, queue, Pointers, Dummies
  <2> QED BY <2>2, <2>3, <2>4, <2>5, <2>6, <2>7 DEF ReaderLooks
<1> QED BY <1>3, <1>4, <1>7, <1>8 DEF IInv

\* A writer makes a message.
LEMMA NewMessageStep ==
  ASSUME IInv, NEW t \in Writers, NewMessage(t)
  PROVE  IInv'
<1>1. PICK n \in free : /\ new' = [new EXCEPT ![t] = n] /\ free' = free \ {n}
                        /\ val' = [val EXCEPT ![n] = sent + 1]
  BY DEF NewMessage
<1>2. /\ wpc[t] = "idle" /\ sent < MaxMsgs /\ sent' = sent + 1
      /\ wpc' = [wpc EXCEPT ![t] = "load"]
      /\ UNCHANGED <<stack, next, head, seen, rpc, op, e>>
  BY DEF NewMessage, queue, reader
<1>3. n \in Nodes /\ n # Null /\ new[t] = Null /\ sent + 1 \in 1 .. MaxMsgs
  BY <1>2, Marks, SetsAssumption DEF IInv, TypeOK, WritersOK
<1>4. Chain(stack)' = Chain(stack) /\ StackOK'
  BY <1>2, ListStays DEF IInv
<1>5. TypeOK'
  BY <1>1, <1>2, <1>3, SetsAssumption DEF IInv, TypeOK
<1>6. new \in [Writers -> Nodes \cup {Null}] /\ wpc \in [Writers -> {"idle", "load", "cas", "notify"}]
  BY DEF IInv, TypeOK
<1>7. new'[t] = n /\ \A u \in Writers : u # t => new'[u] = new[u]
  BY <1>1, <1>6
<1>8. AtWriters' = AtWriters \cup {n}
  BY <1>3, <1>7 DEF AtWriters, Held
<1>9. \A u \in Writers : new[u] # n
  <2>1. AtWriters \cap free = {}
    BY DEF IInv, PlacesOK, Partition
  <2> QED BY <1>3, <2>1 DEF AtWriters, Held
<1>10. WritersOK'
  <2>1. \A u \in Writers : wpc'[u] \in {"load", "cas"} <=> new'[u] # Null
    BY <1>2, <1>3, <1>6, <1>7 DEF IInv, WritersOK
  <2>2. \A u, w \in Writers : new'[u] = new'[w] /\ new'[u] # Null => u = w
    BY <1>7, <1>9 DEF IInv, WritersOK
  <2> QED BY <2>1, <2>2 DEF WritersOK
<1>11. ReaderOK'
  BY <1>2 DEF IInv, ReaderOK
<1>12. PlacesOK'
  <2>1. Partition(free, Range(Chain(stack)), Range(head), AtWriters)
    BY DEF IInv, PlacesOK
  <2>2. Partition(free \ {n}, Range(Chain(stack)), Range(head), AtWriters \cup {n})
    BY <2>1 DEF Partition
  <2>3. Partition(free', Range(Chain(stack)'), Range(head'), AtWriters')
    BY <1>1, <1>2, <1>4, <1>8, <2>2
  <2>4. \A m \in Nodes \ free' : val'[m] # 0
    BY <1>1, <1>3 DEF IInv, TypeOK, PlacesOK
  <2>5. Distinct(head')
    BY <1>2 DEF IInv, PlacesOK
  <2> QED BY <2>3, <2>4, <2>5 DEF PlacesOK
<1> QED BY <1>4, <1>5, <1>10, <1>11, <1>12 DEF IInv

\* A writer's message leaves it, to the stack or back to the heap.
LEMMA WriterGives ==
  ASSUME IInv, NEW t \in Writers, wpc[t] = "cas", NEW pc \in {"idle", "notify"},
         new' = [new EXCEPT ![t] = Null], wpc' = [wpc EXCEPT ![t] = pc]
  PROVE  /\ WritersOK' /\ new[t] \in Nodes /\ new[t] \in AtWriters
         /\ AtWriters' = AtWriters \ {new[t]}
<1>1. new \in [Writers -> Nodes \cup {Null}] /\ wpc \in [Writers -> {"idle", "load", "cas", "notify"}]
      /\ WritersOK
  BY DEF IInv, TypeOK
<1>2. /\ new'[t] = Null /\ \A u \in Writers : u # t => new'[u] = new[u]
      /\ wpc'[t] = pc /\ \A u \in Writers : u # t => wpc'[u] = wpc[u]
  BY <1>1
<1>3. new[t] \in Nodes /\ new[t] # Null
  BY <1>1, Marks DEF WritersOK
<1>4. AtWriters' = AtWriters \ {new[t]}
  <2>1. ASSUME NEW m \in AtWriters' PROVE m \in AtWriters \ {new[t]}
    <3>1. PICK u \in Writers : new'[u] # Null /\ new'[u] = m
      BY DEF AtWriters, Held
    <3>2. u # t /\ new[u] = m
      BY <1>2, <3>1
    <3> QED BY <1>1, <3>1, <3>2 DEF AtWriters, Held, WritersOK
  <2>2. ASSUME NEW m \in AtWriters \ {new[t]} PROVE m \in AtWriters'
    <3>1. PICK u \in Writers : new[u] # Null /\ new[u] = m
      BY DEF AtWriters, Held
    <3>2. u # t
      BY <2>2, <3>1
    <3> QED BY <1>2, <3>1, <3>2 DEF AtWriters, Held
  <2> QED BY <2>1, <2>2
<1>5. new[t] \in AtWriters
  BY <1>3 DEF AtWriters, Held
<1>6. WritersOK'
  BY <1>1, <1>2 DEF WritersOK
<1> QED BY <1>3, <1>4, <1>5, <1>6

LEMMA RejectStep ==
  ASSUME IInv, NEW t \in Writers, RejectMessage(t)
  PROVE  IInv'
<1>1. /\ wpc[t] = "cas" /\ free' = free \cup {new[t]} /\ new' = [new EXCEPT ![t] = Null]
      /\ wpc' = [wpc EXCEPT ![t] = "idle"]
      /\ UNCHANGED <<stack, next, head, val, sent, seen, rpc, op, e>>
  BY DEF RejectMessage, queue, reader
<1>2. WritersOK' /\ new[t] \in Nodes /\ new[t] \in AtWriters /\ AtWriters' = AtWriters \ {new[t]}
  BY <1>1, WriterGives
<1>3. Chain(stack)' = Chain(stack) /\ StackOK'
  BY <1>1, ListStays DEF IInv
<1>4. TypeOK' /\ ReaderOK'
  BY <1>1, <1>2 DEF IInv, TypeOK, ReaderOK
<1>5. PlacesOK'
  <2>1. Partition(free, Range(Chain(stack)), Range(head), AtWriters)
    BY DEF IInv, PlacesOK
  <2>2. Partition(free \cup {new[t]}, Range(Chain(stack)), Range(head), AtWriters \ {new[t]})
    BY <1>2, <2>1 DEF Partition
  <2>3. Partition(free', Range(Chain(stack)'), Range(head'), AtWriters')
    BY <1>1, <1>2, <1>3, <2>2
  <2> QED BY <1>1, <2>3 DEF IInv, PlacesOK
<1> QED BY <1>2, <1>3, <1>4, <1>5 DEF IInv

\* What a push makes of the stack.
LEMMA PushedList ==
  ASSUME IInv, NEW t \in Writers, Push(t)
  PROVE  /\ new[t] \in Nodes /\ new[t] \notin Range(Chain(stack))
         /\ Chain(stack)' = <<new[t]>> \o Chain(stack) /\ StackOK'
<1> DEFINE n == new[t]
           q == IF seen[t] \in Dummies THEN Null ELSE seen[t]
<1>1. /\ wpc[t] = "cas" /\ stack = seen[t] /\ seen[t] # Null /\ stack' = n
      /\ next' = [next EXCEPT ![n] = q]
      /\ new' = [new EXCEPT ![t] = Null]
      /\ wpc' = [wpc EXCEPT ![t] = IF seen[t] = BlockedDummy THEN "notify" ELSE "idle"]
  BY DEF Push
<1>2. n \in Nodes /\ n \in AtWriters
  BY <1>1, WriterGives
<1>3. n \notin Range(Chain(stack))
  BY <1>2 DEF IInv, PlacesOK, Partition
<1>4. q = (IF stack \in Nodes THEN stack ELSE Null)
  BY <1>1, Marks DEF IInv, TypeOK, Pointers, Dummies
<1>5. next \in [Nodes -> Nodes \cup {Null}] /\ Path(stack, next, Chain(stack))
  BY DEF IInv, TypeOK, StackOK
<1> HIDE DEF q
<1>6. Path(n, [next EXCEPT ![n] = q], <<n>> \o Chain(stack))
  BY <1>2, <1>3, <1>4, <1>5, PushPath
<1>7. Path(stack', next', <<n>> \o Chain(stack))
  BY <1>1, <1>6
<1>8. ListFrom(stack', next') = <<n>> \o Chain(stack)
  BY <1>7, PathIsList
<1>9. Chain(stack)' = ListFrom(stack', next')
  BY DEF Chain
<1>10. Chain(stack)' = <<n>> \o Chain(stack)
  BY <1>8, <1>9
<1>11. StackOK'
  BY <1>7, <1>10 DEF StackOK
<1> QED BY <1>2, <1>3, <1>10, <1>11

LEMMA PushStep ==
  ASSUME IInv, NEW t \in Writers, Push(t)
  PROVE  IInv'
<1> DEFINE n == new[t]
<1>1. /\ wpc[t] = "cas" /\ stack = seen[t] /\ seen[t] # Null /\ stack' = n
      /\ next' = [next EXCEPT ![n] = IF seen[t] \in Dummies THEN Null ELSE seen[t]]
      /\ new' = [new EXCEPT ![t] = Null]
      /\ wpc' = [wpc EXCEPT ![t] = IF seen[t] = BlockedDummy THEN "notify" ELSE "idle"]
      /\ UNCHANGED <<head, val, free, sent, seen, rpc, op, e>>
  BY DEF Push, store, reader
<1>2. /\ n \in Nodes /\ n \notin Range(Chain(stack))
      /\ Chain(stack)' = <<n>> \o Chain(stack) /\ StackOK'
  BY PushedList
<1>3. WritersOK' /\ n \in AtWriters /\ AtWriters' = AtWriters \ {n}
  BY <1>1, WriterGives
<1>4. TypeOK'
  BY <1>1, <1>2 DEF IInv, TypeOK, Pointers
<1>5. stack \in Nodes \/ stack \in Dummies
  BY <1>1 DEF IInv, TypeOK, Pointers
<1>6. ReaderOK'
  BY <1>1, <1>2, <1>5, Marks DEF IInv, ReaderOK
<1>7. PlacesOK'
  <2>1. Partition(free, Range(Chain(stack)), Range(head), AtWriters)
    BY DEF IInv, PlacesOK
  <2>2. Range(<<n>> \o Chain(stack)) = {n} \cup Range(Chain(stack))
    BY <1>2, ConsList DEF IInv, StackOK, Path
  <2>3. Partition(free, {n} \cup Range(Chain(stack)), Range(head), AtWriters \ {n})
    BY <1>2, <1>3, <2>1 DEF Partition
  <2>4. Partition(free', Range(Chain(stack)'), Range(head'), AtWriters')
    BY <1>1, <1>2, <1>3, <2>2, <2>3
  <2> QED BY <1>1, <2>4 DEF IInv, PlacesOK
<1> QED BY <1>2, <1>3, <1>4, <1>6, <1>7 DEF IInv

\* take_head.
LEMMA PopHeadStep ==
  ASSUME IInv, PopHead
  PROVE  IInv'
<1>1. /\ rpc = "idle" /\ head # <<>> /\ head' = Tail(head) /\ free' = free \cup {Head(head)}
      /\ UNCHANGED <<val, sent, stack, next, wpc, new, seen, rpc, op, e>>
  BY DEF PopHead, Delete, writer, reader
<1>2. head \in Seq(Nodes) /\ Distinct(head)
  BY DEF IInv, TypeOK, PlacesOK
<1>3. /\ Head(head) \in Nodes /\ Head(head) \in Range(head) /\ Tail(head) \in Seq(Nodes)
      /\ Distinct(Tail(head)) /\ Range(Tail(head)) = Range(head) \ {Head(head)}
  BY <1>1, <1>2, TailList
<1>4. Chain(stack)' = Chain(stack) /\ StackOK'
  BY <1>1, ListStays DEF IInv
<1>5. TypeOK' /\ WritersOK'
  BY <1>1, <1>3 DEF IInv, TypeOK, WritersOK
<1>6. ReaderOK'
  BY <1>1 DEF IInv, ReaderOK
<1>7. PlacesOK'
  <2>1. Partition(free, Range(Chain(stack)), Range(head), AtWriters)
    BY DEF IInv, PlacesOK
  <2>2. Partition(free \cup {Head(head)}, Range(Chain(stack)), Range(head) \ {Head(head)}, AtWriters)
    BY <1>3, <2>1 DEF Partition
  <2>3. AtWriters' = AtWriters
    BY <1>1 DEF AtWriters, Held
  <2>4. Partition(free', Range(Chain(stack)'), Range(head'), AtWriters')
    BY <1>1, <1>3, <1>4, <2>2, <2>3
  <2> QED BY <1>1, <1>3, <2>4 DEF IInv, PlacesOK
<1> QED BY <1>4, <1>5, <1>6, <1>7 DEF IInv

LEMMA NoNodes == Range(<<>>) = {} /\ Distinct(<<>>) /\ <<>> \in Seq(Nodes) /\ Reverse(<<>>) = <<>>
<1>1. <<>> \in Seq(Nodes) /\ Len(<<>>) = 0
  OBVIOUS
<1>2. Reverse(<<>>) = <<>>
  BY <1>1 DEF Reverse
<1>3. ASSUME NEW n PROVE n \notin Range(<<>>)
  <2>1. n \in Range(<<>>) <=> \E i \in 1 .. Len(<<>>) : <<>>[i] = n
    BY <1>1, InRange, Zenon
  <2>2. \A i : i \notin 1 .. Len(<<>>)
    BY <1>1
  <2> QED BY <2>1, <2>2, Zenon
<1> QED BY <1>1, <1>2, <1>3 DEF Distinct

\* clear_cached_elements of close().
LEMMA CallCloseStep ==
  ASSUME IInv, CallClose
  PROVE  IInv'
<1>1. /\ rpc \in {"idle", "parked"} /\ head' = <<>> /\ free' = free \cup Range(head)
      /\ op' = "close" /\ rpc' = (IF stack = BlockedDummy THEN "done" ELSE "load")
      /\ UNCHANGED <<val, sent, stack, next, wpc, new, seen, e>>
  BY DEF CallClose, Delete, writer
<1>2. head \in Seq(Nodes) /\ Range(head) \in SUBSET Nodes
  BY RangeOfSeq DEF IInv, TypeOK
<1>3. Chain(stack)' = Chain(stack) /\ StackOK'
  BY <1>1, ListStays DEF IInv
<1>4. TypeOK' /\ WritersOK'
  BY <1>1, <1>2, NoNodes DEF IInv, TypeOK, WritersOK
<1>5. ReaderOK'
  BY <1>1, Marks DEF IInv, ReaderOK
<1>6. PlacesOK'
  <2>1. Partition(free, Range(Chain(stack)), Range(head), AtWriters)
    BY DEF IInv, PlacesOK
  <2>2. Partition(free \cup Range(head), Range(Chain(stack)), {}, AtWriters)
    BY <2>1 DEF Partition
  <2>3. AtWriters' = AtWriters
    BY <1>1 DEF AtWriters, Held
  <2>4. Range(head') = {} /\ Distinct(head')
    BY <1>1, NoNodes
  <2>5. Partition(free', Range(Chain(stack)'), Range(head'), AtWriters')
    BY <1>1, <1>3, <2>2, <2>3, <2>4
  <2> QED BY <1>1, <2>4, <2>5 DEF IInv, PlacesOK
<1> QED BY <1>3, <1>4, <1>5, <1>6 DEF IInv

\* What fetch_new_data takes: all of the stack, oldest first, and at least one
\* message unless the queue is being closed.
LEMMA FetchedList ==
  ASSUME IInv, Fetch
  PROVE  /\ TakeOver(Chain(e)) = Reverse(Chain(stack)) /\ Reverse(Chain(stack)) \in Seq(Nodes)
         /\ Distinct(Reverse(Chain(stack))) /\ Range(Reverse(Chain(stack))) = Range(Chain(stack))
         /\ op # "close" => Reverse(Chain(stack)) # <<>>
         /\ stack' = EndPtr /\ EndPtr \notin Nodes /\ Chain(stack)' = <<>> /\ StackOK'
<1>1. stack = e /\ stack' = EndPtr /\ rpc = "cas" /\ next' = next
  BY DEF Fetch
<1>2. TakeOver(Chain(e)) = Reverse(Chain(stack))
  BY <1>1 DEF TakeOver
<1>3. Path(stack, next, Chain(stack)) /\ Chain(stack) \in Seq(Nodes) /\ Distinct(Chain(stack))
  BY DEF IInv, StackOK, Path
<1>4. /\ Reverse(Chain(stack)) \in Seq(Nodes) /\ Len(Reverse(Chain(stack))) = Len(Chain(stack))
      /\ Distinct(Reverse(Chain(stack))) /\ Range(Reverse(Chain(stack))) = Range(Chain(stack))
  BY <1>3, ReverseList
<1>5. ASSUME op # "close" PROVE Reverse(Chain(stack)) # <<>>
  <2>1. stack \in Nodes
    BY <1>1, <1>5 DEF IInv, ReaderOK
  <2>2. Len(Chain(stack)) # 0
    BY <1>3, <2>1, PathForms
  <2> QED BY <1>4, <2>2
<1>6. EndPtr \notin Nodes
  BY Marks DEF EndPtr
<1>7. Chain(stack)' = <<>> /\ Path(stack', next', <<>>)
  <2>1. Chain(stack)' = ListFrom(stack', next') /\ stack' \notin Nodes
    BY <1>1, <1>6 DEF Chain
  <2> QED BY <2>1, EmptyPath
<1>8. StackOK'
  BY <1>7 DEF StackOK
<1> QED BY <1>1, <1>2, <1>4, <1>5, <1>6, <1>7, <1>8

LEMMA FetchStep ==
  ASSUME IInv, Fetch
  PROVE  IInv'
<1> DEFINE ns == Reverse(Chain(stack))
<1>1. /\ ns \in Seq(Nodes) /\ Distinct(ns) /\ Range(ns) = Range(Chain(stack))
      /\ op # "close" => ns # <<>>
      /\ stack' = EndPtr /\ Chain(stack)' = <<>> /\ StackOK' /\ TakeOver(Chain(e)) = ns
  BY FetchedList
<1>2. /\ \/ op = "close" /\ Delete(Range(ns)) /\ UNCHANGED head
         \/ op = "pop" /\ Delete({Head(ns)}) /\ head' = Tail(ns)
         \/ op \in {"peek", "peek_all"} /\ head' = head \o ns /\ UNCHANGED store
         \/ op = "count" /\ head' = ns \o head /\ UNCHANGED store
      /\ rpc = "cas" /\ rpc' = AfterFetch /\ UNCHANGED <<next, wpc, new, seen, op, e>>
  BY <1>1 DEF Fetch, writer
<1>3. Partition(free, Range(ns), Range(head), AtWriters) /\ AtWriters' = AtWriters
  BY <1>1, <1>2 DEF IInv, PlacesOK, AtWriters, Held
<1>4. head \in Seq(Nodes) /\ Distinct(head) /\ Range(head) \cap Range(ns) = {}
      /\ Range(ns) \in SUBSET Nodes
  BY <1>1, <1>3, RangeOfSeq DEF IInv, TypeOK, PlacesOK, Partition
<1> HIDE DEF ns
<1>5. /\ head' \in Seq(Nodes) /\ Distinct(head') /\ free' \subseteq Nodes /\ val' = val /\ sent' = sent
      /\ free \subseteq free' /\ Partition(free', {}, Range(head'), AtWriters)
  <2>1. CASE op = "close" /\ Delete(Range(ns)) /\ UNCHANGED head
    <3>1. free' = free \cup Range(ns) /\ val' = val /\ sent' = sent /\ head' = head
      BY <2>1 DEF Delete
    <3>2. Partition(free \cup Range(ns), {}, Range(head), AtWriters)
      BY <1>3 DEF Partition
    <3> QED BY <1>4, <3>1, <3>2 DEF IInv, TypeOK
  <2>2. CASE op = "pop" /\ Delete({Head(ns)}) /\ head' = Tail(ns)
    <3>1. free' = free \cup {Head(ns)} /\ val' = val /\ sent' = sent
      BY <2>2 DEF Delete
    <3>2. /\ Head(ns) \in Nodes /\ Head(ns) \in Range(ns) /\ Tail(ns) \in Seq(Nodes)
          /\ Distinct(Tail(ns)) /\ Range(Tail(ns)) = Range(ns) \ {Head(ns)}
      BY <1>1, <2>2, TailList
    <3>3. Range(head) = {}
      BY <1>2, <2>2, NoNodes DEF IInv, ReaderOK
    <3>4. Partition(free \cup {Head(ns)}, {}, Range(ns) \ {Head(ns)}, AtWriters)
      BY <1>3, <3>2, <3>3 DEF Partition
    <3> QED BY <2>2, <3>1, <3>2, <3>4 DEF IInv, TypeOK
  <2>3. CASE op \in {"peek", "peek_all"} /\ head' = head \o ns /\ UNCHANGED store
    <3>1. head \o ns \in Seq(Nodes) /\ Distinct(head \o ns) /\ Range(head \o ns) = Range(head) \cup Range(ns)
      BY <1>1, <1>4, JoinLists
    <3>2. Partition(free, {}, Range(head) \cup Range(ns), AtWriters)
      BY <1>3 DEF Partition
    <3> QED BY <2>3, <3>1, <3>2 DEF IInv, TypeOK, store
  <2>4. CASE op = "count" /\ head' = ns \o head /\ UNCHANGED store
    <3>1. ns \o head \in Seq(Nodes) /\ Distinct(ns \o head) /\ Range(ns \o head) = Range(ns) \cup Range(head)
      BY <1>1, <1>4, JoinLists
    <3>2. Partition(free, {}, Range(ns) \cup Range(head), AtWriters)
      BY <1>3 DEF Partition
    <3> QED BY <2>4, <3>1, <3>2 DEF IInv, TypeOK, store
  <2> QED BY <1>2, <2>1, <2>2, <2>3, <2>4
<1>6. TypeOK'
  <2>1. EndPtr \in Pointers /\ AfterFetch \in {"done", "idle"}
    BY DEF EndPtr, AfterFetch, Pointers, Dummies
  <2> QED BY <1>1, <1>2, <1>5, <2>1 DEF IInv, TypeOK
<1>7. WritersOK'
  BY <1>2 DEF IInv, WritersOK
<1>8. ReaderOK'
  <2>1. op # "none" /\ op' = op /\ (op = "close" => head' = head /\ head = <<>>)
    BY <1>2 DEF IInv, ReaderOK
  <2>2. CASE op = "close"
    BY <1>1, <1>2, <2>1, <2>2, Marks DEF ReaderOK, EndPtr, AfterFetch
  <2>3. CASE op # "close"
    BY <1>1, <1>2, <2>1, <2>3, Marks DEF ReaderOK, EndPtr, AfterFetch
  <2> QED BY <2>2, <2>3
<1>9. PlacesOK'
  <2>1. Partition(free', Range(Chain(stack)'), Range(head'), AtWriters')
    BY <1>1, <1>3, <1>5, NoNodes
  <2> QED BY <1>5, <2>1 DEF IInv, PlacesOK
<1> QED BY <1>1, <1>6, <1>7, <1>8, <1>9 DEF IInv

-----------------------------------------------------------------------------
(* The theorems                                                             *)

LEMMA IInvInit == Init => IInv
<1> SUFFICES ASSUME Init PROVE IInv
  OBVIOUS
<1>1. TypeOK
  BY NoNodes, SetsAssumption DEF Init, TypeOK, Pointers, Dummies
<1>2. Chain(stack) = <<>> /\ StackOK
  BY Marks, EmptyPath DEF Init, Chain, StackOK
<1>3. WritersOK /\ ReaderOK
  BY Marks DEF Init, WritersOK, ReaderOK
<1>4. AtWriters = {} /\ free = Nodes /\ head = <<>>
  <2>1. Held = {}
    BY DEF Init, Held
  <2> QED BY <2>1 DEF Init, AtWriters
<1>5. Partition(free, Range(Chain(stack)), Range(head), AtWriters)
  BY <1>2, <1>4, NoNodes DEF Partition
<1>6. PlacesOK
  BY <1>4, <1>5, NoNodes DEF PlacesOK
<1> QED BY <1>1, <1>2, <1>3, <1>6 DEF IInv

LEMMA IInvKept ==
  ASSUME IInv, UNCHANGED vars
  PROVE  IInv'
<1>1. UNCHANGED <<stack, next, head, val, free, sent, wpc, new, seen, rpc, op, e>>
  BY DEF vars, queue, store, writer, reader
<1>2. StackOK' /\ PlacesOK'
  BY <1>1, NothingMoves DEF IInv
<1>3. TypeOK' /\ WritersOK' /\ ReaderOK'
  BY <1>1 DEF IInv, TypeOK, WritersOK, ReaderOK
<1> QED BY <1>2, <1>3 DEF IInv

\* The steps of the system, as the lemmas treat them.
LEMMA NextForms ==
  ASSUME [Next]_vars
  PROVE  \/ \E t \in Writers : \/ NewMessage(t) \/ RejectMessage(t) \/ Push(t)
                               \/ LoadStack(t) \/ PushFails(t) \/ Notify(t)
         \/ PopHead \/ CallClose \/ Fetch \/ ReaderLooks \/ UNCHANGED vars
BY DEF Next, FinishEnqueue, ReaderStep, FinishCall, Finished, ReaderLooks

LEMMA IInvNext == IInv /\ [Next]_vars => IInv'
BY NextForms, NewMessageStep, RejectStep, PushStep, LookStep, PopHeadStep, CallCloseStep,
   FetchStep, ReaderLooksStep, IInvKept

\* Every variable of the queue keeps its type: no dummy gets into a list.
THEOREM TypeCorrect == Spec => []TypeOK
<1>1. IInv => TypeOK
  BY DEF IInv
<1> QED BY <1>1, IInvInit, IInvNext, PTL DEF Spec

\* fetch_new_data, on behalf of whichever caller, finds neither a blocked nor
\* a closed queue, whatever the writers push meanwhile: its assertions hold.
THEOREM FetchAlwaysLegal == Spec => []FetchIsLegal
<1>1. IInv => FetchIsLegal
  BY Marks DEF IInv, ReaderOK, FetchIsLegal
<1> QED BY <1>1, IInvInit, IInvNext, PTL DEF Spec

\* A push that unblocks keeps its notification until it is given.
LEMMA WakeupNext ==
  ASSUME IInv, NoLostWakeup, [Next]_vars
  PROVE  NoLostWakeup'
<1> SUFFICES ASSUME rpc' = "asleep", stack' # BlockedDummy
             PROVE  \E t \in Writers : wpc'[t] = "notify"
  BY DEF NoLostWakeup
<1>1. wpc \in [Writers -> {"idle", "load", "cas", "notify"}]
  BY DEF IInv, TypeOK
<1>2. ASSUME NEW t \in Writers, NewMessage(t) \/ LoadStack(t) \/ RejectMessage(t) \/ PushFails(t)
      PROVE  \E u \in Writers : wpc'[u] = "notify"
  <2>1. UNCHANGED <<stack, rpc>> /\ wpc[t] # "notify"
        /\ \A u \in Writers : u # t => wpc'[u] = wpc[u]
    BY <1>1, <1>2 DEF NewMessage, LoadStack, RejectMessage, PushFails, queue, reader
  <2>2. PICK u \in Writers : wpc[u] = "notify"
    BY <2>1 DEF NoLostWakeup
  <2> QED BY <2>1, <2>2
<1>3. ASSUME NEW t \in Writers, Push(t)
      PROVE  \E u \in Writers : wpc'[u] = "notify"
  <2>1. /\ rpc' = rpc /\ stack = seen[t] /\ wpc[t] # "notify"
        /\ wpc'[t] = (IF seen[t] = BlockedDummy THEN "notify" ELSE "idle")
        /\ \A u \in Writers : u # t => wpc'[u] = wpc[u]
    BY <1>1, <1>3 DEF Push, reader
  <2>2. CASE stack = BlockedDummy
    BY <2>1, <2>2
  <2>3. CASE stack # BlockedDummy
    <3>1. PICK u \in Writers : wpc[u] = "notify"
      BY <2>1, <2>3 DEF NoLostWakeup
    <3> QED BY <2>1, <3>1
  <2> QED BY <2>2, <2>3
<1>4. ASSUME NEW t \in Writers, Notify(t) PROVE FALSE
  BY <1>4 DEF Notify
<1>5. CASE PopHead \/ CallClose \/ Fetch
  BY <1>5 DEF PopHead, CallClose, Fetch, AfterFetch, reader
<1>6. CASE ReaderLooks
  <2>1. UNCHANGED wpc /\ rpc = "await" /\ stack = BlockedDummy /\ UNCHANGED stack
    BY <1>6 DEF ReaderLooks, CallFetch, TryBlock, Rescheduled, TryUnblock, CallAwait, FetchLoad,
         FetchFails, AwaitTryBlock, WaitWhileBlocked, SpuriousWakeup, TimeOut, AwaitTryUnblock,
         ReaderGoto, AfterFetch, queue, writer
  <2> QED BY <2>1
<1>7. CASE UNCHANGED vars
  BY <1>7 DEF vars, queue, writer, reader, NoLostWakeup
<1> QED BY <1>2, <1>3, <1>4, <1>5, <1>6, <1>7, NextForms

\* synchronized_await never sleeps on a queue that a writer has unblocked
\* without that writer being about to notify it.
THEOREM NoWakeupIsLost == Spec => []NoLostWakeup
<1>1. Init => NoLostWakeup
  BY DEF Init, NoLostWakeup
<1>2. IInv /\ NoLostWakeup /\ [Next]_vars => NoLostWakeup'
  BY WakeupNext
<1> QED BY <1>1, <1>2, IInvInit, IInvNext, PTL DEF Spec

\* The addresses are shared out, each at one place.
LEMMA IInvMemorySafe == IInv => MemorySafe
<1> SUFFICES ASSUME IInv PROVE MemorySafe
  OBVIOUS
<1> DEFINE lists == Chain(stack) \o head
           inUse == Range(lists) \cup AtWriters
<1>1. /\ Chain(stack) \in Seq(Nodes) /\ Distinct(Chain(stack))
      /\ head \in Seq(Nodes) /\ Distinct(head)
      /\ Partition(free, Range(Chain(stack)), Range(head), AtWriters)
  BY DEF IInv, StackOK, Path, TypeOK, PlacesOK
<1>2. Range(Chain(stack)) \cap Range(head) = {}
  BY <1>1 DEF Partition
<1>3. lists \in Seq(Nodes) /\ Distinct(lists) /\ Range(lists) = Range(Chain(stack)) \cup Range(head)
  BY <1>1, <1>2, JoinLists
<1>4. free \cup inUse = Nodes /\ free \cap inUse = {} /\ Range(lists) \cap AtWriters = {}
  BY <1>1, <1>3 DEF Partition
<1> HIDE DEF lists
<1>5. IsFiniteSet(Range(lists)) /\ Cardinality(Range(lists)) = Len(lists) /\ Len(lists) \in Nat
  <2>1. lists \in Seq(Nodes) /\ Distinct(lists)
    BY <1>3
  <2>2. IsFiniteSet(Range(lists)) /\ Cardinality(Range(lists)) = Len(lists)
    BY <2>1, ListCardinality, Zenon
  <2> QED BY <2>1, <2>2
<1>6. IsFiniteSet(AtWriters)
  BY <1>4, SetsAssumption, FS_Subset, AtWriters \in SUBSET Nodes
<1>7. IsFiniteSet(Held) /\ Cardinality(AtWriters) = Cardinality(Held)
  <2> DEFINE g == [n \in AtWriters |-> CHOOSE t \in Held : new[t] = n]
  <2>1. \A n \in AtWriters : g[n] \in Held /\ new[g[n]] = n
    BY DEF AtWriters
  <2>2. \A t \in Held : new[t] \in AtWriters /\ \A u \in Held : new[t] = new[u] => t = u
    BY DEF AtWriters, Held, IInv, WritersOK
  <2>3. g \in [AtWriters -> Held]
    BY <2>1
  <2> HIDE DEF g
  <2>4. g \in Bijection(AtWriters, Held)
    BY <2>1, <2>2, <2>3 DEF Bijection, Injection, Surjection, IsInjective
  <2> QED BY <1>6, <2>4, FS_Bijection DEF ExistsBijection
<1>8. Cardinality(inUse) = Len(lists) + Cardinality(Held)
  <2>1. /\ Cardinality(inUse) = Cardinality(Range(lists)) + Cardinality(AtWriters)
                                  - Cardinality(Range(lists) \cap AtWriters)
    BY <1>5, <1>6, FS_Union
  <2>2. Cardinality(Range(lists) \cap AtWriters) = 0
    BY <1>4, FS_EmptySet
  <2>3. Cardinality(AtWriters) \in Nat
    BY <1>6, FS_CardinalityType
  <2> HIDE DEF inUse
  <2> QED BY <1>5, <1>7, <2>1, <2>2, <2>3
<1> QED BY <1>4, <1>8 DEF MemorySafe, lists, AtWriters

\* No message leaks, is deleted twice or is in two lists, also when an address
\* comes back while a writer in enqueue still has it in its local e.
THEOREM MemoryIsSafe == Spec => []MemorySafe
BY IInvInit, IInvNext, IInvMemorySafe, PTL DEF Spec

-----------------------------------------------------------------------------
(* The queue implements Mailbox                                             *)

\* What the messages of a list say, with the messages as a parameter.
SaidBy(v, ns) == [i \in DOMAIN ns |-> v[ns[i]]]

Messages == [Nodes -> 0 .. MaxMsgs]
Sayings == 0 .. MaxMsgs

\* All messages of the queue, oldest first.
Line == head \o Reverse(Chain(stack))

LEMMA SaidFacts ==
  ASSUME NEW v \in Messages, NEW ns \in Seq(Nodes)
  PROVE  /\ SaidBy(v, ns) \in Seq(Sayings) /\ Len(SaidBy(v, ns)) = Len(ns) /\ Len(ns) \in Nat
         /\ \A i \in 1 .. Len(ns) : ns[i] \in Nodes /\ SaidBy(v, ns)[i] = v[ns[i]]
<1>1. DOMAIN ns = 1 .. Len(ns) /\ Len(ns) \in Nat /\ \A i \in 1 .. Len(ns) : ns[i] \in Nodes
  OBVIOUS
<1>2. \A i \in 1 .. Len(ns) : v[ns[i]] \in Sayings
  BY <1>1 DEF Messages, Sayings
<1>3. SaidBy(v, ns) = [i \in 1 .. Len(ns) |-> v[ns[i]]]
  BY <1>1 DEF SaidBy
<1> QED BY <1>1, <1>2, <1>3

\* A message that is not in the list does not matter.
LEMMA SaidSame ==
  ASSUME NEW v \in Messages, NEW w \in Messages, NEW ns \in Seq(Nodes),
         \A n \in Range(ns) : v[n] = w[n]
  PROVE  SaidBy(v, ns) = SaidBy(w, ns)
<1>1. \A i \in 1 .. Len(ns) : v[ns[i]] = w[ns[i]]
  BY InRange
<1>2. DOMAIN ns = 1 .. Len(ns)
  OBVIOUS
<1> QED BY <1>1, <1>2 DEF SaidBy

LEMMA SaidAppend ==
  ASSUME NEW v \in Messages, NEW ns \in Seq(Nodes), NEW n \in Nodes
  PROVE  SaidBy(v, Append(ns, n)) = Append(SaidBy(v, ns), v[n])
<1> DEFINE s == Append(ns, n)
           a == SaidBy(v, ns)
           b == SaidBy(v, s)
           c == Append(a, v[n])
<1>1. /\ s \in Seq(Nodes) /\ Len(s) = Len(ns) + 1 /\ s[Len(ns) + 1] = n
      /\ \A i \in 1 .. Len(ns) : s[i] = ns[i]
  BY AppendProperties
<1> HIDE DEF s
<1>2. /\ a \in Seq(Sayings) /\ Len(a) = Len(ns) /\ Len(ns) \in Nat
      /\ \A i \in 1 .. Len(ns) : a[i] = v[ns[i]]
  BY SaidFacts
<1>3. b \in Seq(Sayings) /\ Len(b) = Len(s) /\ \A i \in 1 .. Len(s) : b[i] = v[s[i]]
  BY <1>1, SaidFacts
<1>4. v[n] \in Sayings
  BY DEF Messages, Sayings
<1> HIDE DEF a, b
<1>5. /\ c \in Seq(Sayings) /\ Len(c) = Len(ns) + 1 /\ c[Len(ns) + 1] = v[n]
      /\ \A i \in 1 .. Len(ns) : c[i] = a[i]
  BY <1>2, <1>4, AppendProperties
<1> HIDE DEF c
<1>6. \A i \in 1 .. Len(b) : b[i] = c[i]
  <2> SUFFICES ASSUME NEW i \in 1 .. Len(b) PROVE b[i] = c[i]
    OBVIOUS
  <2>1. i \in 1 .. Len(s) /\ (i \in 1 .. Len(ns) \/ i = Len(ns) + 1)
    BY <1>1, <1>2, <1>3
  <2> QED BY <1>1, <1>2, <1>3, <1>5, <2>1
<1>7. b = c
  BY <1>1, <1>3, <1>5, <1>6, SeqEqual
<1> QED BY <1>7 DEF a, b, c, s

LEMMA SaidTail ==
  ASSUME NEW v \in Messages, NEW ns \in Seq(Nodes), ns # <<>>
  PROVE  SaidBy(v, Tail(ns)) = Tail(SaidBy(v, ns)) /\ SaidBy(v, ns) # <<>>
<1> DEFINE s == Tail(ns)
           a == SaidBy(v, ns)
           b == SaidBy(v, s)
           c == Tail(a)
<1>1. /\ s \in Seq(Nodes) /\ Len(s) = Len(ns) - 1 /\ Len(ns) \in Nat \ {0}
      /\ \A i \in 1 .. Len(s) : s[i] = ns[i + 1]
  BY HeadTailProperties, EmptySeq
<1> HIDE DEF s
<1>2. /\ a \in Seq(Sayings) /\ Len(a) = Len(ns)
      /\ \A i \in 1 .. Len(ns) : a[i] = v[ns[i]]
  BY SaidFacts
<1>3. b \in Seq(Sayings) /\ Len(b) = Len(s) /\ \A i \in 1 .. Len(s) : b[i] = v[s[i]]
  BY <1>1, SaidFacts
<1> HIDE DEF a, b
<1>4. a # <<>>
  BY <1>1, <1>2
<1>5. c \in Seq(Sayings) /\ Len(c) = Len(a) - 1 /\ \A i \in 1 .. Len(c) : c[i] = a[i + 1]
  BY <1>2, <1>4, HeadTailProperties
<1> HIDE DEF c
<1>6. \A i \in 1 .. Len(b) : b[i] = c[i]
  <2> SUFFICES ASSUME NEW i \in 1 .. Len(b) PROVE b[i] = c[i]
    OBVIOUS
  <2>1. i \in 1 .. Len(s) /\ i \in 1 .. Len(c) /\ i + 1 \in 1 .. Len(ns)
    BY <1>1, <1>2, <1>3, <1>5
  <2> QED BY <1>1, <1>2, <1>3, <1>5, <2>1
<1>7. b = c
  BY <1>1, <1>2, <1>3, <1>5, <1>6, SeqEqual
<1> QED BY <1>4, <1>7 DEF a, b, c, s

\* What is left when the first messages are thrown away.
LEMMA SaidDrop ==
  ASSUME NEW v \in Messages, NEW s \in Seq(Nodes), NEW u \in Seq(Nodes)
  PROVE  SaidBy(v, u) = SubSeq(SaidBy(v, s \o u), Len(s) + 1, Len(SaidBy(v, s \o u)))
<1> DEFINE l == s \o u
           a == SaidBy(v, l)
           b == SaidBy(v, u)
           c == SubSeq(a, Len(s) + 1, Len(s) + Len(u))
<1>1. /\ l \in Seq(Nodes) /\ Len(l) = Len(s) + Len(u) /\ Len(s) \in Nat /\ Len(u) \in Nat
      /\ \A i \in 1 .. Len(s) + Len(u) : l[i] = IF i <= Len(s) THEN s[i] ELSE u[i - Len(s)]
  BY ConcatProperties
<1> HIDE DEF l
<1>2. a \in Seq(Sayings) /\ Len(a) = Len(l) /\ \A i \in 1 .. Len(l) : a[i] = v[l[i]]
  BY <1>1, SaidFacts
<1>3. b \in Seq(Sayings) /\ Len(b) = Len(u) /\ \A i \in 1 .. Len(u) : b[i] = v[u[i]]
  BY SaidFacts
<1> HIDE DEF a, b
<1>4. \A i \in 1 .. Len(u) : /\ Len(s) + i \in 1 .. Len(l) /\ ~(Len(s) + i <= Len(s))
                             /\ (Len(s) + i) - Len(s) = i /\ (Len(s) + 1) + i - 1 = Len(s) + i
  BY <1>1
<1>5. \A i \in 1 .. Len(u) : a[Len(s) + i] = b[i]
  <2> SUFFICES ASSUME NEW i \in 1 .. Len(u) PROVE a[Len(s) + i] = b[i]
    OBVIOUS
  <2> DEFINE j == Len(s) + i
  <2>1. j \in 1 .. Len(l) /\ ~(j <= Len(s)) /\ j - Len(s) = i
    BY <1>4
  <2> HIDE DEF j
  <2>2. l[j] = u[i] /\ a[j] = v[l[j]]
    BY <1>1, <1>2, <2>1
  <2> QED BY <1>3, <2>2 DEF j
<1>6. c \in Seq(Sayings) /\ Len(c) = Len(u) /\ \A i \in 1 .. Len(u) : c[i] = a[Len(s) + i]
  <2>1. /\ Len(s) + 1 \in Int /\ Len(s) + Len(u) \in Int
        /\ \A i \in Len(s) + 1 .. Len(s) + Len(u) : a[i] \in Sayings
    BY <1>1, <1>2
  <2>2. /\ c \in Seq(Sayings)
        /\ Len(c) = IF Len(s) + 1 <= Len(s) + Len(u) THEN (Len(s) + Len(u)) - (Len(s) + 1) + 1 ELSE 0
        /\ \A i \in 1 .. (Len(s) + Len(u)) - (Len(s) + 1) + 1 : c[i] = a[(Len(s) + 1) + i - 1]
    BY <2>1, SubSeqProperties
  <2>3. (Len(s) + Len(u)) - (Len(s) + 1) + 1 = Len(u) /\ (~(Len(s) + 1 <= Len(s) + Len(u)) => Len(u) = 0)
    BY <1>1
  <2> HIDE DEF c
  <2> QED BY <1>4, <2>2, <2>3
<1> HIDE DEF c
<1>7. b = c
  BY <1>1, <1>3, <1>5, <1>6, SeqEqual
<1> QED BY <1>1, <1>2, <1>7 DEF a, b, c, l

\* The newest message of the stack is the last of the line.
LEMMA PushLast ==
  ASSUME NEW ns \in Seq(Nodes), Distinct(ns), NEW n \in Nodes, n \notin Range(ns)
  PROVE  Reverse(<<n>> \o ns) = Append(Reverse(ns), n)
<1> DEFINE s == <<n>> \o ns
           r == Reverse(ns)
           b == Reverse(s)
           c == Append(r, n)
<1>1. /\ s \in Seq(Nodes) /\ Len(s) = Len(ns) + 1 /\ s[1] = n /\ Distinct(s)
      /\ \A i \in 1 .. Len(ns) : s[i + 1] = ns[i]
  BY ConsList
<1> HIDE DEF s
<1>2. /\ r \in Seq(Nodes) /\ Len(r) = Len(ns) /\ Len(ns) \in Nat
      /\ \A i \in 1 .. Len(ns) : r[i] = ns[Len(ns) - i + 1]
  BY ReverseList
<1>3. /\ b \in Seq(Nodes) /\ Len(b) = Len(s)
      /\ \A i \in 1 .. Len(s) : b[i] = s[Len(s) - i + 1]
  BY <1>1, ReverseList
<1> HIDE DEF r, b
<1>4. /\ c \in Seq(Nodes) /\ Len(c) = Len(ns) + 1 /\ c[Len(ns) + 1] = n
      /\ \A i \in 1 .. Len(ns) : c[i] = r[i]
  BY <1>2, AppendProperties
<1> HIDE DEF c
<1>5. \A i \in 1 .. Len(b) : b[i] = c[i]
  <2> SUFFICES ASSUME NEW i \in 1 .. Len(b) PROVE b[i] = c[i]
    OBVIOUS
  <2>1. CASE i = Len(ns) + 1
    <3>1. i \in 1 .. Len(s) /\ Len(s) - i + 1 = 1
      BY <1>1, <1>2, <1>3, <2>1
    <3> QED BY <1>1, <1>3, <1>4, <2>1, <3>1
  <2>2. CASE i # Len(ns) + 1
    <3>1. /\ i \in 1 .. Len(s) /\ i \in 1 .. Len(ns) /\ Len(ns) - i + 1 \in 1 .. Len(ns)
          /\ Len(s) - i + 1 = (Len(ns) - i + 1) + 1
      BY <1>1, <1>2, <1>3, <2>2
    <3>2. b[i] = s[(Len(ns) - i + 1) + 1]
      BY <1>3, <3>1
    <3> QED BY <1>1, <1>2, <1>4, <3>1, <3>2
  <2> QED BY <2>1, <2>2
<1>6. b = c
  BY <1>1, <1>2, <1>3, <1>4, <1>5, SeqEqual
<1> QED BY <1>6 DEF s, r, b, c

LEMMA TailOfJoin ==
  ASSUME NEW s \in Seq(Nodes), s # <<>>, NEW u \in Seq(Nodes)
  PROVE  s \o u # <<>> /\ Tail(s) \o u = Tail(s \o u)
<1> DEFINE l == s \o u
           b == Tail(s) \o u
           c == Tail(l)
<1>1. /\ l \in Seq(Nodes) /\ Len(l) = Len(s) + Len(u) /\ Len(s) \in Nat \ {0} /\ Len(u) \in Nat
      /\ \A i \in 1 .. Len(s) + Len(u) : l[i] = IF i <= Len(s) THEN s[i] ELSE u[i - Len(s)]
  BY ConcatProperties, EmptySeq
<1> HIDE DEF l
<1>2. l # <<>>
  BY <1>1
<1>3. /\ Tail(s) \in Seq(Nodes) /\ Len(Tail(s)) = Len(s) - 1
      /\ \A i \in 1 .. Len(Tail(s)) : Tail(s)[i] = s[i + 1]
  BY HeadTailProperties
<1>4. c \in Seq(Nodes) /\ Len(c) = Len(l) - 1 /\ \A i \in 1 .. Len(c) : c[i] = l[i + 1]
  BY <1>1, <1>2, HeadTailProperties
<1>5. /\ b \in Seq(Nodes) /\ Len(b) = Len(Tail(s)) + Len(u)
      /\ \A i \in 1 .. Len(Tail(s)) + Len(u) :
           b[i] = IF i <= Len(Tail(s)) THEN Tail(s)[i] ELSE u[i - Len(Tail(s))]
  BY <1>3, ConcatProperties
<1> HIDE DEF b, c
<1>6. \A i \in 1 .. Len(b) : b[i] = c[i]
  <2> SUFFICES ASSUME NEW i \in 1 .. Len(b) PROVE b[i] = c[i]
    OBVIOUS
  <2>1. /\ i \in 1 .. Len(Tail(s)) + Len(u) /\ i \in 1 .. Len(c)
        /\ i + 1 \in 1 .. Len(s) + Len(u) /\ (i <= Len(Tail(s)) <=> i + 1 <= Len(s))
        /\ (i + 1) - Len(s) = i - Len(Tail(s)) /\ (i <= Len(Tail(s)) => i \in 1 .. Len(Tail(s)))
    BY <1>1, <1>3, <1>4, <1>5
  <2>2. CASE i <= Len(Tail(s))
    BY <1>1, <1>3, <1>4, <1>5, <2>1, <2>2
  <2>3. CASE ~(i <= Len(Tail(s)))
    BY <1>1, <1>4, <1>5, <2>1, <2>3
  <2> QED BY <2>2, <2>3
<1>7. b = c
  BY <1>1, <1>3, <1>4, <1>5, <1>6, SeqEqual
<1> QED BY <1>2, <1>7 DEF l, b, c

LEMMA LineFacts ==
  ASSUME IInv
  PROVE  /\ val \in Messages /\ head \in Seq(Nodes) /\ Reverse(Chain(stack)) \in Seq(Nodes)
         /\ Line \in Seq(Nodes) /\ Range(Line) = Range(head) \cup Range(Chain(stack))
         /\ contents = SaidBy(val, Line)
         /\ stack \notin Nodes => Chain(stack) = <<>> /\ Line = head
<1>1. /\ val \in Messages /\ head \in Seq(Nodes)
      /\ Path(stack, next, Chain(stack)) /\ Chain(stack) \in Seq(Nodes) /\ Distinct(Chain(stack))
  BY DEF IInv, TypeOK, StackOK, Path, Messages
<1>2. Reverse(Chain(stack)) \in Seq(Nodes) /\ Range(Reverse(Chain(stack))) = Range(Chain(stack))
  BY <1>1, ReverseList
<1>3. Line \in Seq(Nodes) /\ Range(Line) = Range(head) \cup Range(Chain(stack))
  BY <1>1, <1>2, ConcatProperties, RangeConcatenation DEF Line
<1>4. contents = SaidBy(val, Line)
  BY DEF contents, Said, SaidBy, Line
<1>5. ASSUME stack \notin Nodes PROVE Chain(stack) = <<>> /\ Line = head
  <2>1. Chain(stack) = <<>>
    BY <1>1, <1>5, PathForms
  <2> QED BY <1>1, <2>1, NoNodes, ConcatEmptySeq DEF Line
<1> QED BY <1>1, <1>2, <1>3, <1>4, <1>5

LEMMA LineFactsNext ==
  ASSUME IInv'
  PROVE  contents' = SaidBy(val', Line') /\ val' \in Messages /\ Line' = head' \o Reverse(Chain(stack)')
<1>1. val' \in Messages
  BY DEF IInv, TypeOK, Messages
<1>2. contents' = SaidBy(val', Line')
  BY DEF contents, Said, SaidBy, Line
<1> QED BY <1>1, <1>2 DEF Line

\* A step of the queue is one of the mailbox, or none.
MailboxStep == [Abstract!Next \/ (op = "count" /\ Fetch)]_<<contents, state>>

\* The same messages in the same order.
LEMMA SameLine ==
  ASSUME IInv, IInv', Line' = Line, \A n \in Range(Line) : val'[n] = val[n]
  PROVE  contents' = contents
<1>1. val \in Messages /\ val' \in Messages /\ Line \in Seq(Nodes)
      /\ contents = SaidBy(val, Line) /\ contents' = SaidBy(val', Line')
  BY LineFacts, LineFactsNext
<1>2. SaidBy(val', Line) = SaidBy(val, Line)
  BY <1>1, SaidSame
<1> QED BY <1>1, <1>2

\* Writers that only look, make a message or delete one.
LEMMA WriterHidden ==
  ASSUME IInv, IInv', UNCHANGED <<stack, next, head>>,
         \A n \in Nodes \ free : val'[n] = val[n]
  PROVE  UNCHANGED <<contents, state>>
<1>1. Chain(stack)' = Chain(stack)
  BY ListStays DEF IInv
<1>2. Line' = Line
  BY <1>1 DEF Line
<1>3. \A n \in Range(Line) : val'[n] = val[n]
  <2>1. Range(Line) = Range(head) \cup Range(Chain(stack)) /\ Line \in Seq(Nodes)
    BY LineFacts
  <2>2. Range(Line) \in SUBSET (Nodes \ free)
    BY <2>1, RangeOfSeq DEF IInv, PlacesOK, Partition
  <2> QED BY <2>2
<1>4. contents' = contents
  BY <1>2, <1>3, SameLine
<1>5. state' = state
  BY DEF state
<1> QED BY <1>4, <1>5

\* enqueue puts its message behind all others and unblocks the reader.
LEMMA PushPuts ==
  ASSUME IInv, IInv', NEW t \in Writers, Push(t)
  PROVE  Abstract!Put
<1> DEFINE n == new[t]
<1>1. /\ stack = seen[t] /\ seen[t] # Null /\ stack' = n /\ head' = head /\ val' = val
      /\ wpc[t] = "cas"
  BY DEF Push, store
<1>2. /\ n \in Nodes /\ n \notin Range(Chain(stack)) /\ Chain(stack)' = <<n>> \o Chain(stack)
  BY PushedList
<1>3. val[n] \in 1 .. MaxMsgs
  <2>1. n \in AtWriters
    BY <1>1, <1>2, Marks DEF AtWriters, Held
  <2>2. n \notin free
    BY <2>1 DEF IInv, PlacesOK, Partition
  <2>3. val[n] \in 0 .. MaxMsgs /\ val[n] # 0
    BY <1>2, <2>2 DEF IInv, PlacesOK, TypeOK
  <2> QED BY <2>3, SetsAssumption
<1>4. /\ val \in Messages /\ head \in Seq(Nodes) /\ Reverse(Chain(stack)) \in Seq(Nodes)
      /\ Line \in Seq(Nodes) /\ contents = SaidBy(val, Line)
      /\ contents' = SaidBy(val', Line') /\ Line' = head' \o Reverse(Chain(stack)')
  BY LineFacts, LineFactsNext
<1>5. Reverse(<<n>> \o Chain(stack)) = Append(Reverse(Chain(stack)), n)
  <2>1. Chain(stack) \in Seq(Nodes) /\ Distinct(Chain(stack))
    BY DEF IInv, StackOK, Path
  <2> QED BY <1>2, <2>1, PushLast
<1>6. Line' = Append(Line, n)
  <2> DEFINE R == Reverse(Chain(stack))
  <2>1. Line' = head \o Append(R, n) /\ R \in Seq(Nodes) /\ <<n>> \in Seq(Nodes)
    <3>1. Line' = head \o Append(R, n)
      BY <1>1, <1>2, <1>4, <1>5, Zenon
    <3>2. R \in Seq(Nodes)
      BY <1>4
    <3>3. <<n>> \in Seq(Nodes)
      BY <1>2
    <3> QED BY <3>1, <3>2, <3>3
  <2>2. Append(R, n) = R \o <<n>> /\ Append(Line, n) = Line \o <<n>>
    BY <1>2, <1>4, AppendIsConcat
  <2>3. Line = head \o R
    BY DEF Line
  <2> HIDE DEF R
  <2>4. (head \o R) \o <<n>> = head \o (R \o <<n>>)
    BY <1>4, <2>1, ConcatAssociative
  <2> QED BY <2>1, <2>2, <2>3, <2>4
<1>7. contents' = Append(contents, val[n])
  BY <1>1, <1>2, <1>4, <1>6, SaidAppend
<1>8. state # "closed" /\ state' = "open"
  BY <1>1, <1>2, Marks DEF state
<1> QED BY <1>3, <1>7, <1>8 DEF Abstract!Put

\* try_pop takes the oldest message: from the reader's list ...
LEMMA PopHeadTakes ==
  ASSUME IInv, IInv', PopHead
  PROVE  Abstract!Take
<1>1. head # <<>> /\ head' = Tail(head) /\ UNCHANGED <<val, stack, next>>
  BY DEF PopHead, Delete
<1>2. Chain(stack)' = Chain(stack)
  BY <1>1, ListStays DEF IInv
<1>3. /\ val \in Messages /\ head \in Seq(Nodes) /\ Reverse(Chain(stack)) \in Seq(Nodes)
      /\ Line \in Seq(Nodes) /\ contents = SaidBy(val, Line)
      /\ contents' = SaidBy(val', Line') /\ Line' = head' \o Reverse(Chain(stack)')
  BY LineFacts, LineFactsNext
<1>4. Line # <<>> /\ Tail(head) \o Reverse(Chain(stack)) = Tail(Line)
  BY <1>1, <1>3, TailOfJoin DEF Line
<1>5. Line' = Tail(Line)
  BY <1>1, <1>2, <1>3, <1>4
<1>6. contents # <<>> /\ contents' = Tail(contents)
  BY <1>1, <1>3, <1>4, <1>5, SaidTail
<1>7. state' = state
  BY <1>1 DEF state
<1> QED BY <1>6, <1>7 DEF Abstract!Take

\* close() throws away what the reader had, the oldest messages.
LEMMA CloseDiscards ==
  ASSUME IInv, IInv', CallClose
  PROVE  Abstract!Discard \/ UNCHANGED <<contents, state>>
<1>1. head' = <<>> /\ UNCHANGED <<val, stack, next>>
  BY DEF CallClose, Delete
<1>2. Chain(stack)' = Chain(stack) /\ state' = state
  BY <1>1, ListStays DEF IInv, state
<1>3. /\ val \in Messages /\ head \in Seq(Nodes) /\ Reverse(Chain(stack)) \in Seq(Nodes)
      /\ Line \in Seq(Nodes) /\ contents = SaidBy(val, Line)
      /\ contents' = SaidBy(val', Line') /\ Line' = head' \o Reverse(Chain(stack)')
  BY LineFacts, LineFactsNext
<1>4. Line' = Reverse(Chain(stack)) /\ Line = head \o Reverse(Chain(stack))
  BY <1>1, <1>2, <1>3, ConcatEmptySeq DEF Line
<1>5. contents' = SubSeq(contents, Len(head) + 1, Len(contents))
  BY <1>1, <1>3, <1>4, SaidDrop
<1>6. CASE head = <<>>
  BY <1>1, <1>2, <1>3, <1>4, <1>6
<1>7. CASE head # <<>>
  <2>1. Len(contents) = Len(head) + Len(Reverse(Chain(stack))) /\ Len(head) \in Nat \ {0}
    <3>1. Len(Line) = Len(head) + Len(Reverse(Chain(stack)))
      BY <1>3, <1>4, ConcatProperties
    <3>2. Len(contents) = Len(Line)
      BY <1>3, SaidFacts
    <3> QED BY <1>3, <1>7, <3>1, <3>2, EmptySeq
  <2>2. Len(head) \in 1 .. Len(contents)
    BY <1>3, <2>1
  <2> QED BY <1>2, <1>5, <2>2 DEF Abstract!Discard
<1> QED BY <1>6, <1>7

\* ... or from the stack it takes over.  peek and peek_all only move messages,
\* and close() leaves the queue empty and closed.
LEMMA FetchMoves ==
  ASSUME IInv, IInv', Fetch, op # "count"
  PROVE  Abstract!Take \/ Abstract!Close \/ UNCHANGED <<contents, state>>
<1> DEFINE ns == Reverse(Chain(stack))
<1>1. /\ TakeOver(Chain(e)) = ns
      /\ op # "close" => ns # <<>>
      /\ stack' = EndPtr /\ Chain(stack)' = <<>>
  BY FetchedList
<1>2. /\ \/ op = "close" /\ Delete(Range(ns)) /\ UNCHANGED head
         \/ op = "pop" /\ Delete({Head(ns)}) /\ head' = Tail(ns)
         \/ op \in {"peek", "peek_all"} /\ head' = head \o ns /\ UNCHANGED store
      /\ rpc = "cas"
  BY <1>1 DEF Fetch
<1>3. val' = val
  BY <1>2 DEF Delete, store
<1>4. /\ val \in Messages /\ head \in Seq(Nodes) /\ ns \in Seq(Nodes)
      /\ Line \in Seq(Nodes) /\ contents = SaidBy(val, Line) /\ Line = head \o ns
      /\ contents' = SaidBy(val, Line') /\ Line' = head' \o Reverse(Chain(stack)')
  BY <1>3, LineFacts, LineFactsNext DEF Line
<1>5. head' \in Seq(Nodes) /\ Line' = head'
  <2>1. head' \in Seq(Nodes)
    BY DEF IInv, TypeOK
  <2> QED BY <1>1, <1>4, <2>1, NoNodes, ConcatEmptySeq
<1>6. state = "open" /\ state' = (IF op = "close" THEN "closed" ELSE "open")
  BY <1>1, <1>2, Marks DEF state, EndPtr, IInv, ReaderOK
<1>7. op \in {"pop", "close"} => head = <<>>
  BY <1>2 DEF IInv, ReaderOK
<1> HIDE DEF ns
<1>8. CASE op \in {"peek", "peek_all"}
  BY <1>2, <1>4, <1>5, <1>6, <1>8
<1>9. CASE op = "pop"
  <2>1. Line = ns /\ Line' = Tail(ns) /\ ns # <<>>
    BY <1>1, <1>2, <1>4, <1>5, <1>7, <1>9, ConcatEmptySeq
  <2>2. contents' = Tail(contents) /\ contents # <<>>
    BY <1>4, <2>1, SaidTail
  <2> QED BY <1>6, <1>9, <2>2 DEF Abstract!Take
<1>10. CASE op = "close"
  <2>1. Line' = <<>>
    BY <1>2, <1>5, <1>7, <1>10
  <2>2. contents' = <<>>
    BY <1>4, <2>1 DEF SaidBy
  <2> QED BY <1>6, <1>10, <2>2 DEF Abstract!Close
<1> QED BY <1>2, <1>8, <1>9, <1>10

\* try_block, try_unblock and synchronized_await.
LEMMA ReaderBlocks ==
  ASSUME IInv, IInv', ReaderLooks
  PROVE  Abstract!Block \/ Abstract!Unblock \/ UNCHANGED <<contents, state>>
<1>1. /\ UNCHANGED <<next, head, val>>
      /\ \/ stack' = stack
         \/ stack = EmptyDummy /\ stack' = BlockedDummy /\ head = <<>>
         \/ stack = BlockedDummy /\ stack' = EmptyDummy
  <2>1. rpc = "block" => head = <<>>
    BY DEF IInv, ReaderOK
  <2> QED BY <2>1 DEF ReaderLooks, CallFetch, TryBlock, Rescheduled, TryUnblock, CallAwait, FetchLoad,
         FetchFails, AwaitTryBlock, WaitWhileBlocked, SpuriousWakeup, TimeOut, AwaitTryUnblock,
         ReaderGoto, queue, store
<1>2. stack' = stack \/ (stack \notin Nodes /\ stack' \notin Nodes)
  BY <1>1, Marks
<1>3. Chain(stack)' = Chain(stack)
  BY <1>1, <1>2, ListStays DEF IInv
<1>4. Line' = Line
  BY <1>1, <1>3 DEF Line
<1>5. contents' = contents
  BY <1>1, <1>4, SameLine
<1>6. CASE stack' = stack
  BY <1>5, <1>6 DEF state
<1>7. CASE stack = EmptyDummy /\ stack' = BlockedDummy /\ head = <<>>
  <2>1. Line = <<>> /\ contents = SaidBy(val, Line)
    BY <1>7, LineFacts, Marks
  <2>2. contents = <<>>
    BY <2>1 DEF SaidBy
  <2> QED BY <1>5, <1>7, <2>2, Marks DEF Abstract!Block, state
<1>8. CASE stack = BlockedDummy /\ stack' = EmptyDummy
  BY <1>5, <1>8, Marks DEF Abstract!Unblock, state
<1> QED BY <1>1, <1>6, <1>7, <1>8

LEMMA StepIsMailboxStep ==
  ASSUME IInv, [Next]_vars
  PROVE  MailboxStep
<1> USE IInvNext
<1>1. ASSUME NEW t \in Writers, NewMessage(t) PROVE MailboxStep
  <2>1. UNCHANGED <<stack, next, head>> /\ \A n \in Nodes \ free : val'[n] = val[n]
    BY <1>1 DEF NewMessage, queue, IInv, TypeOK
  <2> QED BY <2>1, WriterHidden DEF MailboxStep
<1>2. ASSUME NEW t \in Writers, RejectMessage(t) \/ LoadStack(t) \/ PushFails(t) \/ Notify(t)
      PROVE  MailboxStep
  <2>1. UNCHANGED <<stack, next, head>> /\ \A n \in Nodes \ free : val'[n] = val[n]
    BY <1>2 DEF RejectMessage, LoadStack, PushFails, Notify, queue, store
  <2> QED BY <2>1, WriterHidden DEF MailboxStep
<1>3. ASSUME NEW t \in Writers, Push(t) PROVE MailboxStep
  BY <1>3, PushPuts DEF MailboxStep, Abstract!Next
<1>4. CASE PopHead
  BY <1>4, PopHeadTakes DEF MailboxStep, Abstract!Next
<1>5. CASE CallClose
  BY <1>5, CloseDiscards DEF MailboxStep, Abstract!Next
<1>6. CASE Fetch
  BY <1>6, FetchMoves DEF MailboxStep, Abstract!Next
<1>7. CASE ReaderLooks
  BY <1>7, ReaderBlocks DEF MailboxStep, Abstract!Next
<1>8. CASE UNCHANGED vars
  <2>1. UNCHANGED <<stack, next, head>> /\ \A n \in Nodes \ free : val'[n] = val[n]
    BY <1>8 DEF vars, queue, store
  <2> QED BY <2>1, WriterHidden DEF MailboxStep
<1> QED BY <1>1, <1>2, <1>3, <1>4, <1>5, <1>6, <1>7, <1>8, NextForms

\* Whatever enqueue, try_pop, peek, peek_all, try_block, try_unblock, close and
\* synchronized_await do at once, each effect is that of one first-in first-out
\* queue; only count() may put newer messages before older ones.
THEOREM QueueImplementsMailbox == Spec => ImplementsMailbox
<1>1. Init => Abstract!Init
  <2> SUFFICES ASSUME Init PROVE Abstract!Init
    OBVIOUS
  <2>1. IInv /\ stack = EmptyDummy /\ head = <<>>
    BY IInvInit DEF Init
  <2>2. Line = <<>> /\ contents = SaidBy(val, Line)
    BY <2>1, LineFacts, Marks
  <2>3. contents = <<>>
    BY <2>2 DEF SaidBy
  <2> QED BY <2>1, <2>3, Marks DEF Abstract!Init, state
<1>2. IInv /\ [Next]_vars => [Abstract!Next \/ (op = "count" /\ Fetch)]_<<contents, state>>
  BY StepIsMailboxStep DEF MailboxStep
<1> QED BY <1>1, <1>2, IInvInit, IInvNext, PTL DEF Spec, ImplementsMailbox
=============================================================================
