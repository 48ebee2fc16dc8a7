-------------------------- MODULE SupervisionProofs --------------------------
(***************************************************************************)
(* Theorems about Supervision, for every set of supervisors and actors,    *)
(* every program (its script, its handlers) and every executor.            *)
(***************************************************************************)
EXTENDS Supervision, FiniteSetTheorems, SequenceTheorems, TLAPS

-----------------------------------------------------------------------------
(* Turns                                                                    *)

Entries == {"new", "task"} \X Actors

\* The last entry of a in ts is the i-th.
IsLast(ts, a, i) ==
  /\ i \in 1 .. Len(ts) /\ ts[i][2] = a
  /\ \A j \in i + 1 .. Len(ts) : ts[j][2] # a

\* The tasks that went to one of the actors in O after the i-th entry.
TasksSince(ts, i, O) ==
  {j \in i + 1 .. Len(ts) : ts[j][1] = "task" /\ ts[j][2] \in O}

\* a has an entry, and n tasks at most went to O since its last one.
Waited(ts, a, O, n) ==
  \E i \in 1 .. Len(ts) : /\ IsLast(ts, a, i)
                          /\ IsFiniteSet(TasksSince(ts, i, O))
                          /\ Cardinality(TasksSince(ts, i, O)) <= n

\* An entry of a's own ends its wait.
LEMMA OwnEntry ==
  ASSUME NEW ts \in Seq(Entries), NEW x \in Entries, NEW O, NEW n \in Nat
  PROVE  Waited(Append(ts, x), x[2], O, n)
<1> DEFINE us == Append(ts, x)
           k == Len(ts) + 1
<1>1. Len(ts) \in Nat /\ Len(us) = k /\ us[k] = x /\ k \in 1 .. Len(us)
  OBVIOUS
<1> HIDE DEF us
<1>2. \A j : j \notin k + 1 .. Len(us)
  BY <1>1
<1>3. IsLast(us, x[2], k)
  BY <1>1, <1>2 DEF IsLast
<1>4. TasksSince(us, k, O) = {}
  BY <1>2 DEF TasksSince
<1>5. IsFiniteSet(TasksSince(us, k, O)) /\ Cardinality(TasksSince(us, k, O)) = 0
  BY <1>4, FS_EmptySet
<1>6. Waited(us, x[2], O, n)
  BY <1>1, <1>3, <1>5 DEF Waited
<1> QED BY <1>6 DEF us

\* An entry of another actor is at most one more task, and none if it is no
\* task of this supervisor.
LEMMA OtherEntry ==
  ASSUME NEW ts \in Seq(Entries), NEW x \in Entries, NEW a, x[2] # a, NEW O,
         NEW n \in Nat, Waited(ts, a, O, n)
  PROVE  /\ Waited(Append(ts, x), a, O, n + 1)
         /\ x[1] # "task" \/ x[2] \notin O => Waited(Append(ts, x), a, O, n)
<1> DEFINE us == Append(ts, x)
           k == Len(ts) + 1
<1>1. Len(ts) \in Nat /\ Len(us) = k /\ us[k] = x /\ k \in Nat
      /\ \A j \in 1 .. Len(ts) : us[j] = ts[j]
  OBVIOUS
<1> HIDE DEF us
<1>2. PICK i \in 1 .. Len(ts) : /\ IsLast(ts, a, i) /\ IsFiniteSet(TasksSince(ts, i, O))
                                /\ Cardinality(TasksSince(ts, i, O)) <= n
  BY DEF Waited
<1>3. /\ i \in 1 .. Len(us) /\ k \in i + 1 .. Len(us)
      /\ \A j : j \in i + 1 .. Len(us) <=> j \in i + 1 .. Len(ts) \/ j = k
      /\ \A j \in i + 1 .. Len(ts) : us[j] = ts[j]
  BY <1>1
<1>4. IsLast(us, a, i)
  BY <1>1, <1>2, <1>3 DEF IsLast
<1> DEFINE S == TasksSince(ts, i, O)
           U == TasksSince(us, i, O)
<1>5. /\ x[1] = "task" /\ x[2] \in O => U = S \cup {k}
      /\ x[1] # "task" \/ x[2] \notin O => U = S
  BY <1>1, <1>3 DEF TasksSince
<1>6. IsFiniteSet(S) /\ Cardinality(S) <= n /\ Cardinality(S) \in Nat
  BY <1>2, FS_CardinalityType
<1> HIDE DEF S, U, k
<1>7. /\ IsFiniteSet(S \cup {k}) /\ Cardinality(S \cup {k}) \in Nat
      /\ Cardinality(S \cup {k}) <= Cardinality(S) + 1
  <2>1. IsFiniteSet(S \cup {k}) /\ Cardinality(S \cup {k}) \in {Cardinality(S), Cardinality(S) + 1}
    BY <1>6, FS_AddElement
  <2> QED BY <1>6, <2>1
<1>8. IsFiniteSet(U) /\ Cardinality(U) <= n + 1 /\ (U = S => Cardinality(U) <= n)
  <2>1. U = S \/ U = S \cup {k}
    BY <1>5
  <2>2. CASE U = S
    BY <1>6, <2>2
  <2>3. CASE U = S \cup {k}
    <3>1. IsFiniteSet(U) /\ Cardinality(U) <= n + 1
      BY <1>6, <1>7, <2>3
    <3> QED BY <1>6, <3>1
  <2> QED BY <2>1, <2>2, <2>3
<1>9. Waited(us, a, O, n + 1) /\ (U = S => Waited(us, a, O, n))
  BY <1>3, <1>4, <1>8 DEF Waited, U
<1> QED BY <1>5, <1>9 DEF us

\* Waiting less is waiting no more, and a team may gain an actor that has had
\* no entry yet.
LEMMA WaitedMore ==
  ASSUME NEW ts, NEW a, NEW O, NEW m \in Nat, NEW n \in Nat, m <= n, Waited(ts, a, O, m)
  PROVE  Waited(ts, a, O, n)
<1>1. PICK i \in 1 .. Len(ts) : /\ IsLast(ts, a, i) /\ IsFiniteSet(TasksSince(ts, i, O))
                                /\ Cardinality(TasksSince(ts, i, O)) <= m
  BY DEF Waited
<1>2. Cardinality(TasksSince(ts, i, O)) <= n
  BY <1>1, FS_CardinalityType
<1> QED BY <1>1, <1>2 DEF Waited

LEMMA TeamGrows ==
  ASSUME NEW ts \in Seq(Entries), NEW a, NEW O, NEW n, Waited(ts, a, O, n),
         NEW b, \A j \in 1 .. Len(ts) : ts[j][2] # b
  PROVE  Waited(ts, a, O \cup {b}, n)
<1>1. PICK i \in 1 .. Len(ts) : /\ IsLast(ts, a, i) /\ IsFiniteSet(TasksSince(ts, i, O))
                                /\ Cardinality(TasksSince(ts, i, O)) <= n
  BY DEF Waited
<1>2. \A j \in i + 1 .. Len(ts) : ts[j][2] # b
  OBVIOUS
<1>3. TasksSince(ts, i, O \cup {b}) = TasksSince(ts, i, O)
  BY <1>2 DEF TasksSince
<1> QED BY <1>1, <1>3 DEF Waited

-----------------------------------------------------------------------------
(* The inductive invariant                                                  *)

TurnTypes ==
  /\ owned \in [Supervisors -> Seq(Actors)] /\ cursor \in [Supervisors -> Nat]
  /\ turns \in Seq(Entries)

\* An actor is in one list, once, and only actors that exist get a turn.
TeamsOK ==
  /\ \A s, u \in Supervisors : \A i \in 1 .. Len(owned[s]), j \in 1 .. Len(owned[u]) :
       owned[s][i] = owned[u][j] => s = u /\ i = j
  /\ \A s \in Supervisors : \A i \in 1 .. Len(owned[s]) : owned[s][i] \in created
  /\ \A j \in 1 .. Len(turns) : turns[j][2] \in created

CursorOK ==
  \A s \in Supervisors : cursor[s] < Len(owned[s]) \/ (cursor[s] = 0 /\ Len(owned[s]) = 0)

RobinInv == TurnTypes /\ TeamsOK /\ CursorOK

LEMMA RobinInit == Init => RobinInv
<1> SUFFICES ASSUME Init PROVE RobinInv
  OBVIOUS
<1>1. owned = [s \in Supervisors |-> <<>>] /\ cursor = [s \in Supervisors |-> 0] /\ turns = <<>>
  BY DEF Init
<1>2. TurnTypes
  BY <1>1 DEF TurnTypes
<1>3. \A s \in Supervisors : Len(owned[s]) = 0 /\ cursor[s] = 0
  BY <1>1
<1>4. Len(turns) = 0
  BY <1>1
<1> QED BY <1>2, <1>3, <1>4 DEF RobinInv, TeamsOK, CursorOK

LEMMA RobinSame ==
  ASSUME RobinInv, UNCHANGED <<owned, cursor, turns, created>>
  PROVE  RobinInv'
BY DEF RobinInv, TurnTypes, TeamsOK, CursorOK

\* redirect_robin: a task goes to the actor at the cursor.
LEMMA TaskEntry ==
  ASSUME RobinInv, NEW t \in Threads, RedirectRobin(t)
  PROVE  LET s == Op(t).to
             a == owned[s][cursor[s] + 1]
         IN  /\ s \in Supervisors /\ Len(owned[s]) \in Nat /\ cursor[s] \in Nat
             /\ cursor[s] < Len(owned[s]) /\ cursor[s] + 1 \in 1 .. Len(owned[s])
             /\ a \in Actors /\ a \in created /\ <<"task", a>> \in Entries
             /\ turns' = Append(turns, <<"task", a>>)
             /\ owned' = owned /\ created' = created /\ cursor' = cursor
<1> DEFINE s == Op(t).to
           a == owned[s][cursor[s] + 1]
<1>1. /\ s \in Supervisors /\ owned[s] # <<>> /\ cursor' = cursor
      /\ turns' = Append(turns, <<"task", a>>) /\ owned' = owned /\ created' = created
  BY DEF RedirectRobin, books
<1> HIDE DEF s
<1>2. owned \in [Supervisors -> Seq(Actors)] /\ cursor \in [Supervisors -> Nat]
  BY DEF RobinInv, TurnTypes
<1>3. Len(owned[s]) \in Nat /\ cursor[s] \in Nat /\ Len(owned[s]) # 0
  BY <1>1, <1>2
<1>4. cursor[s] < Len(owned[s]) /\ cursor[s] + 1 \in 1 .. Len(owned[s])
  BY <1>1, <1>3 DEF RobinInv, CursorOK
<1>5. a \in Actors /\ a \in created
  BY <1>1, <1>2, <1>4 DEF RobinInv, TeamsOK
<1>6. <<"task", a>> \in Entries
  BY <1>5 DEF Entries
<1> QED BY <1>1, <1>3, <1>4, <1>5, <1>6 DEF s

LEMMA TaskStep ==
  ASSUME RobinInv, NEW t \in Threads, RedirectRobin(t)
  PROVE  RobinInv'
<1> DEFINE s == Op(t).to
           a == owned[s][cursor[s] + 1]
           x == <<"task", a>>
<1>1. /\ a \in created /\ x \in Entries /\ turns' = Append(turns, x)
      /\ owned' = owned /\ created' = created /\ cursor' = cursor
  BY TaskEntry
<1>2. x[2] = a
  OBVIOUS
<1> HIDE DEF x
<1>3. turns \in Seq(Entries)
  BY DEF RobinInv, TurnTypes
<1>4. /\ turns' \in Seq(Entries) /\ Len(turns) \in Nat /\ Len(turns') = Len(turns) + 1
      /\ turns'[Len(turns) + 1] = x /\ \A j \in 1 .. Len(turns) : turns'[j] = turns[j]
  BY <1>1, <1>3, AppendProperties
<1>5. \A j \in 1 .. Len(turns') : j \in 1 .. Len(turns) \/ j = Len(turns) + 1
  BY <1>4
<1>6. \A j \in 1 .. Len(turns') : turns'[j][2] \in created
  BY <1>1, <1>2, <1>4, <1>5 DEF RobinInv, TeamsOK
<1>7. TurnTypes' /\ TeamsOK' /\ CursorOK'
  BY <1>1, <1>4, <1>6 DEF RobinInv, TurnTypes, TeamsOK, CursorOK
<1> QED BY <1>7 DEF RobinInv

\* ++cursor, and back to the first actor after the last.
LEMMA AdvanceKeepsRobin ==
  ASSUME RobinInv, NEW t \in Threads, Advance(t)
  PROVE  RobinInv'
<1> DEFINE s == Op(t).at
<1>1. /\ cursor' = [cursor EXCEPT ![s] = NextCursor(s)]
      /\ turns' = turns /\ owned' = owned /\ created' = created
  BY DEF Advance, books, past
<1> HIDE DEF s
<1>2. owned \in [Supervisors -> Seq(Actors)] /\ cursor \in [Supervisors -> Nat]
  BY DEF RobinInv, TurnTypes
<1>3. ASSUME NEW u \in Supervisors
      PROVE  /\ cursor'[u] \in Nat
             /\ cursor'[u] < Len(owned[u]) \/ (cursor'[u] = 0 /\ Len(owned[u]) = 0)
  <2>1. Len(owned[u]) \in Nat /\ cursor[u] \in Nat
    BY <1>2
  <2>2. cursor'[u] = IF u = s THEN NextCursor(u) ELSE cursor[u]
    BY <1>1, <1>2
  <2> QED BY <2>1, <2>2 DEF NextCursor, RobinInv, CursorOK
<1>4. cursor' \in [Supervisors -> Nat]
  BY <1>1, <1>2, <1>3
<1>5. TurnTypes' /\ TeamsOK'
  BY <1>1, <1>4 DEF RobinInv, TurnTypes, TeamsOK
<1>6. CursorOK'
  BY <1>1, <1>3 DEF CursorOK
<1> QED BY <1>5, <1>6 DEF RobinInv

\* spawn_actor: an actor joins at the end of actors_.
Joins(s, b) ==
  /\ b \in Actors \ created /\ created' = created \cup {b} /\ cursor' = cursor
  /\ owned' = [owned EXCEPT ![s] = Append(owned[s], b)]
  /\ turns' = Append(turns, <<"new", b>>)

LEMMA SpawnJoins ==
  ASSUME NEW t \in Threads, DoSpawn(t)
  PROVE  LET b == Fresh(Op(t).type)
         IN  \/ Joins(Op(t).at, b)
             \/ /\ created' = created \cup {b} /\ cursor' = cursor
                /\ owned' = owned /\ turns' = turns
BY DEF DoSpawn, Fresh, Joins

LEMMA JoinEntry ==
  ASSUME RobinInv, NEW s, NEW b, Joins(s, b)
  PROVE  /\ <<"new", b>> \in Entries
         /\ \A j \in 1 .. Len(turns) : turns[j][2] # b
         /\ \A u \in Supervisors : \A i \in 1 .. Len(owned[u]) : owned[u][i] # b
         /\ turns' \in Seq(Entries)
         /\ owned' \in [Supervisors -> Seq(Actors)]
         /\ \A u \in Supervisors :
              /\ Len(owned[u]) \in Nat
              /\ u # s => owned'[u] = owned[u]
              /\ u = s => /\ Len(owned'[u]) = Len(owned[u]) + 1 /\ owned'[u][Len(owned[u]) + 1] = b
                          /\ \A i \in 1 .. Len(owned[u]) : owned'[u][i] = owned[u][i]
<1> DEFINE x == <<"new", b>>
<1>1. b \in Nodes \ created
  BY DEF Joins, Nodes
<1>2. owned \in [Supervisors -> Seq(Actors)] /\ cursor \in [Supervisors -> Nat] /\ turns \in Seq(Entries)
  BY DEF RobinInv, TurnTypes
<1>3. b \in Actors
  BY DEF Joins
<1>4. x \in Entries /\ x[1] = "new" /\ x[2] = b
  BY <1>3 DEF Entries
<1>5. \A j \in 1 .. Len(turns) : turns[j][2] # b
  BY <1>1 DEF RobinInv, TeamsOK
<1>6. \A u \in Supervisors : \A i \in 1 .. Len(owned[u]) : owned[u][i] # b
  BY <1>1 DEF RobinInv, TeamsOK
<1>7. turns' \in Seq(Entries)
  BY <1>2, <1>4, AppendProperties DEF Joins
<1>8. \A u \in Supervisors : owned'[u] = (IF u = s THEN Append(owned[u], b) ELSE owned[u])
  BY <1>2, <1>3 DEF Joins
<1>9. owned' \in [Supervisors -> Seq(Actors)]
  <2>1. \A u \in Supervisors : Append(owned[u], b) \in Seq(Actors)
    BY <1>2, <1>3, AppendProperties
  <2> QED BY <1>2, <1>3, <2>1 DEF Joins
<1>10. \A u \in Supervisors :
        /\ Len(owned[u]) \in Nat
        /\ u # s => owned'[u] = owned[u]
        /\ u = s => /\ Len(owned'[u]) = Len(owned[u]) + 1 /\ owned'[u][Len(owned[u]) + 1] = b
                    /\ \A i \in 1 .. Len(owned[u]) : owned'[u][i] = owned[u][i]
  <2> SUFFICES ASSUME NEW u \in Supervisors
               PROVE  /\ Len(owned[u]) \in Nat
                      /\ u # s => owned'[u] = owned[u]
                      /\ u = s => /\ Len(owned'[u]) = Len(owned[u]) + 1
                                  /\ owned'[u][Len(owned[u]) + 1] = b
                                  /\ \A i \in 1 .. Len(owned[u]) : owned'[u][i] = owned[u][i]
    OBVIOUS
  <2> DEFINE o == owned[u]
  <2>1. o \in Seq(Actors)
    BY <1>2
  <2>2. owned'[u] = (IF u = s THEN Append(o, b) ELSE o)
    BY <1>8
  <2> HIDE DEF o
  <2>3. /\ Len(o) \in Nat /\ Len(Append(o, b)) = Len(o) + 1 /\ Append(o, b)[Len(o) + 1] = b
        /\ \A i \in 1 .. Len(o) : Append(o, b)[i] = o[i]
    BY <1>3, <2>1, AppendProperties
  <2> QED BY <2>2, <2>3 DEF o
<1> QED BY <1>4, <1>5, <1>6, <1>7, <1>9, <1>10

LEMMA JoinStep ==
  ASSUME RobinInv, NEW t \in Threads, DoSpawn(t)
  PROVE  RobinInv'
<1> DEFINE s == Op(t).at
           b == Fresh(Op(t).type)
           x == <<"new", b>>
<1>1. \/ Joins(s, b)
      \/ created' = created \cup {b} /\ cursor' = cursor /\ owned' = owned /\ turns' = turns
  BY SpawnJoins
<1> HIDE DEF s, b
<1>2. owned \in [Supervisors -> Seq(Actors)] /\ cursor \in [Supervisors -> Nat] /\ turns \in Seq(Entries)
  BY DEF RobinInv, TurnTypes
<1>3. CASE created' = created \cup {b} /\ cursor' = cursor /\ owned' = owned /\ turns' = turns
  BY <1>3 DEF RobinInv, TurnTypes, TeamsOK, CursorOK
<1>4. CASE Joins(s, b)
  <2>1. created' = created \cup {b} /\ cursor' = cursor /\ turns' = Append(turns, x) /\ x[2] = b
    BY <1>4 DEF Joins
  <2>2. x \in Entries /\ turns' \in Seq(Entries) /\ owned' \in [Supervisors -> Seq(Actors)]
    BY <1>4, JoinEntry
  <2>3. \A u \in Supervisors : \A i \in 1 .. Len(owned[u]) : owned[u][i] # b
    BY <1>4, JoinEntry
  <2>4. \A u \in Supervisors :
          /\ Len(owned[u]) \in Nat
          /\ u # s => owned'[u] = owned[u]
          /\ u = s => /\ Len(owned'[u]) = Len(owned[u]) + 1 /\ owned'[u][Len(owned[u]) + 1] = b
                      /\ \A i \in 1 .. Len(owned[u]) : owned'[u][i] = owned[u][i]
    BY <1>4, JoinEntry
  <2>5. TeamsOK'
    <3>1. \A u \in Supervisors : \A i \in 1 .. Len(owned'[u]) :
            \/ i \in 1 .. Len(owned[u]) /\ owned'[u][i] = owned[u][i]
            \/ u = s /\ i = Len(owned[u]) + 1 /\ owned'[u][i] = b
      <4> SUFFICES ASSUME NEW u \in Supervisors, NEW i \in 1 .. Len(owned'[u])
                   PROVE  \/ i \in 1 .. Len(owned[u]) /\ owned'[u][i] = owned[u][i]
                          \/ u = s /\ i = Len(owned[u]) + 1 /\ owned'[u][i] = b
        OBVIOUS
      <4>1. CASE u # s
        BY <2>4, <4>1
      <4>2. CASE u = s
        <5>1. i \in 1 .. Len(owned[u]) \/ i = Len(owned[u]) + 1
          BY <2>4, <4>2
        <5> QED BY <2>4, <4>2, <5>1
      <4> QED BY <4>1, <4>2
    <3>2. \A u, v \in Supervisors : \A i \in 1 .. Len(owned'[u]), j \in 1 .. Len(owned'[v]) :
            owned'[u][i] = owned'[v][j] => u = v /\ i = j
      <4> SUFFICES ASSUME NEW u \in Supervisors, NEW v \in Supervisors,
                          NEW i \in 1 .. Len(owned'[u]), NEW j \in 1 .. Len(owned'[v]),
                          owned'[u][i] = owned'[v][j]
                   PROVE  u = v /\ i = j
        OBVIOUS
      <4>1. CASE i \in 1 .. Len(owned[u]) /\ owned'[u][i] = owned[u][i]
        <5>1. owned'[v][j] # b
          BY <2>3, <4>1
        <5>2. j \in 1 .. Len(owned[v]) /\ owned'[v][j] = owned[v][j]
          BY <3>1, <5>1
        <5>3. owned[u][i] = owned[v][j]
          BY <4>1, <5>2
        <5>4. \A p, q \in Supervisors : \A k \in 1 .. Len(owned[p]), l \in 1 .. Len(owned[q]) :
                owned[p][k] = owned[q][l] => p = q /\ k = l
          BY DEF RobinInv, TeamsOK
        <5>5. \A l \in 1 .. Len(owned[v]) : owned[u][i] = owned[v][l] => u = v /\ i = l
          BY <4>1, <5>4
        <5>6. j \in 1 .. Len(owned[v])
          BY <5>2
        <5> QED BY <5>3, <5>5, <5>6
      <4>2. CASE u = s /\ i = Len(owned[u]) + 1 /\ owned'[u][i] = b
        <5>1. v = s /\ j = Len(owned[v]) + 1
          BY <2>3, <3>1, <4>2
        <5> QED BY <4>2, <5>1
      <4> QED BY <3>1, <4>1, <4>2
    <3>3. \A u \in Supervisors : \A i \in 1 .. Len(owned'[u]) : owned'[u][i] \in created'
      BY <2>1, <3>1 DEF RobinInv, TeamsOK
    <3>4. \A j \in 1 .. Len(turns') : turns'[j][2] \in created'
      <4>1. /\ Len(turns') = Len(turns) + 1 /\ turns'[Len(turns) + 1] = x /\ Len(turns) \in Nat
            /\ \A j \in 1 .. Len(turns) : turns'[j] = turns[j]
        BY <1>2, <2>1, <2>2, AppendProperties
      <4>2. \A j \in 1 .. Len(turns') : j \in 1 .. Len(turns) \/ j = Len(turns) + 1
        BY <4>1
      <4> QED BY <2>1, <4>1, <4>2 DEF RobinInv, TeamsOK
    <3> QED BY <3>2, <3>3, <3>4 DEF TeamsOK
  <2>6. CursorOK'
    <3>1. \A u \in Supervisors : cursor[u] \in Nat /\ cursor'[u] = cursor[u]
      BY <1>2, <2>1
    <3> QED BY <2>4, <3>1 DEF RobinInv, CursorOK
  <2>7. TurnTypes'
    BY <1>2, <2>1, <2>2 DEF TurnTypes
  <2> QED BY <2>5, <2>6, <2>7 DEF RobinInv
<1> QED BY <1>1, <1>3, <1>4

\* Nothing else touches actors_, the cursor or the turns.
LEMMA RobinUntouched ==
  ASSUME NEW t \in Threads, Step(t), ~RedirectRobin(t), ~Advance(t), ~DoSpawn(t)
  PROVE  UNCHANGED <<owned, cursor, turns, created>>
<1>1. CASE \/ SendToActor(t) \/ Schedule(t) \/ SendNowhere(t) \/ SendToSupervisor(t)
           \/ DropMessage(t) \/ NoHandler(t) \/ BadCast(t) \/ AddLink(t)
  BY <1>1 DEF SendToActor, Schedule, SendNowhere, SendToSupervisor, DropMessage, NoHandler,
              BadCast, AddLink, Meet, Halt, Goto, books, past
<1>2. CASE \/ RemoveLinkActor(t) \/ RemoveLinkSupervisor(t) \/ Redirect(t) \/ AppHandler(t)
           \/ TellKnown(t) \/ TellUnknown(t) \/ DoIntroduce(t)
  BY <1>2 DEF RemoveLinkActor, RemoveLinkSupervisor, Redirect, AppHandler, TellKnown,
              TellUnknown, DoIntroduce, Halt, Goto, books, past
<1>3. CASE \/ DoBroadcast(t) \/ DoBroadcastTo(t) \/ Know(t) \/ Sync(t) \/ Consume(t)
           \/ LastLook(t) \/ Rest(t)
  BY <1>3 DEF DoBroadcast, DoBroadcastTo, Know, Meet, Sync, Consume, LastLook, Rest,
              Halt, Goto, books, past
<1> QED BY <1>1, <1>2, <1>3 DEF Step

LEMMA RobinNext == RobinInv /\ [Next]_vars => RobinInv'
<1> SUFFICES ASSUME RobinInv, [Next]_vars PROVE RobinInv'
  OBVIOUS
<1>1. CASE Call \/ UNCHANGED vars
  <2>1. UNCHANGED <<owned, cursor, turns, created>>
    BY <1>1 DEF Call, vars, books, past
  <2> QED BY <2>1, RobinSame
<1>2. ASSUME NEW t \in Threads, Step(t) PROVE RobinInv'
  BY <1>2, RobinUntouched, RobinSame, TaskStep, AdvanceKeepsRobin, JoinStep
<1> QED BY <1>1, <1>2 DEF Next

-----------------------------------------------------------------------------
(* How long an actor waits                                                  *)

\* What a supervisor's i-th actor of n waits at most when the round has got to
\* its c-th actor: the round has passed it, or it is still to come.
Bound(c, n, i) == IF i <= c THEN c - i ELSE (n - i) + c

\* Every actor waits no longer, the round of each supervisor having got to c.
Waits(ts, own, c) ==
  \A s \in Supervisors : \A i \in 1 .. Len(own[s]) :
    Waited(ts, own[s][i], ToSet(own[s]), Bound(c[s], Len(own[s]), i))

\* The round has got to the cursor, or to the actor at it when that one has its
\* task and the cursor does not show it yet.
Reached(c) == \A s \in Supervisors : c[s] \in {cursor[s], cursor[s] + 1}

LEMMA BoundNat ==
  ASSUME NEW c \in Nat, NEW n \in Nat, NEW i \in 1 .. n, c <= n
  PROVE  Bound(c, n, i) \in Nat /\ Bound(c, n, i) < n
BY DEF Bound

LEMMA ReachedType ==
  ASSUME RobinInv, NEW c, Reached(c), NEW s \in Supervisors
  PROVE  /\ Len(owned[s]) \in Nat /\ cursor[s] \in Nat /\ c[s] \in Nat
         /\ DOMAIN owned[s] = 1 .. Len(owned[s])
         /\ Len(owned[s]) # 0 => cursor[s] < Len(owned[s]) /\ c[s] <= Len(owned[s])
         /\ Len(owned[s]) = 0 => c[s] <= 1
<1>1. /\ Len(owned[s]) \in Nat /\ cursor[s] \in Nat /\ c[s] \in {cursor[s], cursor[s] + 1}
      /\ DOMAIN owned[s] = 1 .. Len(owned[s])
  BY DEF RobinInv, TurnTypes, Reached
<1>2. cursor[s] < Len(owned[s]) \/ (cursor[s] = 0 /\ Len(owned[s]) = 0)
  BY DEF RobinInv, CursorOK
<1> QED BY <1>1, <1>2

\* A task goes to the actor at the cursor: its wait ends, and everyone else of
\* the team waits for one task more.
LEMMA TaskWaits ==
  ASSUME RobinInv, NEW t \in Threads, RedirectRobin(t), NEW c, Reached(c), NEW d,
         Waits(turns, owned, c), c[Op(t).to] = cursor[Op(t).to],
         d[Op(t).to] = cursor[Op(t).to] + 1,
         \A u \in Supervisors : u # Op(t).to => d[u] = c[u]
  PROVE  Waits(turns', owned', d)
<1> DEFINE s == Op(t).to
           n == Len(owned[s])
           a == owned[s][cursor[s] + 1]
           x == <<"task", a>>
<1>1. /\ s \in Supervisors /\ cursor[s] + 1 \in 1 .. n /\ x \in Entries
      /\ turns' = Append(turns, x) /\ owned' = owned
  BY TaskEntry
<1>2. x[1] = "task" /\ x[2] = a
  OBVIOUS
<1>3. turns \in Seq(Entries)
  BY DEF RobinInv, TurnTypes
<1> HIDE DEF x
<1>4. ASSUME NEW u \in Supervisors, NEW i \in 1 .. Len(owned[u])
      PROVE  Waited(turns', owned[u][i], ToSet(owned[u]), Bound(d[u], Len(owned[u]), i))
  <2> DEFINE b == owned[u][i]
             O == ToSet(owned[u])
             m == Bound(c[u], Len(owned[u]), i)
  <2>1. Waited(turns, b, O, m)
    BY DEF Waits
  <2>2. /\ Len(owned[u]) \in Nat /\ cursor[u] \in Nat /\ cursor[u] < Len(owned[u])
        /\ c[u] \in Nat /\ c[u] <= Len(owned[u]) /\ DOMAIN owned[u] = 1 .. Len(owned[u])
    BY ReachedType
  <2>3. m \in Nat
    BY <2>2, BoundNat
  <2>4. CASE u # s
    <3>1. a \notin O /\ a # b
      <4>1. \A j \in 1 .. Len(owned[u]) : owned[u][j] # a
        BY <1>1, <2>4 DEF RobinInv, TeamsOK
      <4> QED BY <2>2, <4>1 DEF ToSet
    <3>2. d[u] = c[u]
      BY <2>4
    <3> HIDE DEF a, b, O, m
    <3>3. Waited(Append(turns, x), b, O, m)
      BY <1>1, <1>2, <1>3, <2>1, <2>3, <3>1, OtherEntry
    <3> QED BY <1>1, <3>2, <3>3 DEF b, O, m
  <2>5. CASE u = s /\ i = cursor[s] + 1
    <3>1. a = b /\ d[u] = cursor[u] + 1
      BY <2>5
    <3> DEFINE k == Bound(d[u], Len(owned[u]), i)
    <3>2. d[u] \in Nat /\ d[u] <= Len(owned[u])
      BY <2>2, <3>1
    <3>3. k \in Nat
      BY <2>2, <3>2, BoundNat
    <3> HIDE DEF a, b, O, m, k
    <3>4. Waited(Append(turns, x), b, O, k)
      BY <1>1, <1>2, <1>3, <3>1, <3>3, OwnEntry
    <3> QED BY <1>1, <3>4 DEF b, O, k
  <2>6. CASE u = s /\ i # cursor[s] + 1
    <3>1. a # b
      BY <1>1, <2>6 DEF RobinInv, TeamsOK
    <3>2. c[u] = cursor[u] /\ d[u] = cursor[u] + 1 /\ i # cursor[u] + 1
      BY <2>6
    <3>3. Bound(d[u], Len(owned[u]), i) = m + 1
      BY <2>2, <3>2 DEF Bound
    <3> HIDE DEF a, b, O, m
    <3>4. Waited(Append(turns, x), b, O, m + 1)
      BY <1>1, <1>2, <1>3, <2>1, <2>3, <3>1, OtherEntry
    <3> QED BY <1>1, <3>3, <3>4 DEF b, O
  <2> QED BY <2>4, <2>5, <2>6
<1> QED BY <1>1, <1>4 DEF Waits

\* ++cursor catches up with the round; after the last actor comes the first.
LEMMA AdvanceWaits ==
  ASSUME RobinInv, NEW t \in Threads, Advance(t), NEW c, Reached(c), NEW d,
         Waits(turns, owned, c), c[Op(t).at] = cursor[Op(t).at] + 1,
         d[Op(t).at] = NextCursor(Op(t).at),
         \A u \in Supervisors : u # Op(t).at => d[u] = c[u]
  PROVE  Waits(turns', owned', d)
<1> DEFINE s == Op(t).at
<1>1. turns' = turns /\ owned' = owned
  BY DEF Advance, books, past
<1>2. ASSUME NEW u \in Supervisors, NEW i \in 1 .. Len(owned[u])
      PROVE  Bound(d[u], Len(owned[u]), i) = Bound(c[u], Len(owned[u]), i)
  <2>1. /\ Len(owned[u]) \in Nat /\ cursor[u] \in Nat /\ cursor[u] < Len(owned[u])
    BY ReachedType
  <2>2. CASE u = s
    <3>1. c[u] = cursor[u] + 1 /\ d[u] = IF cursor[u] + 1 >= Len(owned[u]) THEN 0 ELSE cursor[u] + 1
      BY <2>2 DEF NextCursor
    <3> QED BY <2>1, <3>1 DEF Bound
  <2> QED BY <2>2
<1>3. \A u \in Supervisors : \A i \in 1 .. Len(owned[u]) :
        Waited(turns, owned[u][i], ToSet(owned[u]), Bound(d[u], Len(owned[u]), i))
  BY <1>2 DEF Waits
<1> QED BY <1>1, <1>3 DEF Waits

\* Who joins has waited for nothing, and nobody else waits less than before.
LEMMA JoinWaits ==
  ASSUME RobinInv, NEW t \in Threads, DoSpawn(t), NEW c, Reached(c), Waits(turns, owned, c)
  PROVE  Waits(turns', owned', c)
<1> DEFINE s == Op(t).at
           b == Fresh(Op(t).type)
           x == <<"new", b>>
<1>1. \/ Joins(s, b)
      \/ created' = created \cup {b} /\ cursor' = cursor /\ owned' = owned /\ turns' = turns
  BY SpawnJoins
<1> HIDE DEF s, b
<1>2. turns \in Seq(Entries)
  BY DEF RobinInv, TurnTypes
<1>3. CASE created' = created \cup {b} /\ cursor' = cursor /\ owned' = owned /\ turns' = turns
  BY <1>3
<1>4. CASE Joins(s, b)
  <2>1. x \in Entries /\ x[1] = "new" /\ x[2] = b
    BY <1>4, JoinEntry
  <2>2. \A j \in 1 .. Len(turns) : turns[j][2] # b
    BY <1>4, JoinEntry
  <2>3. \A u \in Supervisors : \A i \in 1 .. Len(owned[u]) : owned[u][i] # b
    BY <1>4, JoinEntry
  <2>4. turns' = Append(turns, x)
    BY <1>4 DEF Joins
  <2>5. owned' \in [Supervisors -> Seq(Actors)]
    BY <1>4, JoinEntry
  <2>6. \A u \in Supervisors :
          /\ Len(owned[u]) \in Nat
          /\ u # s => owned'[u] = owned[u]
          /\ u = s => /\ Len(owned'[u]) = Len(owned[u]) + 1 /\ owned'[u][Len(owned[u]) + 1] = b
                      /\ \A i \in 1 .. Len(owned[u]) : owned'[u][i] = owned[u][i]
    BY <1>4, JoinEntry
  <2> HIDE DEF x
  <2>7. ASSUME NEW u \in Supervisors, NEW i \in 1 .. Len(owned'[u])
         PROVE  Waited(turns', owned'[u][i], ToSet(owned'[u]), Bound(c[u], Len(owned'[u]), i))
    <3> DEFINE a == owned[u][i]
               O == ToSet(owned[u])
               n == Len(owned[u])
               m == Bound(c[u], n, i)
    <3>1. /\ n \in Nat /\ c[u] \in Nat /\ DOMAIN owned[u] = 1 .. n
          /\ n # 0 => c[u] <= n
          /\ n = 0 => c[u] <= 1
      BY ReachedType
    <3>2. CASE u # s
      <4>1. i \in 1 .. n /\ c[u] <= n /\ owned'[u] = owned[u]
        BY <2>6, <3>1, <3>2
      <4>2. Waited(turns, a, O, m) /\ m \in Nat /\ a # b
        BY <2>3, <3>1, <4>1, BoundNat DEF Waits
      <4> HIDE DEF a, O, m
      <4>3. Waited(Append(turns, x), a, O, m)
        BY <1>2, <2>1, <4>2, OtherEntry
      <4> QED BY <2>4, <4>1, <4>3 DEF a, O, m
    <3>3. CASE u = s
      <4>1. /\ Len(owned'[u]) = n + 1 /\ owned'[u][n + 1] = b
            /\ \A j \in 1 .. n : owned'[u][j] = owned[u][j]
            /\ owned'[u] \in Seq(Actors)
        BY <2>5, <2>6, <3>3
      <4>2. ToSet(owned'[u]) = O \cup {b}
        <5>1. DOMAIN owned'[u] = 1 .. (n + 1) /\ n + 1 \in 1 .. (n + 1)
          BY <3>1, <4>1
        <5>2. \A j \in 1 .. (n + 1) : j \in 1 .. n \/ j = n + 1
          BY <3>1
        <5>3. \A j \in 1 .. n : j \in 1 .. (n + 1)
          BY <3>1
        <5> HIDE DEF n
        <5>4. ASSUME NEW y \in ToSet(owned'[u]) PROVE y \in O \cup {b}
          <6>1. PICK j \in 1 .. (n + 1) : y = owned'[u][j]
            BY <5>1 DEF ToSet
          <6> QED BY <3>1, <4>1, <5>2, <6>1 DEF ToSet
        <5>5. ASSUME NEW y \in O \cup {b} PROVE y \in ToSet(owned'[u])
          <6>1. CASE y = b
            BY <4>1, <5>1, <6>1 DEF ToSet
          <6>2. CASE y \in O
            <7>1. PICK j \in 1 .. n : y = owned[u][j]
              BY <3>1, <6>2 DEF ToSet
            <7> QED BY <4>1, <5>1, <5>3, <7>1 DEF ToSet
          <6> QED BY <6>1, <6>2
        <5> QED BY <5>4, <5>5
      <4>3. c[u] <= n + 1 /\ n + 1 \in Nat
        BY <3>1
      <4>4. Bound(c[u], n + 1, i) \in Nat
        BY <3>1, <4>1, <4>3, BoundNat
      <4>5. CASE i = n + 1
        <5>1. owned'[u][i] = b
          BY <4>1, <4>5
        <5>2. Waited(Append(turns, x), b, O \cup {b}, Bound(c[u], n + 1, i))
          <6> HIDE DEF O, n
          <6> QED BY <1>2, <2>1, <4>4, OwnEntry
        <5> QED BY <2>4, <4>1, <4>2, <5>1, <5>2
      <4>6. CASE i # n + 1
        <5>1. i \in 1 .. n /\ c[u] <= n
          BY <3>1, <4>1, <4>6
        <5>2. Waited(turns, a, O, m) /\ m \in Nat /\ a # b /\ owned'[u][i] = a
          BY <2>3, <3>1, <4>1, <5>1, BoundNat DEF Waits
        <5>3. m <= Bound(c[u], n + 1, i)
          BY <3>1, <5>1 DEF Bound
        <5> DEFINE k == Bound(c[u], n + 1, i)
        <5> HIDE DEF a, O, m, n, k
        <5>4. Waited(turns, a, O \cup {b}, m)
          BY <1>2, <2>2, <5>2, TeamGrows
        <5>5. Waited(Append(turns, x), a, O \cup {b}, m)
          BY <1>2, <2>1, <5>2, <5>4, OtherEntry
        <5>6. Waited(Append(turns, x), a, O \cup {b}, k)
          BY <4>4, <5>2, <5>3, <5>5, WaitedMore DEF k
        <5> QED BY <2>4, <4>1, <4>2, <5>2, <5>6 DEF k
      <4> QED BY <4>5, <4>6
    <3> QED BY <3>2, <3>3
  <2> QED BY <2>7 DEF Waits
<1> QED BY <1>1, <1>3, <1>4

\* Nobody waits for as many tasks as there are actors.
LEMMA WaitsRound ==
  ASSUME RobinInv, NEW c, Reached(c), Waits(turns, owned, c)
  PROVE  TurnWithinRound
<1> SUFFICES ASSUME NEW s \in Supervisors, NEW a \in ToSet(owned[s])
             PROVE  LET last == CHOOSE i \in DOMAIN turns :
                          turns[i][2] = a /\ \A j \in i + 1 .. Len(turns) : turns[j][2] # a
                    IN  Cardinality({j \in last + 1 .. Len(turns) :
                              turns[j][1] = "task" /\ turns[j][2] \in ToSet(owned[s])})
                          < Len(owned[s])
  BY DEF TurnWithinRound
<1> DEFINE last == CHOOSE i \in DOMAIN turns :
                     turns[i][2] = a /\ \A j \in i + 1 .. Len(turns) : turns[j][2] # a
           n == Len(owned[s])
           O == ToSet(owned[s])
<1>1. /\ turns \in Seq(Entries) /\ DOMAIN turns = 1 .. Len(turns) /\ Len(turns) \in Nat
      /\ n \in Nat /\ DOMAIN owned[s] = 1 .. n /\ c[s] \in Nat
  BY ReachedType DEF RobinInv, TurnTypes
<1>2. PICK i \in 1 .. n : a = owned[s][i]
  BY <1>1 DEF ToSet
<1>3. c[s] <= n
  BY <1>1, <1>2, ReachedType
<1> DEFINE m == Bound(c[s], n, i)
<1>4. m \in Nat /\ m < n
  BY <1>1, <1>2, <1>3, BoundNat
<1>5. Waited(turns, a, O, m)
  BY <1>2 DEF Waits
<1> HIDE DEF m, O, n
<1>6. PICK k \in 1 .. Len(turns) : /\ IsLast(turns, a, k) /\ IsFiniteSet(TasksSince(turns, k, O))
                                   /\ Cardinality(TasksSince(turns, k, O)) <= m
  BY <1>5 DEF Waited
<1>7. IsLast(turns, a, last)
  BY <1>1, <1>6 DEF IsLast
<1> HIDE DEF last
<1>8. last = k
  <2>1. last \in 1 .. Len(turns) /\ k \in 1 .. Len(turns)
    BY <1>6, <1>7 DEF IsLast
  <2>2. ASSUME last < k PROVE FALSE
    <3>1. k \in last + 1 .. Len(turns)
      BY <1>1, <2>1, <2>2
    <3> QED BY <1>6, <1>7, <3>1 DEF IsLast
  <2>3. ASSUME k < last PROVE FALSE
    <3>1. last \in k + 1 .. Len(turns)
      BY <1>1, <2>1, <2>3
    <3> QED BY <1>6, <1>7, <3>1 DEF IsLast
  <2> QED BY <1>1, <2>1, <2>2, <2>3
<1>9. Cardinality(TasksSince(turns, last, O)) < n
  <2>1. Cardinality(TasksSince(turns, k, O)) \in Nat
    BY <1>6, FS_CardinalityType
  <2> QED BY <1>1, <1>4, <1>6, <1>8, <2>1
<1> QED BY <1>9 DEF TasksSince, last, O, n
=============================================================================
