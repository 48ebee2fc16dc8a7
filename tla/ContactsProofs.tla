--------------------------- MODULE ContactsProofs ---------------------------
(***************************************************************************)
(* What an object knows, and how it came to know it: every contact is an   *)
(* object that exists, filed under its type; sync meets the message that   *)
(* asked for the new object; and links are mutual.                         *)
(*                                                                         *)
(* The proofs follow the operations on the call stacks, from where they    *)
(* are pushed (Moves) to where they are done.                              *)
(***************************************************************************)
EXTENDS LinksProofs

-----------------------------------------------------------------------------
(* Where the operations on the stacks come from                             *)

\* The elements of a sequence, by position.
Elements(ops) == {ops[i] : i \in 1 .. Len(ops)}

\* u still has, or had, the operation op to do.
Has(u, op) == \E i \in 1 .. Len(stack[u]) : stack[u][i] = op

\* t takes its innermost operation and the ones in S are new.
Moves(t, S) ==
  /\ \A u \in Threads : \A op : Has(u, op)' => op \in S \/ Has(u, op)
  /\ \A u \in Threads : \A op : Has(u, op) => (u = t /\ op = Op(t)) \/ Has(u, op)'
  /\ \A op \in S : \E u \in Threads : Has(u, op)'

LEMMA MovesSame ==
  ASSUME NEW t, UNCHANGED stack
  PROVE  Moves(t, {})
BY DEF Moves, Has

LEMMA MovesBecomes ==
  ASSUME ControlInv, NEW t \in Threads, stack[t] # <<>>, NEW ops, IsSeq(ops), Becomes(t, ops)
  PROVE  Moves(t, Elements(ops))
<1>1. StackTypes /\ Replaces(t, ops)
  BY DEF ControlInv, Becomes
<1>2. \A u \in Threads : u # t => stack'[u] = stack[u]
  BY DEF Becomes
<1>3. stack[t][1] = Op(t)
  BY TopOp
<1>4. /\ Len(stack[t]) \in Nat \ {0}
      /\ \A i \in 1 .. Len(ops) : i \in 1 .. Len(stack'[t]) /\ stack'[t][i] = ops[i]
      /\ \A i \in 2 .. Len(stack[t]) : /\ Len(ops) + i - 1 \in 1 .. Len(stack'[t])
                                       /\ stack'[t][Len(ops) + i - 1] = stack[t][i]
      /\ \A j \in 1 .. Len(stack'[t]) :
           \/ j \in 1 .. Len(ops) /\ stack'[t][j] = ops[j]
           \/ /\ j - Len(ops) + 1 \in 2 .. Len(stack[t])
              /\ stack'[t][j] = stack[t][j - Len(ops) + 1]
  BY <1>1, Pushed
<1>5. \A i \in 1 .. Len(stack[t]) : i = 1 \/ i \in 2 .. Len(stack[t])
  BY <1>4
<1>6. \A i \in 2 .. Len(stack[t]) : i \in 1 .. Len(stack[t])
  BY <1>4
<1>7. \A op : Has(t, op)' => op \in Elements(ops) \/ Has(t, op)
  <2> SUFFICES ASSUME NEW j \in 1 .. Len(stack'[t])
               PROVE  stack'[t][j] \in Elements(ops) \/ Has(t, stack'[t][j])
    BY DEF Has
  <2> QED BY <1>4, <1>6 DEF Has, Elements
<1>8. \A op : Has(t, op) => op = Op(t) \/ Has(t, op)'
  <2> SUFFICES ASSUME NEW i \in 1 .. Len(stack[t])
               PROVE  stack[t][i] = Op(t) \/ \E j \in 1 .. Len(stack'[t]) : stack'[t][j] = stack[t][i]
    BY DEF Has
  <2>1. CASE i = 1
    BY <1>3, <2>1
  <2>2. CASE i \in 2 .. Len(stack[t])
    BY <1>4, <2>2
  <2> QED BY <1>5, <2>1, <2>2
<1>9. \A op \in Elements(ops) : Has(t, op)'
  BY <1>4 DEF Has, Elements
<1>10. \A u \in Threads : u # t => \A op : Has(u, op)' <=> Has(u, op)
  BY <1>2 DEF Has
<1> QED BY <1>7, <1>8, <1>9, <1>10 DEF Moves

LEMMA ElementsNone == Elements(<<>>) = {}
BY SeqEmpty DEF Elements

LEMMA ElementsOne ==
  ASSUME NEW op
  PROVE  Elements(<<op>>) = {op}
<1> DEFINE s == <<op>>
<1>1. Len(s) = 1 /\ s[1] = op
  BY SeqOne
<1> HIDE DEF s
<1>2. Elements(s) = {op}
  BY <1>1 DEF Elements
<1> QED BY <1>2 DEF s

LEMMA MovesNone ==
  ASSUME ControlInv, NEW t \in Threads, stack[t] # <<>>, Becomes(t, <<>>)
  PROVE  Moves(t, {})
BY SeqEmpty, MovesBecomes, ElementsNone

LEMMA MovesOne ==
  ASSUME ControlInv, NEW t \in Threads, stack[t] # <<>>, NEW op, Becomes(t, <<op>>)
  PROVE  Moves(t, {op})
<1>1. IsSeq(<<op>>)
  BY SeqOne
<1>2. Moves(t, Elements(<<op>>))
  BY <1>1, MovesBecomes
<1> QED BY <1>2, ElementsOne

LEMMA MovesRest ==
  ASSUME ControlInv, NEW t \in Threads, stack[t] # <<>>, Rest(t)
  PROVE  Moves(t, {})
<1>1. Then(t, <<>>)
  BY DEF Rest
<1>2. Becomes(t, <<>>)
  BY <1>1, ThenBecomes DEF ControlInv, StackTypes
<1> QED BY <1>2, MovesNone

LEMMA MovesConsume ==
  ASSUME ControlInv, NEW t \in Threads, stack[t] # <<>>, Consume(t)
  PROVE  Moves(t, {Exec(Op(t).at)})
<1>1. PICK op : op = Exec(Op(t).at)
  OBVIOUS
<1> DEFINE h == <<op>>
<1>2. /\ stack'[t] = h \o stack[t] /\ IsSeq(stack[t])
      /\ \A u \in Threads : u # t => stack'[u] = stack[u]
  BY <1>1, StackEffects DEF ControlInv, StackTypes
<1>3. IsSeq(h) /\ Len(h) = 1 /\ h[1] = op
  BY SeqOne
<1> HIDE DEF h
<1>4. Len(stack[t]) \in Nat
  BY <1>2, SeqLen
<1>5. /\ Len(stack'[t]) = Len(h) + Len(stack[t])
      /\ \A i \in 1 .. Len(h) : stack'[t][i] = h[i]
      /\ \A i \in 1 .. Len(stack[t]) : stack'[t][Len(h) + i] = stack[t][i]
  <2>1. IsSeq(h) /\ IsSeq(stack[t]) /\ stack'[t] = h \o stack[t]
    BY <1>2, <1>3
  <2> QED BY <2>1, SeqConcat
<1>6. /\ 1 \in 1 .. Len(stack'[t]) /\ stack'[t][1] = op
      /\ \A i \in 1 .. Len(stack[t]) : i + 1 \in 1 .. Len(stack'[t]) /\ stack'[t][i + 1] = stack[t][i]
      /\ \A j \in 1 .. Len(stack'[t]) : j = 1 \/ j - 1 \in 1 .. Len(stack[t])
  <2>1. Len(h) = 1 /\ Len(stack'[t]) = 1 + Len(stack[t])
    BY <1>3, <1>5
  <2>2. \A i \in 1 .. Len(stack[t]) : Len(h) + i = i + 1
    BY <1>4, <2>1
  <2>3. 1 \in 1 .. Len(h)
    BY <2>1
  <2>4. stack'[t][1] = op
    BY <1>3, <1>5, <2>3
  <2>5. \A i \in 1 .. Len(stack[t]) : stack'[t][i + 1] = stack[t][i]
    BY <1>5, <2>2
  <2> QED BY <1>4, <2>1, <2>4, <2>5
<1>7. \A j \in 1 .. Len(stack'[t]) : stack'[t][j] = op \/ Has(t, stack'[t][j])
  <2> TAKE j \in 1 .. Len(stack'[t])
  <2>1. CASE j = 1
    BY <1>6, <2>1
  <2>2. CASE j - 1 \in 1 .. Len(stack[t])
    <3>1. (j - 1) + 1 = j
      BY <1>4, <1>5, <1>3
    <3>2. stack'[t][j] = stack[t][j - 1]
      BY <1>6, <2>2, <3>1
    <3> QED BY <2>2, <3>2 DEF Has
  <2> QED BY <1>6, <2>1, <2>2
<1>8. \A o : Has(t, o)' => o \in {op} \/ Has(t, o)
  BY <1>7 DEF Has
<1>9. \A o : Has(t, o) => Has(t, o)'
  BY <1>6 DEF Has
<1>10. Has(t, op)'
  BY <1>6 DEF Has
<1>11. \A u \in Threads : u # t => \A o : Has(u, o)' <=> Has(u, o)
  BY <1>2 DEF Has
<1> QED BY <1>1, <1>8, <1>9, <1>10, <1>11 DEF Moves

LEMMA MovesPost ==
  ASSUME ControlInv, NEW t \in Threads, stack[t] # <<>>, NEW a \in Actors, NEW ops,
         PostOps(t, a, ops), Becomes(t, ops)
  PROVE  /\ Moves(t, Elements(ops))
         /\ \A op \in Elements(ops) : \/ op.k = "wake" /\ op.at = a
                                      \/ op.k = "turn" /\ op.at = Op(t).to
<1>1. IsSeq(ops)
  BY PostForm DEF PlainOps
<1>2. \A i \in 1 .. Len(ops) : \/ i = 1 /\ ops[i].k = "wake" /\ ops[i].at = a
                               \/ i = 2 /\ ops[i].k = "turn" /\ ops[i].at = Op(t).to
  BY PostForm
<1>3. Moves(t, Elements(ops))
  BY <1>1, MovesBecomes
<1> QED BY <1>2, <1>3 DEF Elements

LEMMA MovesLook ==
  ASSUME ControlInv, NEW t \in Threads, stack[t] # <<>>, LookStep(t)
  PROVE  Moves(t, {RunOver(Op(t).at)})
<1>1. PICK op : op = RunOver(Op(t).at)
  OBVIOUS
<1>2. Becomes(t, <<op>>)
  BY <1>1 DEF LookStep
<1> QED BY <1>1, <1>2, MovesOne

LEMMA MovesSchedule ==
  ASSUME ControlInv, NEW t \in Threads, stack[t] # <<>>, NEW a \in Actors, DeliverStack(t, a)
  PROVE  Moves(t, {}) \/ Moves(t, {Run(a)})
<1>1. CASE a \in running /\ Becomes(t, <<>>)
  BY <1>1, MovesNone
<1>2. CASE a \notin running /\ Inline[program] /\ Becomes(t, <<Run(a)>>)
  BY <1>2, MovesOne
<1>3. CASE /\ a # t /\ stack[a] = <<>>
           /\ stack'[t] = Tail(stack[t]) /\ stack'[a] = <<Run(a)>>
           /\ \A u \in Threads : u \notin {t, a} => stack'[u] = stack[u]
  <2>1. /\ Len(stack[t]) \in Nat \ {0} /\ Len(Tail(stack[t])) = Len(stack[t]) - 1
        /\ \A i \in 1 .. Len(stack[t]) - 1 : Tail(stack[t])[i] = stack[t][i + 1]
    BY SeqTail DEF ControlInv, StackTypes
  <2>2. stack[t][1] = Op(t)
    BY TopOp
  <2>3. \A op : Has(t, op)' => Has(t, op)
    <3> SUFFICES ASSUME NEW j \in 1 .. Len(stack'[t])
                 PROVE  Has(t, stack'[t][j])
      BY DEF Has
    <3>1. j + 1 \in 1 .. Len(stack[t]) /\ stack'[t][j] = stack[t][j + 1]
      BY <1>3, <2>1
    <3> QED BY <3>1 DEF Has
  <2>4. \A op : Has(t, op) => op = Op(t) \/ Has(t, op)'
    <3> SUFFICES ASSUME NEW i \in 1 .. Len(stack[t]), i # 1
                 PROVE  \E j \in 1 .. Len(stack'[t]) : stack'[t][j] = stack[t][i]
      BY <2>2 DEF Has
    <3>1. i - 1 \in 1 .. Len(stack[t]) - 1 /\ (i - 1) + 1 = i
      BY <2>1
    <3>2. i - 1 \in 1 .. Len(stack'[t]) /\ stack'[t][i - 1] = stack[t][i]
      BY <1>3, <2>1, <3>1
    <3> QED BY <3>2
  <2>5. \A op : ~Has(a, op)
    BY <1>3, SeqEmpty DEF Has
  <2>6. \A op : Has(a, op)' <=> op = Run(a)
    <3>1. \A op : Has(a, op)' <=> op \in Elements(<<Run(a)>>)
      BY <1>3 DEF Has, Elements
    <3> QED BY <3>1, ElementsOne
  <2>7. \A u \in Threads : u \notin {t, a} => \A op : Has(u, op)' <=> Has(u, op)
    BY <1>3 DEF Has
  <2>8. a \in Threads
    BY DEF Threads
  <2> QED BY <2>3, <2>4, <2>5, <2>6, <2>7, <2>8 DEF Moves
<1> QED BY <1>1, <1>2, <1>3 DEF DeliverStack

LEMMA MovesCall ==
  ASSUME ControlInv, Call
  PROVE  \E call \in script[1] :
           1 \in 1 .. Len(script) /\ OnlyCalls(call) /\ Moves(Main, Elements(call))
<1>1. stack[Main] = <<>> /\ DOMAIN stack = Threads /\ Main \in Threads
  BY DEF Call, ControlInv, StackTypes, Threads
<1>2. PICK call \in Head(script) : stack' = [stack EXCEPT ![Main] = call]
  BY DEF Call
<1>3. Head(script) = script[1] /\ 1 \in 1 .. Len(script)
  BY SeqTail DEF Call, ControlInv, StackTypes
<1>4. OnlyCalls(call)
  BY <1>3 DEF ControlInv, StackTypes
<1>5. stack'[Main] = call /\ \A u \in Threads : u # Main => stack'[u] = stack[u]
  BY <1>1, <1>2
<1>6. \A op : ~Has(Main, op) /\ (Has(Main, op)' <=> op \in Elements(call))
  BY <1>1, <1>5, SeqEmpty DEF Has, Elements
<1>7. \A u \in Threads : u # Main => \A op : Has(u, op)' <=> Has(u, op)
  BY <1>5 DEF Has
<1>8. Moves(Main, Elements(call))
  BY <1>1, <1>6, <1>7 DEF Moves
<1> QED BY <1>3, <1>4, <1>8

-----------------------------------------------------------------------------
(* Every contact is an object, of the type it is filed under                *)

\* What a program owes: it sends to, gives as a sender and asks to spawn only
\* objects it has constructed.  address_t holds a raw pointer, which contacts and
\* messages copy and no one tests but for null.
CallsLive ==
  \A t \in Threads : stack[t] # <<>> =>
    /\ Op(t).k = "send" => /\ Op(t).to \in created \cup {NoAddress}
                           /\ Op(t).msg.sender \in created \cup {NoAddress}
    /\ Op(t).k = "spawn" => Op(t).at \in created

\* What n may have for contacts.
Held(n, c) ==
  \A T \in DOMAIN c : \A i \in 1 .. Len(c[T]) :
    c[T][i] \in created \ {n} /\ TypeOf[c[T][i]] = T /\ (n \in Actors => i = 1)
HeldOK == \A n \in Nodes : Held(n, contacts[n])

\* Messages under way come from objects that exist ...
SendersOK ==
  /\ \A n \in Nodes : current[n].sender \in created \cup {NoAddress}
  /\ \A a \in Actors : \A i \in 1 .. Len(inbox[a]) : inbox[a][i].sender \in created \cup {NoAddress}

\* ... an object that sync is to file, or enqueue to schedule, exists ...
Known(op) == (op.k = "know" => op.new \in created) /\ (op.k = "wake" => op.at \in created)
KnownOK == \A t \in Threads : \A op : Has(t, op) => Known(op)

\* ... and so does an actor that runs.
BusyOK == running \subseteq created

ContactsInv == HeldOK /\ SendersOK /\ KnownOK /\ BusyOK

LEMMA HeldGrows ==
  ASSUME NEW n, NEW c, Held(n, c), created \subseteq created'
  PROVE  Held(n, c)'
BY DEF Held

LEMMA HeldFile ==
  ASSUME BooksOK, HeldOK, NEW n \in Nodes, NEW a \in created, a # n, created \subseteq created'
  PROVE  \A T \in DOMAIN Acquainted(n, a) : \A i \in 1 .. Len(Acquainted(n, a)[T]) :
           /\ Acquainted(n, a)[T][i] \in created' \ {n} /\ TypeOf[Acquainted(n, a)[T][i]] = T
           /\ n \in Actors => i = 1
<1> DEFINE c == Acquainted(n, a)
           Fine(T, x) == x \in created' \ {n} /\ TypeOf[x] = T
<1>1. /\ \A T : T # TypeOf[a] => BookIn(c, T) = Book(n, T)
      /\ BookIn(c, TypeOf[a]) = IF n \in Actors /\ Book(n, TypeOf[a]) # <<>>
                                THEN Book(n, TypeOf[a]) ELSE Append(Book(n, TypeOf[a]), a)
  BY AcquaintedBooks
<1>2. \A T : IsSeq(Book(n, T)) /\ Len(Book(n, T)) \in Nat
  <2> TAKE T
  <2>1. IsSeq(Book(n, T))
    BY SeqEmpty DEF BooksOK, Book
  <2> QED BY <2>1, SeqLen
<1>3. \A T : \A i \in 1 .. Len(Book(n, T)) : Fine(T, Book(n, T)[i]) /\ (n \in Actors => i = 1)
  <2> TAKE T
  <2>1. CASE T \in DOMAIN contacts[n]
    BY <2>1 DEF HeldOK, Held, Book
  <2>2. CASE T \notin DOMAIN contacts[n]
    BY <2>2, SeqEmpty DEF Book
  <2> QED BY <2>1, <2>2
<1> SUFFICES ASSUME NEW T \in DOMAIN c, NEW i \in 1 .. Len(c[T])
             PROVE  Fine(T, c[T][i]) /\ (n \in Actors => i = 1)
  OBVIOUS
<1>4. c[T] = BookIn(c, T)
  BY DEF BookIn
<1> HIDE DEF c
<1>5. CASE c[T] = Book(n, T)
  BY <1>3, <1>5
<1>6. CASE T = TypeOf[a] /\ c[T] = Append(Book(n, T), a) /\ (n \in Actors => Book(n, T) = <<>>)
  <2> DEFINE b == Book(n, T)
  <2>1. IsSeq(b) /\ Len(b) \in Nat
    BY <1>2
  <2>2. /\ Len(c[T]) = Len(b) + 1 /\ c[T][Len(b) + 1] = a
        /\ \A j \in 1 .. Len(b) : c[T][j] = b[j]
    BY <1>6, <2>1, SeqAppend
  <2>3. n \in Actors => Len(b) = 0
    BY <1>6, SeqEmpty
  <2>4. \A j \in 1 .. Len(b) : Fine(T, b[j])
    BY <1>3
  <2>5. Fine(T, a)
    BY <1>6
  <2> HIDE DEF b, Fine
  <2>6. i \in 1 .. Len(b) \/ i = Len(b) + 1
    BY <2>1, <2>2
  <2>7. Fine(T, c[T][i])
    BY <2>2, <2>4, <2>5, <2>6
  <2>8. n \in Actors => i = 1
    BY <2>1, <2>2, <2>3
  <2> QED BY <2>7, <2>8
<1> QED BY <1>1, <1>4, <1>5, <1>6

LEMMA HeldOne ==
  ASSUME HeldOK, BooksOK, created \subseteq created', NEW n \in Nodes, NEW c,
         contacts' = [contacts EXCEPT ![n] = c], Held(n, c)'
  PROVE  HeldOK'
<1>1. /\ contacts'[n] = c
      /\ \A m \in Nodes : m # n => contacts'[m] = contacts[m]
  BY DEF BooksOK
<1>2. ASSUME NEW m \in Nodes
      PROVE  Held(m, contacts[m])'
  <2>1. CASE m = n
    BY <1>1, <2>1 DEF Held
  <2>2. CASE m # n
    <3>1. Held(m, contacts[m])
      BY DEF HeldOK
    <3> QED BY <1>1, <2>2, <3>1 DEF Held
  <2> QED BY <2>1, <2>2
<1> QED BY <1>2 DEF HeldOK

LEMMA HeldFiles ==
  ASSUME HeldOK, BooksOK, created \subseteq created', NEW n \in Nodes, NEW a \in created, Files(n, a)
  PROVE  HeldOK'
<1>1. CASE a = n
  BY <1>1 DEF Files, HeldOK, Held
<1>2. CASE a # n
  <2>1. PICK c : c = Acquainted(n, a)
    OBVIOUS
  <2>2. contacts' = [contacts EXCEPT ![n] = c]
    BY <1>2, <2>1 DEF Files
  <2>3. Held(n, c)'
    BY <1>2, <2>1, HeldFile DEF Held
  <2> QED BY <2>2, <2>3, HeldOne
<1> QED BY <1>1, <1>2

LEMMA HeldForgets ==
  ASSUME HeldOK, BooksOK, created \subseteq created', NEW n \in Nodes, NEW a, NEW c,
         Forgets(n, a, c), contacts' = [contacts EXCEPT ![n] = c]
  PROVE  HeldOK'
<1>1. Held(n, contacts[n])
  BY DEF HeldOK
<1>2. ASSUME NEW T \in DOMAIN c, NEW i \in 1 .. Len(c[T])
      PROVE  c[T][i] \in created \ {n} /\ TypeOf[c[T][i]] = T /\ (n \in Actors => i = 1)
  <2>1. T \in DOMAIN contacts[n]
    BY DEF Forgets
  <2>2. CASE T # TypeOf[a]
    BY <1>1, <2>1, <2>2 DEF Forgets, Held
  <2>3. CASE T = TypeOf[a]
    <3>1. n \notin Actors /\ \E j \in 1 .. Len(contacts[n][T]) : c[T][i] = contacts[n][T][j]
      BY <2>3 DEF Forgets
    <3> QED BY <1>1, <2>1, <3>1 DEF Held
  <2> QED BY <2>2, <2>3
<1>3. Held(n, c)'
  BY <1>2 DEF Held
<1> QED BY <1>3, HeldOne

LEMMA KnownMoves ==
  ASSUME KnownOK, created \subseteq created', NEW t, NEW S, Moves(t, S),
         \A op \in S : Known(op)'
  PROVE  KnownOK'
BY DEF KnownOK, Known, Moves

LEMMA SendersSame ==
  ASSUME SendersOK, created \subseteq created', UNCHANGED <<current, inbox>>
  PROVE  SendersOK'
BY DEF SendersOK

LEMMA HeldSame ==
  ASSUME HeldOK, created \subseteq created', UNCHANGED contacts
  PROVE  HeldOK'
BY DEF HeldOK, Held

LEMMA BusySame ==
  ASSUME BusyOK, created \subseteq created', running' \subseteq running
  PROVE  BusyOK'
BY DEF BusyOK

LEMMA SpawnElements ==
  ASSUME NEW s \in Supervisors, NEW new, NEW op \in Elements(SpawnOps(s, new))
  PROVE  \/ op = [k |-> "know", at |-> s, new |-> new]
         \/ op = Send(new, Msg(s, "add_link", <<>>))
         \/ op = [k |-> "sync", at |-> s, new |-> new, cause |-> current[s]]
         \/ op.k = "cast" /\ op.at = s /\ op.msg.cmd = "spawn_broadcast"
<1> DEFINE ops == SpawnOps(s, new)
           N == Len(ops)
<1>1. PICK i \in 1 .. N : op = ops[i]
  BY DEF Elements
<1>2. /\ N \in {3, 4}
      /\ N = 4 => ops[1].k = "cast" /\ ops[1].at = s /\ ops[1].msg.cmd = "spawn_broadcast"
      /\ ops[N - 2] = [k |-> "know", at |-> s, new |-> new]
      /\ ops[N - 1] = Send(new, Msg(s, "add_link", <<>>))
      /\ ops[N] = [k |-> "sync", at |-> s, new |-> new, cause |-> current[s]]
  BY SpawnForm
<1> HIDE DEF ops
<1>3. i = N - 2 \/ i = N - 1 \/ i = N \/ (i = 1 /\ N = 4)
  BY <1>2
<1> QED BY <1>1, <1>2, <1>3

LEMMA ContactsStep ==
  ASSUME FormInv, ContactsInv, CallsLive, HandlersOnlyCall, NEW t \in Threads, Step(t)
  PROVE  ContactsInv'
<1>1. ControlInv /\ DataTypes /\ BooksOK /\ RobinInv
  BY DEF FormInv
<1>2. HeldOK /\ SendersOK /\ KnownOK /\ BusyOK
  BY DEF ContactsInv
<1>3. stack[t] # <<>>
  BY <1>1, StepCases
<1>4. created \subseteq created'
  BY <1>1, CreatedStep
<1>5. CASE HaltStep
  <2>1. UNCHANGED <<stack, contacts, current, inbox, running>>
    BY <1>5 DEF HaltStep, books
  <2>2. Moves(t, {})
    BY <2>1, MovesSame
  <2> QED BY <1>2, <1>4, <2>1, <2>2, KnownMoves, SendersSame, HeldSame, BusySame DEF ContactsInv
<1>6. CASE CallStep(t)
  <2>1. UNCHANGED <<contacts, current, inbox, running>>
    BY <1>6 DEF CallStep
  <2>2. PICK ops : CallOps(ops) /\ Becomes(t, ops)
    BY <1>6 DEF CallStep
  <2>3. Moves(t, Elements(ops)) /\ \A op \in Elements(ops) : Known(op)'
    BY <1>1, <1>3, <2>2, MovesBecomes DEF CallOps, CallOp, Elements, Known
  <2> QED BY <1>2, <1>4, <2>1, <2>3, KnownMoves, SendersSame, HeldSame, BusySame DEF ContactsInv
<1>7. CASE SpawnStep(t)
  <2>1. UNCHANGED <<contacts, current, inbox, running>> /\ Op(t).k = "spawn"
    BY <1>7 DEF SpawnStep
  <2>2. PICK new \in Nodes : created' = created \cup {new} /\ Becomes(t, SpawnOps(Op(t).at, new))
    BY <1>7 DEF SpawnStep
  <2>3. PICK s \in Supervisors : s = Op(t).at
    BY <1>1, <1>3, <2>1, TopOp DEF SupervisorKinds
  <2>4. PICK ops : ops = SpawnOps(s, new)
    OBVIOUS
  <2>5. IsSeq(ops) /\ Becomes(t, ops)
    BY <2>2, <2>3, <2>4, SpawnPlain DEF PlainOps
  <2>6. Moves(t, Elements(ops))
    BY <1>1, <1>3, <2>5, MovesBecomes
  <2>7. \A op \in Elements(ops) : Known(op)'
    <3>1. \A op \in Elements(ops) : (op.k = "know" => op.new = new) /\ op.k # "wake"
      BY <2>4, SpawnElements DEF Send
    <3> QED BY <2>2, <3>1 DEF Known
  <2> QED BY <1>2, <1>4, <2>1, <2>2, <2>6, <2>7, KnownMoves, SendersSame, HeldSame, BusySame DEF ContactsInv
<1>8. CASE FileStep(t) \/ RemoveStep(t)
  <2>1. /\ UNCHANGED <<inbox, running>> /\ Becomes(t, <<>>) /\ Op(t).k = "exec"
        /\ current' \in {current, Emptied(Op(t).at)}
    BY <1>8 DEF FileStep, RemoveStep
  <2>2. Moves(t, {})
    BY <1>1, <1>3, <2>1, MovesNone
  <2>3. PICK n \in Nodes : n = Op(t).at
    BY <1>1, <1>3, <2>1, TopOp
  <2>4. PICK a : a = current[n].sender
    OBVIOUS
  <2>5. a \in created \cup {NoAddress}
    BY <1>2, <2>4 DEF SendersOK
  <2>6. HeldOK'
    <3>1. CASE FileStep(t)
      <4>1. Files(n, a)
        BY <2>3, <2>4, <3>1 DEF FileStep
      <4>2. a \in created
        BY <2>3, <2>4, <2>5, <3>1 DEF FileStep
      <4> QED BY <1>1, <1>2, <1>4, <4>1, <4>2, HeldFiles
    <3>2. CASE RemoveStep(t)
      <4>1. PICK c : Forgets(n, a, c) /\ contacts' = [contacts EXCEPT ![n] = c]
        BY <2>3, <2>4, <3>2 DEF RemoveStep
      <4> QED BY <1>1, <1>2, <1>4, <4>1, HeldForgets
    <3> QED BY <1>8, <3>1, <3>2
  <2>7. SendersOK'
    <3>1. \A m \in Nodes : current'[m] = current[m] \/ current'[m].sender = NoAddress
      BY <1>1, <2>1, <2>3 DEF Emptied, Msg, DataTypes
    <3> QED BY <1>2, <1>4, <2>1, <3>1 DEF SendersOK
  <2> QED BY <1>2, <1>4, <2>1, <2>2, <2>6, <2>7, KnownMoves, BusySame DEF ContactsInv
<1>9. CASE KnowStep(t)
  <2>1. /\ UNCHANGED <<current, inbox, running>> /\ Becomes(t, <<>>) /\ Op(t).k = "know"
        /\ Files(Op(t).at, Op(t).new)
    BY <1>9 DEF KnowStep
  <2>2. Moves(t, {})
    BY <1>1, <1>3, <2>1, MovesNone
  <2>3. PICK n \in Nodes : n = Op(t).at
    BY <1>1, <1>3, <2>1, TopOp DEF SupervisorKinds, Nodes
  <2>4. Op(t).new \in created
    <3>1. Has(t, Op(t))
      BY <1>1, <1>3, TopOp DEF Has
    <3> QED BY <1>2, <2>1, <3>1 DEF KnownOK, Known
  <2>5. HeldOK'
    <3>1. PICK a \in created : a = Op(t).new
      BY <2>4
    <3> QED BY <1>1, <1>2, <1>4, <2>1, <2>3, <3>1, HeldFiles
  <2> QED BY <1>2, <1>4, <2>1, <2>2, <2>5, KnownMoves, SendersSame, BusySame DEF ContactsInv
<1>10. CASE SendToSupervisor(t)
  <2>1. /\ Becomes(t, <<Exec(Op(t).to)>>) /\ Op(t).k = "send" /\ Op(t).to \in Nodes
        /\ current' = [current EXCEPT ![Op(t).to] = Op(t).msg]
        /\ UNCHANGED <<contacts, inbox, running>>
    BY <1>1, <1>10, SupervisorEffect DEF Nodes, books
  <2>2. PICK op : op = Exec(Op(t).to)
    OBVIOUS
  <2>3. op.k = "exec" /\ Moves(t, {op})
    BY <1>1, <1>3, <2>1, <2>2, MovesOne DEF Exec
  <2>4. Op(t).msg.sender \in created \cup {NoAddress}
    BY <1>3, <2>1 DEF CallsLive
  <2>5. \A n \in Nodes : current'[n] = current[n] \/ current'[n] = Op(t).msg
    BY <1>1, <2>1 DEF DataTypes
  <2>6. SendersOK'
    BY <1>2, <1>4, <2>1, <2>4, <2>5 DEF SendersOK
  <2>7. KnownOK'
    <3>1. \A o \in {op} : Known(o)'
      BY <2>3 DEF Known
    <3> QED BY <1>2, <1>4, <2>3, <3>1, KnownMoves
  <2> QED BY <1>2, <1>4, <2>1, <2>6, <2>7, HeldSame, BusySame DEF ContactsInv
<1>11. CASE PostStep(t)
  <2>1. PICK a \in Actors : /\ Post(a, Op(t).msg) /\ Receives(t, a) /\ Op(t).k = "send"
                            /\ \E ops : PostOps(t, a, ops) /\ Becomes(t, ops)
                            /\ UNCHANGED <<contacts, current, running>>
    BY <1>11 DEF PostStep, books
  <2>2. inbox' = [inbox EXCEPT ![a] = Append(@, Op(t).msg)]
    BY <2>1 DEF Post
  <2>3. /\ Op(t).msg.sender \in created \cup {NoAddress} /\ Op(t).to \in created \cup {NoAddress}
    BY <1>3, <2>1 DEF CallsLive
  <2>4. a \in created
    <3>1. a # NoAddress
      BY NodesAssumption DEF Nodes
    <3> QED BY <2>1, <2>3, <3>1 DEF Receives
  <2>5. BusyOK'
    BY <1>2, <1>4, <2>1, BusySame
  <2>6. PICK msg : msg = Op(t).msg
    OBVIOUS
  <2>7. /\ IsSeq(inbox[a]) /\ inbox'[a] = Append(inbox[a], msg)
        /\ \A b \in Actors : b # a => inbox'[b] = inbox[b]
    BY <1>1, <2>2, <2>6 DEF DataTypes
  <2>8. \A i \in 1 .. Len(inbox'[a]) : (i \in 1 .. Len(inbox[a]) /\ inbox'[a][i] = inbox[a][i]) \/ inbox'[a][i] = msg
    <3> DEFINE q == inbox[a]
    <3>1. IsSeq(q) /\ inbox'[a] = Append(q, msg)
      BY <2>7
    <3> HIDE DEF q
    <3>2. /\ Len(inbox'[a]) = Len(q) + 1 /\ inbox'[a][Len(q) + 1] = msg /\ Len(q) \in Nat
          /\ \A i \in 1 .. Len(q) : inbox'[a][i] = q[i]
      BY <3>1, SeqAppend, SeqLen
    <3>3. \A i \in 1 .. Len(inbox'[a]) : i \in 1 .. Len(q) \/ i = Len(q) + 1
      BY <3>2
    <3> QED BY <3>2, <3>3 DEF q
  <2>9. SendersOK'
    BY <1>2, <1>4, <2>1, <2>3, <2>6, <2>7, <2>8 DEF SendersOK
  <2>10. KnownOK'
    <3>1. PICK ops : PostOps(t, a, ops) /\ Becomes(t, ops)
      BY <2>1
    <3>2. /\ Moves(t, Elements(ops))
          /\ \A op \in Elements(ops) : (op.k = "wake" /\ op.at = a) \/ op.k = "turn"
      BY <1>1, <1>3, <3>1, MovesPost
    <3>3. \A op \in Elements(ops) : Known(op)'
      BY <1>4, <2>4, <3>2 DEF Known
    <3> QED BY <1>2, <1>4, <3>2, <3>3, KnownMoves
  <2> QED BY <1>2, <1>4, <2>1, <2>5, <2>9, <2>10, HeldSame DEF ContactsInv
<1>12. CASE Consume(t)
  <2>1. PICK a : a = Op(t).at
    OBVIOUS
  <2>2. /\ Op(t).k = "run" /\ inbox[a] # <<>> /\ UNCHANGED <<contacts, running>>
        /\ current' = [current EXCEPT ![a] = Head(inbox[a])]
        /\ inbox' = [inbox EXCEPT ![a] = Tail(@)]
    BY <1>12, <2>1 DEF Consume, At, Op, books
  <2>3. a \in Actors /\ a \in Nodes
    BY <1>1, <1>3, <2>1, <2>2, TopOp DEF Nodes
  <2>4. /\ inbox'[a] = Tail(inbox[a]) /\ IsSeq(inbox[a])
        /\ \A b \in Actors : b # a => inbox'[b] = inbox[b]
        /\ \A n \in Nodes : current'[n] = current[n] \/ current'[n] = Head(inbox[a])
    BY <1>1, <2>2, <2>3 DEF DataTypes
  <2>5. /\ Len(inbox[a]) \in Nat \ {0} /\ Head(inbox[a]) = inbox[a][1]
        /\ Len(Tail(inbox[a])) = Len(inbox[a]) - 1
        /\ \A i \in 1 .. Len(inbox[a]) - 1 : Tail(inbox[a])[i] = inbox[a][i + 1]
    BY <2>2, <2>4, SeqTail
  <2>6. /\ 1 \in 1 .. Len(inbox[a])
        /\ \A i \in 1 .. Len(inbox'[a]) : i + 1 \in 1 .. Len(inbox[a]) /\ inbox'[a][i] = inbox[a][i + 1]
    BY <2>4, <2>5
  <2>7. SendersOK'
    <3> DEFINE Live(m) == m.sender \in created \cup {NoAddress}
    <3>1. /\ \A n \in Nodes : Live(current[n])
          /\ \A b \in Actors : \A i \in 1 .. Len(inbox[b]) : Live(inbox[b][i])
      BY <1>2 DEF SendersOK
    <3>2. Live(Head(inbox[a]))
      <4>1. Live(inbox[a][1])
        BY <2>3, <2>6, <3>1
      <4> QED BY <2>5, <4>1
    <3>3. \A n \in Nodes : Live(current'[n])
      <4> HIDE DEF Live
      <4> QED BY <2>4, <3>1, <3>2
    <3>4. \A b \in Actors : \A i \in 1 .. Len(inbox'[b]) : Live(inbox'[b][i])
      <4> HIDE DEF Live
      <4> TAKE b \in Actors
      <4>1. CASE b = a
        BY <2>3, <2>6, <3>1, <4>1
      <4>2. CASE b # a
        BY <2>4, <3>1, <4>2
      <4> QED BY <4>1, <4>2
    <3> QED BY <1>4, <3>3, <3>4 DEF SendersOK
  <2>8. KnownOK'
    <3>1. PICK op : op = Exec(Op(t).at)
      OBVIOUS
    <3>2. \A o \in {op} : Known(o)'
      BY <3>1 DEF Exec, Known
    <3>3. Moves(t, {op})
      BY <1>1, <1>3, <1>12, <3>1, MovesConsume
    <3> QED BY <1>2, <1>4, <3>2, <3>3, KnownMoves
  <2> QED BY <1>2, <1>4, <2>2, <2>7, <2>8, HeldSame, BusySame DEF ContactsInv
<1>13. CASE Rest(t)
  <2>1. UNCHANGED <<contacts, current, inbox>> /\ running' \subseteq running
    BY <1>13 DEF Rest, books
  <2>2. Moves(t, {})
    BY <1>1, <1>3, <1>13, MovesRest
  <2> QED BY <1>2, <1>4, <2>1, <2>2, KnownMoves, SendersSame, HeldSame, BusySame DEF ContactsInv
<1>14. CASE ScheduleStep(t)
  <2>1. /\ Op(t).k = "wake" /\ Op(t).at \in Actors /\ DeliverStack(t, Op(t).at)
        /\ running' = running \cup {Op(t).at} /\ UNCHANGED <<contacts, current, inbox>>
    BY <1>14 DEF ScheduleStep, books
  <2>2. Op(t).at \in created
    <3>1. Has(t, Op(t))
      BY <1>1, <1>3, TopOp DEF Has
    <3> QED BY <1>2, <2>1, <3>1 DEF KnownOK, Known
  <2>3. BusyOK'
    BY <1>2, <1>4, <2>1, <2>2 DEF BusyOK
  <2>4. PICK op : op = Run(Op(t).at)
    OBVIOUS
  <2>5. \A o \in {op} : Known(o)'
    BY <2>4 DEF Run, Known
  <2>6. Moves(t, {}) \/ Moves(t, {op})
    BY <1>1, <1>3, <2>1, <2>4, MovesSchedule
  <2>7. KnownOK'
    BY <1>2, <1>4, <2>5, <2>6, KnownMoves
  <2> QED BY <1>2, <1>4, <2>1, <2>3, <2>7, SendersSame, HeldSame DEF ContactsInv
<1>15. CASE LookStep(t)
  <2>1. UNCHANGED <<contacts, current, inbox, running>>
    BY <1>15 DEF LookStep, books
  <2>2. PICK op : op = RunOver(Op(t).at)
    OBVIOUS
  <2>3. \A o \in {op} : Known(o)'
    BY <2>2 DEF RunOver, Known
  <2>4. Moves(t, {op})
    BY <1>1, <1>3, <1>15, <2>2, MovesLook
  <2>5. KnownOK'
    BY <1>2, <1>4, <2>3, <2>4, KnownMoves
  <2> QED BY <1>2, <1>4, <2>1, <2>5, SendersSame, HeldSame, BusySame DEF ContactsInv
<1> QED BY <1>1, <1>5, <1>6, <1>7, <1>8, <1>9, <1>10, <1>11, <1>12, <1>13, <1>14, <1>15, StepCases

LEMMA ContactsNext ==
  ASSUME FormInv, ContactsInv, CallsLive, HandlersOnlyCall, [Next]_vars
  PROVE  ContactsInv'
<1>1. CASE UNCHANGED vars
  BY <1>1 DEF vars, books, ContactsInv, HeldOK, Held, SendersOK, KnownOK, Known, Has, BusyOK
<1>2. CASE Call
  <2>1. UNCHANGED <<created, contacts, current, inbox, running>>
    BY <1>2 DEF Call, books
  <2>2. PICK call : OnlyCalls(call) /\ Moves(Main, Elements(call))
    BY <1>2, MovesCall DEF FormInv
  <2>3. \A op \in Elements(call) : Known(op)'
    BY <2>2 DEF OnlyCalls, CallKinds, Elements, Known
  <2> QED BY <2>1, <2>2, <2>3, KnownMoves, SendersSame, HeldSame, BusySame DEF ContactsInv
<1> QED BY <1>1, <1>2, ContactsStep DEF Next

LEMMA ContactsInit ==
  ASSUME Init
  PROVE  ContactsInv
<1>1. /\ stack = [t \in Threads |-> <<>>] /\ contacts = [n \in Nodes |-> <<>>]
      /\ current = [n \in Nodes |-> Msg(NoAddress, "", <<>>)]
      /\ inbox = [a \in Actors |-> <<>>] /\ running = {}
  BY DEF Init
<1>2. Len(<<>>) = 0 /\ DOMAIN <<>> = {}
  BY SeqEmpty, SeqLen
<1>3. HeldOK
  <2>1. \A n \in Nodes : contacts[n] = <<>>
    BY <1>1
  <2>2. \A n \in Nodes : DOMAIN contacts[n] = {}
    BY <1>2, <2>1
  <2> QED BY <2>2 DEF HeldOK, Held
<1>4. SendersOK
  <2>1. \A n \in Nodes : current[n].sender = NoAddress
    BY <1>1 DEF Msg
  <2>2. \A a \in Actors : Len(inbox[a]) = 0
    BY <1>1, <1>2
  <2> QED BY <2>1, <2>2 DEF SendersOK
<1>5. KnownOK
  <2>1. \A t \in Threads : Len(stack[t]) = 0
    BY <1>1, <1>2
  <2> QED BY <2>1 DEF KnownOK, Has
<1> QED BY <1>1, <1>3, <1>4, <1>5 DEF ContactsInv, BusyOK

LEMMA ContactsType ==
  ASSUME FormInv, ContactsInv
  PROVE  TypeOK
<1>1. program \in Programs /\ DOMAIN stack = Threads /\ running \subseteq Actors
  BY DEF FormInv, ControlInv, StackTypes
<1>2. created \subseteq Nodes /\ DOMAIN inbox = Actors
  BY DEF FormInv, DataTypes
<1>3. running \subseteq created
  BY DEF ContactsInv, BusyOK
<1>4. ASSUME NEW s \in Supervisors
      PROVE  cursor[s] \in 0 .. Len(owned[s])
  <2>1. owned[s] \in Seq(Actors) /\ cursor[s] \in Nat
    BY DEF FormInv, RobinInv, TurnTypes
  <2>2. cursor[s] < Len(owned[s]) \/ (cursor[s] = 0 /\ Len(owned[s]) = 0)
    BY DEF FormInv, RobinInv, CursorOK
  <2> QED BY <2>1, <2>2
<1>5. ASSUME NEW n \in Nodes, NEW T \in DOMAIN contacts[n], NEW i \in DOMAIN contacts[n][T]
      PROVE  /\ contacts[n][T][i] \in created \ {n} /\ TypeOf[contacts[n][T][i]] = T
             /\ n \in Actors => i = 1
  <2>1. DOMAIN contacts[n][T] = 1 .. Len(contacts[n][T])
    BY SeqLen DEF FormInv, BooksOK
  <2> QED BY <2>1 DEF ContactsInv, HeldOK, Held
<1> QED BY <1>1, <1>2, <1>3, <1>4, <1>5 DEF TypeOK

\* In a program that passes on only addresses of objects it has constructed, an
\* object never knows anything else: every contact exists, has the type it is
\* filed under and is not the object itself, an actor keeps one per type, and
\* only actors that exist run (add_link_impl, remove_link_impl, redirect_robin).
THEOREM ContactsTyped ==
  ASSUME HandlersOnlyCall
  PROVE  Spec /\ []CallsLive => []TypeOK
<1>1. Init => FormInv /\ ContactsInv
  BY FormInit, ContactsInit
<1>2. FormInv /\ ContactsInv /\ CallsLive /\ [Next]_vars => FormInv' /\ ContactsInv'
  BY FormNext, ContactsNext
<1>3. FormInv /\ ContactsInv => TypeOK
  BY ContactsType
<1> QED BY <1>1, <1>2, <1>3, PTL DEF Spec

-----------------------------------------------------------------------------
(* Links are mutual                                                         *)

\* op asks n to know m.
Asking(op, n, m) ==
  \/ op.k = "send" /\ op.msg.cmd = "add_link" /\ op.to = n /\ op.msg.sender = m
  \/ op.k = "know" /\ op.at = n /\ op.new = m

Pending(n, m) == \E t \in Threads : \E op : Has(t, op) /\ Asking(op, n, m)

\* n was asked to know m.
Told(n, m) == \E i \in 1 .. Len(asked[n][TypeOf[m]]) : asked[n][TypeOf[m]][i] = m

\* Who is, or will be, asked to know somebody is, or will be, made known to him.
Mutual ==
  \A n, m \in Nodes : n # m /\ (Told(n, m) \/ Pending(n, m)) => Told(m, n) \/ Pending(m, n)

\* Whoever an operation of S asks to know somebody is made known to him too, by
\* another one of S, or has been.
Answered(S) ==
  \A n, m \in Nodes : n # m /\ (\E op \in S : Asking(op, n, m)) =>
    Told(m, n) \/ \E op \in S : Asking(op, m, n)

\* An add_link that is looked up or broadcast comes from the object whose
\* contacts get it, ...
PlainOp(op) ==
  op.k \in {"tell", "cast", "each", "castto"} /\ op.msg.cmd = "add_link" =>
    op.at \in Nodes /\ op.msg.sender = op.at

\* ... and one that is sent is sent to both sides, as link does.
LinksPaired(ops) ==
  /\ \A op \in Elements(ops) : PlainOp(op)
  /\ \A n, m \in Nodes : n # m /\ (\E op \in Elements(ops) : Asking(op, n, m)) =>
       \E op \in Elements(ops) : Asking(op, m, n)

\* Supervisors handle an add_link themselves, whatever they redirect.
LinksLocal == \A s \in Supervisors : Local(s, "add_link")

\* A program that links both ways.
LinksBothWays ==
  /\ \A n \in Nodes : \A msg : msg.cmd \in DOMAIN Signature[n] => LinksPaired(App(n, msg))
  /\ \A p \in Programs : \A i \in 1 .. Len(Script[p]) : \A call \in Script[p][i] : LinksPaired(call)
  /\ LinksLocal

LEMMA MutualMoves ==
  ASSUME Mutual, NEW t \in Threads, NEW S, Moves(t, S), Answered(S),
         \A n, m \in Nodes : n # m /\ Told(n, m) => Told(n, m)',
         \A n, m \in Nodes : n # m /\ Told(n, m)' =>
           Told(n, m) \/ (Has(t, Op(t)) /\ Asking(Op(t), n, m)),
         \A n, m \in Nodes : n # m /\ Has(t, Op(t)) /\ Asking(Op(t), n, m) => Told(n, m)'
  PROVE  Mutual'
<1>1. ASSUME NEW n \in Nodes, NEW m \in Nodes, n # m, Told(n, m) \/ Pending(n, m)
      PROVE  (Told(n, m) \/ Pending(n, m))'
  <2>1. CASE Told(n, m)
    BY <1>1, <2>1
  <2>2. CASE Pending(n, m)
    <3>0. PICK u \in Threads : \E op : Has(u, op) /\ Asking(op, n, m)
      BY <2>2 DEF Pending
    <3>1. PICK op : Has(u, op) /\ Asking(op, n, m)
      BY <3>0
    <3>2. CASE Has(u, op)'
      BY <3>1, <3>2 DEF Pending
    <3>3. CASE u = t /\ op = Op(t)
      BY <1>1, <3>1, <3>3
    <3> QED BY <3>1, <3>2, <3>3 DEF Moves
  <2> QED BY <1>1, <2>1, <2>2
<1>2. ASSUME NEW n \in Nodes, NEW m \in Nodes, n # m, (Told(n, m) \/ Pending(n, m))'
      PROVE  Told(n, m) \/ Pending(n, m) \/ \E op \in S : Asking(op, n, m)
  <2>1. CASE Told(n, m)'
    BY <1>2, <2>1 DEF Pending
  <2>2. CASE Pending(n, m)'
    <3>0. PICK u \in Threads : \E op : Has(u, op)' /\ Asking(op, n, m)
      BY <2>2 DEF Pending
    <3>1. PICK op : Has(u, op)' /\ Asking(op, n, m)
      BY <3>0
    <3>2. op \in S \/ Has(u, op)
      BY <3>1 DEF Moves
    <3> QED BY <3>1, <3>2 DEF Pending
  <2> QED BY <1>2, <2>1, <2>2
<1>3. ASSUME NEW n \in Nodes, NEW m \in Nodes, NEW op \in S, Asking(op, n, m)
      PROVE  Pending(n, m)'
  <2>1. PICK u \in Threads : Has(u, op)'
    BY DEF Moves
  <2> QED BY <1>3, <2>1 DEF Pending
<1> SUFFICES ASSUME NEW n \in Nodes, NEW m \in Nodes, n # m, (Told(n, m) \/ Pending(n, m))'
             PROVE  (Told(m, n) \/ Pending(m, n))'
  BY DEF Mutual
<1>4. CASE Told(n, m) \/ Pending(n, m)
  <2>1. Told(m, n) \/ Pending(m, n)
    BY <1>4 DEF Mutual
  <2> QED BY <1>1, <2>1
<1>5. CASE \E op \in S : Asking(op, n, m)
  <2>1. Told(m, n) \/ \E op \in S : Asking(op, m, n)
    BY <1>5 DEF Answered
  <2> QED BY <1>1, <1>3, <2>1
<1> QED BY <1>2, <1>4, <1>5

LEMMA TypeIsType ==
  ASSUME NEW m \in Nodes
  PROVE  TypeOf[m] \in Types
BY DEF Types

\* How asked grows.
LEMMA ToldAppend ==
  ASSUME DataTypes, NEW n \in Nodes, NEW a, NEW yes,
         \A m \in Nodes : m # n => asked'[m] = asked[m],
         \A T \in Types : asked'[n][T] = IF yes /\ TypeOf[a] = T THEN Append(asked[n][T], a)
                                         ELSE asked[n][T]
  PROVE  /\ \A p, q \in Nodes : Told(p, q) => Told(p, q)'
         /\ \A p, q \in Nodes : Told(p, q)' => Told(p, q) \/ (yes /\ p = n /\ q = a)
         /\ yes /\ a \in Nodes => Told(n, a)'
<1>1. ASSUME NEW p \in Nodes, NEW q \in Nodes, p # n
      PROVE  Told(p, q)' <=> Told(p, q)
  BY <1>1 DEF Told
<1>2. ASSUME NEW q \in Nodes
      PROVE  /\ Told(n, q) => Told(n, q)'
             /\ Told(n, q)' => Told(n, q) \/ (yes /\ q = a)
             /\ yes /\ q = a => Told(n, q)'
  <2> DEFINE T == TypeOf[q]
             A == asked[n][T]
  <2>1. T \in Types
    BY TypeIsType
  <2>2. IsSeq(A) /\ Len(A) \in Nat
    BY <2>1, SeqLen DEF DataTypes
  <2>3. CASE yes /\ TypeOf[a] = T
    <3>1. asked'[n][T] = Append(A, a)
      BY <2>1, <2>3
    <3> HIDE DEF A
    <3>2. /\ Len(asked'[n][T]) = Len(A) + 1 /\ asked'[n][T][Len(A) + 1] = a
          /\ \A i \in 1 .. Len(A) : asked'[n][T][i] = A[i]
      BY <2>2, <3>1, SeqAppend
    <3>3. Len(A) + 1 \in 1 .. Len(asked'[n][T]) /\ \A i \in 1 .. Len(A) : i \in 1 .. Len(asked'[n][T])
      BY <2>2, <3>2
    <3>4. \A i \in 1 .. Len(asked'[n][T]) : i \in 1 .. Len(A) \/ i = Len(A) + 1
      BY <2>2, <3>2
    <3>5. Told(n, q) <=> \E i \in 1 .. Len(A) : A[i] = q
      BY DEF Told, A
    <3>6. Told(n, q)' <=> \E i \in 1 .. Len(asked'[n][T]) : asked'[n][T][i] = q
      BY DEF Told
    <3> HIDE DEF T
    <3> QED BY <2>3, <3>2, <3>3, <3>4, <3>5, <3>6
  <2>4. CASE ~(yes /\ TypeOf[a] = T)
    <3>1. asked'[n][T] = A
      BY <2>1, <2>4
    <3>2. Told(n, q)' <=> Told(n, q)
      BY <3>1 DEF Told
    <3> QED BY <2>4, <3>2
  <2> QED BY <2>3, <2>4
<1> QED BY <1>1, <1>2

LEMMA ToldAsk ==
  ASSUME DataTypes, NEW n \in Nodes, NEW a, Ask(n, a)
  PROVE  /\ \A p, q \in Nodes : Told(p, q) => Told(p, q)'
         /\ \A p, q \in Nodes : Told(p, q)' => Told(p, q) \/ (p = n /\ q = a)
         /\ a \in Nodes /\ a # n => Told(n, a)'
<1> DEFINE yes == a \notin {NoAddress, n}
<1>1. \A m \in Nodes : m # n => asked'[m] = asked[m]
  BY AskEffect
<1>2. \A T \in Types : asked'[n][T] = IF yes /\ TypeOf[a] = T THEN Append(asked[n][T], a)
                                      ELSE asked[n][T]
  BY AskEffect DEF AskedFor
<1>3. a \in Nodes /\ a # n => yes
  BY NodesAssumption
<1> HIDE DEF yes
<1> QED BY <1>1, <1>2, <1>3, ToldAppend

LEMMA ToldNote ==
  ASSUME DataTypes, NEW n \in Nodes, NEW msg, Note(n, msg)
  PROVE  /\ \A p, q \in Nodes : Told(p, q) => Told(p, q)'
         /\ \A p, q \in Nodes : Told(p, q)' =>
              Told(p, q) \/ (msg.cmd = "add_link" /\ p = n /\ q = msg.sender)
         /\ msg.cmd = "add_link" /\ msg.sender \in Nodes /\ msg.sender # n => Told(n, msg.sender)'
<1>1. CASE msg.cmd = "add_link"
  <2>1. Ask(n, msg.sender)
    BY <1>1 DEF Note
  <2> QED BY <1>1, <2>1, ToldAsk
<1>2. CASE msg.cmd # "add_link"
  <2>1. asked' = asked
    BY <1>2 DEF Note
  <2> QED BY <1>2, <2>1 DEF Told
<1> QED BY <1>1, <1>2

LEMMA ToldSame ==
  ASSUME UNCHANGED asked
  PROVE  \A p, q : Told(p, q)' <=> Told(p, q)
BY DEF Told

\* n has the address of m.
Knows(n, m) == \E T \in DOMAIN contacts[n] : \E i \in 1 .. Len(contacts[n][T]) : contacts[n][T][i] = m

\* msg is, or was the last, in n's hands.
Gets(n, msg) ==
  \/ current[n] = msg
  \/ n \in Actors /\ \E i \in 1 .. Len(inbox[n]) : inbox[n][i] = msg

LEMMA KnowsFiles ==
  ASSUME BooksOK, NEW n \in Nodes, NEW a, Files(n, a)
  PROVE  \A p \in Nodes : \A q : Knows(p, q)' => Knows(p, q) \/ (p = n /\ q = a /\ a # n)
<1>1. CASE a = n
  BY <1>1 DEF Files, Knows
<1>2. CASE a # n
  <2>1. PICK c : c = Acquainted(n, a)
    OBVIOUS
  <2>2. /\ contacts'[n] = c
        /\ \A m \in Nodes : m # n => contacts'[m] = contacts[m]
    BY <1>2, <2>1 DEF Files, BooksOK
  <2>3. \A T : BookIn(c, T) = Book(n, T) \/ BookIn(c, T) = Append(Book(n, T), a)
    BY <2>1, AcquaintedBooks
  <2>4. \A T : IsSeq(Book(n, T))
    BY SeqEmpty DEF BooksOK, Book
  <2>5. \A T : \A i \in 1 .. Len(Book(n, T)) : Knows(n, Book(n, T)[i])
    <3> TAKE T
    <3>1. CASE T \in DOMAIN contacts[n]
      BY <3>1 DEF Knows, Book
    <3>2. CASE T \notin DOMAIN contacts[n]
      BY <3>2, SeqEmpty DEF Book
    <3> QED BY <3>1, <3>2
  <2>6. ASSUME NEW T \in DOMAIN c, NEW i \in 1 .. Len(c[T])
        PROVE  Knows(n, c[T][i]) \/ c[T][i] = a
    <3> DEFINE b == Book(n, T)
    <3>1. c[T] = b \/ c[T] = Append(b, a)
      BY <2>3 DEF BookIn
    <3>2. IsSeq(b) /\ Len(b) \in Nat /\ \A j \in 1 .. Len(b) : Knows(n, b[j])
      BY <2>4, <2>5, SeqLen
    <3> HIDE DEF b
    <3>3. CASE c[T] = b
      BY <3>2, <3>3
    <3>4. CASE c[T] = Append(b, a)
      <4>1. /\ Len(c[T]) = Len(b) + 1 /\ c[T][Len(b) + 1] = a
            /\ \A j \in 1 .. Len(b) : c[T][j] = b[j]
        BY <3>2, <3>4, SeqAppend
      <4>2. i \in 1 .. Len(b) \/ i = Len(b) + 1
        BY <3>2, <4>1
      <4> QED BY <3>2, <4>1, <4>2
    <3> QED BY <3>1, <3>3, <3>4
  <2>7. \A q : Knows(n, q)' => Knows(n, q) \/ q = a
    BY <2>2, <2>6 DEF Knows
  <2>8. \A p \in Nodes : p # n => \A q : Knows(p, q)' => Knows(p, q)
    BY <2>2 DEF Knows
  <2> QED BY <1>2, <2>7, <2>8
<1> QED BY <1>1, <1>2

LEMMA KnowsForgets ==
  ASSUME BooksOK, NEW n \in Nodes, NEW a, NEW c, Forgets(n, a, c),
         contacts' = [contacts EXCEPT ![n] = c]
  PROVE  \A p \in Nodes : \A q : Knows(p, q)' => Knows(p, q)
<1>1. /\ contacts'[n] = c
      /\ \A m \in Nodes : m # n => contacts'[m] = contacts[m]
  BY DEF BooksOK
<1>2. ASSUME NEW T \in DOMAIN c, NEW i \in 1 .. Len(c[T])
      PROVE  Knows(n, c[T][i])
  <2>1. T \in DOMAIN contacts[n]
    BY DEF Forgets
  <2>2. CASE T # TypeOf[a]
    BY <2>1, <2>2 DEF Forgets, Knows
  <2>3. CASE T = TypeOf[a]
    BY <2>1, <2>3 DEF Forgets, Knows
  <2> QED BY <2>2, <2>3
<1>3. \A q : Knows(n, q)' => Knows(n, q)
  BY <1>1, <1>2 DEF Knows
<1>4. \A p \in Nodes : p # n => \A q : Knows(p, q)' => Knows(p, q)
  BY <1>1 DEF Knows
<1> QED BY <1>3, <1>4

LEMMA GetsPost ==
  ASSUME DataTypes, NEW a \in Actors, NEW msg, UNCHANGED current,
         inbox' = [inbox EXCEPT ![a] = Append(@, msg)]
  PROVE  \A p \in Nodes : \A m : Gets(p, m)' => Gets(p, m) \/ (p = a /\ m = msg)
<1> DEFINE q == inbox[a]
<1>1. /\ IsSeq(q) /\ inbox'[a] = Append(q, msg)
      /\ \A b \in Actors : b # a => inbox'[b] = inbox[b]
  BY DEF DataTypes
<1> HIDE DEF q
<1>2. /\ Len(inbox'[a]) = Len(q) + 1 /\ inbox'[a][Len(q) + 1] = msg /\ Len(q) \in Nat
      /\ \A i \in 1 .. Len(q) : inbox'[a][i] = q[i]
  BY <1>1, SeqAppend, SeqLen
<1>3. \A i \in 1 .. Len(inbox'[a]) : i \in 1 .. Len(q) \/ i = Len(q) + 1
  BY <1>2
<1>4. \A i \in 1 .. Len(inbox'[a]) :
        inbox'[a][i] = msg \/ \E j \in 1 .. Len(inbox[a]) : inbox[a][j] = inbox'[a][i]
  BY <1>2, <1>3 DEF q
<1> QED BY <1>1, <1>4 DEF Gets

LEMMA GetsConsume ==
  ASSUME DataTypes, NEW t, Consume(t), NEW a \in Actors, a = Op(t).at
  PROVE  \A p \in Nodes : \A m : Gets(p, m)' => Gets(p, m)
<1>1. /\ a \in Nodes /\ inbox[a] # <<>>
      /\ current' = [current EXCEPT ![a] = Head(inbox[a])]
      /\ inbox' = [inbox EXCEPT ![a] = Tail(@)]
  BY DEF Nodes, Consume
<1>2. /\ inbox'[a] = Tail(inbox[a]) /\ IsSeq(inbox[a]) /\ inbox[a] # <<>>
      /\ \A b \in Actors : b # a => inbox'[b] = inbox[b]
      /\ \A n \in Nodes : n # a => current'[n] = current[n]
      /\ current'[a] = Head(inbox[a])
  BY <1>1 DEF DataTypes
<1>3. /\ Len(inbox[a]) \in Nat \ {0} /\ Head(inbox[a]) = inbox[a][1]
      /\ Len(Tail(inbox[a])) = Len(inbox[a]) - 1
      /\ \A i \in 1 .. Len(inbox[a]) - 1 : Tail(inbox[a])[i] = inbox[a][i + 1]
  BY <1>2, SeqTail
<1>4. /\ 1 \in 1 .. Len(inbox[a])
      /\ \A i \in 1 .. Len(inbox'[a]) : i + 1 \in 1 .. Len(inbox[a]) /\ inbox'[a][i] = inbox[a][i + 1]
  BY <1>2, <1>3
<1>5. \A i \in 1 .. Len(inbox'[a]) : \E j \in 1 .. Len(inbox[a]) : inbox[a][j] = inbox'[a][i]
  BY <1>4
<1>6. \E j \in 1 .. Len(inbox[a]) : inbox[a][j] = current'[a]
  BY <1>2, <1>3, <1>4
<1>7. \A m : Gets(a, m)' => Gets(a, m)
  BY <1>5, <1>6 DEF Gets
<1>8. \A p \in Nodes : p # a => \A m : Gets(p, m)' => Gets(p, m)
  BY <1>2 DEF Gets
<1> QED BY <1>7, <1>8

\* n was asked to know whoever asks for it in msg, ...
MsgTold(n, msg) == msg.cmd = "add_link" /\ msg.sender \in Nodes \ {n} => Told(n, msg.sender)
MessagesTold == \A n \in Nodes : \A msg : Gets(n, msg) => MsgTold(n, msg)

\* ... and everybody it knows.
ContactsTold == \A n \in Nodes : \A m : Knows(n, m) => Told(n, m)

PlainOK  == \A t \in Threads : \A op : Has(t, op) => PlainOp(op)
ScriptOK == \A i \in 1 .. Len(script) : \A call \in script[i] : LinksPaired(call)

MutualInv == PlainOK /\ ScriptOK /\ MessagesTold /\ ContactsTold /\ Mutual

LEMMA KnowsNode ==
  ASSUME HeldOK, NEW n \in Nodes, NEW m, Knows(n, m)
  PROVE  m \in created \ {n}
BY DEF HeldOK, Held, Knows

\* What keeps the invariant, whatever the step: who was told stays told, the
\* operation that asks is the one that tells, and new contacts and messages are
\* told of.
LEMMA MutualKeeps ==
  ASSUME MutualInv, ScriptOK', HeldOK, DataTypes, NEW t \in Threads, NEW S, Moves(t, S), Answered(S),
         \A op \in S : PlainOp(op),
         \A n, m \in Nodes : Told(n, m) => Told(n, m)',
         \A n, m \in Nodes : n # m /\ Told(n, m)' =>
           Told(n, m) \/ (Has(t, Op(t)) /\ Asking(Op(t), n, m)),
         \A n, m \in Nodes : n # m /\ Has(t, Op(t)) /\ Asking(Op(t), n, m) => Told(n, m)',
         \A n \in Nodes : \A m : Knows(n, m)' => Knows(n, m) \/ Told(n, m)',
         \A n \in Nodes : \A msg : Gets(n, msg)' => Gets(n, msg) \/ MsgTold(n, msg)'
  PROVE  MutualInv'
<1>1. PlainOK /\ MessagesTold /\ ContactsTold /\ Mutual
  BY DEF MutualInv
<1>2. PlainOK'
  BY <1>1 DEF PlainOK, Moves
<1>3. ContactsTold'
  <2> SUFFICES ASSUME NEW n \in Nodes, NEW m, Knows(n, m)'
               PROVE  Told(n, m)'
    BY DEF ContactsTold
  <2>1. CASE Knows(n, m)
    <3>1. m \in Nodes
      BY <2>1, KnowsNode DEF DataTypes
    <3> QED BY <1>1, <2>1, <3>1 DEF ContactsTold
  <2> QED BY <2>1
<1>4. MessagesTold'
  <2> SUFFICES ASSUME NEW n \in Nodes, NEW msg, Gets(n, msg)'
               PROVE  MsgTold(n, msg)'
    BY DEF MessagesTold
  <2>1. CASE Gets(n, msg)
    BY <1>1, <2>1 DEF MessagesTold, MsgTold
  <2> QED BY <2>1
<1>5. Mutual'
  BY <1>1, MutualMoves
<1> QED BY <1>2, <1>3, <1>4, <1>5 DEF MutualInv

\* A step that makes no contact, hands over no message and asks for nothing.
LEMMA MutualStays ==
  ASSUME MutualInv, HeldOK, DataTypes, NEW t \in Threads, NEW S, Moves(t, S), Answered(S),
         \A op \in S : PlainOp(op), UNCHANGED <<script, asked>>,
         \A n, m \in Nodes : n # m => ~Asking(Op(t), n, m),
         \A n \in Nodes : \A m : Knows(n, m)' => Knows(n, m) \/ Told(n, m),
         \A n \in Nodes : \A msg : Gets(n, msg)' => Gets(n, msg) \/ MsgTold(n, msg)
  PROVE  MutualInv'
<1>1. \A p, q : Told(p, q)' <=> Told(p, q)
  BY ToldSame
<1>2. ScriptOK'
  BY DEF MutualInv, ScriptOK
<1>3. \A n \in Nodes : \A msg : Gets(n, msg)' => Gets(n, msg) \/ MsgTold(n, msg)'
  BY <1>1 DEF MsgTold
<1> QED BY <1>1, <1>2, <1>3, MutualKeeps

LEMMA AnsweredPlain ==
  ASSUME NEW S, \A op \in S : op.k \notin {"send", "know"}
  PROVE  Answered(S)
BY DEF Answered, Asking

LEMMA ElementsConcat ==
  ASSUME NEW r, NEW s, IsSeq(r), IsSeq(s), NEW op \in Elements(r \o s)
  PROVE  op \in Elements(r) \/ op \in Elements(s)
<1> DEFINE q == r \o s
<1>1. /\ Len(r) \in Nat /\ Len(s) \in Nat /\ Len(q) = Len(r) + Len(s)
      /\ \A i \in 1 .. Len(r) : q[i] = r[i]
      /\ \A i \in 1 .. Len(s) : q[Len(r) + i] = s[i]
  BY SeqConcat, SeqLen
<1>2. PICK i \in 1 .. Len(q) : op = q[i]
  BY DEF Elements
<1> HIDE DEF q
<1>3. CASE i \in 1 .. Len(r)
  BY <1>1, <1>2, <1>3 DEF Elements
<1>4. CASE i - Len(r) \in 1 .. Len(s)
  <2>1. Len(r) + (i - Len(r)) = i
    BY <1>1
  <2>2. q[i] = s[i - Len(r)]
    BY <1>1, <1>4, <2>1
  <2> QED BY <1>2, <1>4, <2>2 DEF Elements
<1> QED BY <1>1, <1>3, <1>4

LEMMA CopiesElements ==
  ASSUME BooksOK, NEW s \in Supervisors, NEW type, NEW msg, NEW op \in Elements(Copies(s, type, msg))
  PROVE  op.k = "send" /\ op.msg = msg /\ Knows(s, op.to)
<1> DEFINE b == Book(s, type)
           c == Copies(s, type, msg)
           N == Len(b)
           o(i) == [Send(b[i], msg) EXCEPT !.via = s]
<1>1. IsSeq(b)
  BY SeqEmpty DEF BooksOK, Book, Nodes
<1>2. N \in Nat /\ DOMAIN b = 1 .. N
  BY <1>1, SeqLen
<1>3. c = [i \in 1 .. N |-> o(i)]
  BY <1>2 DEF Copies
<1>4. \A i \in 1 .. N : o(i).k = "send" /\ o(i).to = b[i] /\ o(i).msg = msg
  BY DEF Send
<1>5. \A i \in 1 .. N : Knows(s, b[i])
  <2>1. CASE type \in DOMAIN contacts[s]
    BY <2>1 DEF Knows, Book
  <2>2. CASE type \notin DOMAIN contacts[s]
    BY <2>2, SeqEmpty DEF Book
  <2> QED BY <2>1, <2>2
<1> HIDE DEF o, b, N
<1>6. c \in Seq({o(i) : i \in 1 .. N}) /\ Len(c) = N
  BY <1>2, <1>3
<1>7. \A i \in 1 .. N : c[i] = o(i)
  BY <1>3
<1>8. PICK i \in 1 .. N : op = c[i]
  BY <1>6 DEF Elements
<1> HIDE DEF c
<1> QED BY <1>4, <1>5, <1>7, <1>8

\* Copies of a message for contacts, and what goes on with it.
LEMMA AnsweredKnown ==
  ASSUME ContactsTold, NEW n \in Nodes, NEW msg, NEW S,
         msg.cmd = "add_link" => msg.sender = n,
         \A op \in S : \/ op.k \notin {"send", "know"}
                       \/ op.k = "send" /\ op.msg = msg /\ (op.to \in Nodes => Knows(n, op.to))
  PROVE  Answered(S)
<1> SUFFICES ASSUME NEW p \in Nodes, NEW q \in Nodes, NEW op \in S, Asking(op, p, q)
             PROVE  Told(q, p)
  BY DEF Answered
<1>1. op.k = "send" /\ op.msg = msg /\ Knows(n, op.to) /\ op.to = p /\ msg.sender = q /\ msg.cmd = "add_link"
  BY DEF Asking
<1> QED BY <1>1 DEF ContactsTold

LEMMA LinkAnswered ==
  ASSUME NEW a, NEW b
  PROVE  Answered(Elements(Link(a, b))) /\ \A op \in Elements(Link(a, b)) : PlainOp(op)
<1> DEFINE x == Send(a, Msg(b, "add_link", <<>>))
           y == Send(b, Msg(a, "add_link", <<>>))
           s == <<x, y>>
<1>1. Len(s) = 2 /\ s[1] = x /\ s[2] = y
  BY SeqTwo
<1>2. /\ x.k = "send" /\ x.to = a /\ x.msg.sender = b /\ x.msg.cmd = "add_link"
      /\ y.k = "send" /\ y.to = b /\ y.msg.sender = a /\ y.msg.cmd = "add_link"
  BY DEF Send, Msg
<1>3. Link(a, b) = s
  BY DEF Link
<1> HIDE DEF x, y, s
<1>4. Elements(s) = {x, y}
  BY <1>1 DEF Elements
<1>5. Answered({x, y})
  BY <1>2 DEF Answered, Asking
<1>6. \A op \in {x, y} : PlainOp(op)
  BY <1>2 DEF PlainOp
<1> QED BY <1>3, <1>4, <1>5, <1>6

LEMMA CallAnswered ==
  ASSUME ControlInv, BooksOK, MutualInv, LinksBothWays, NEW t \in Threads, stack[t] # <<>>,
         Op(t).k \notin {"run", "wake", "spawn", "know"}, NEW ops, Makes(t, ops)
  PROVE  /\ Answered(Elements(ops)) /\ \A op \in Elements(ops) : PlainOp(op)
         /\ \A n, m \in Nodes : n # m => ~Asking(Op(t), n, m)
<1>1. PlainOK /\ ContactsTold
  BY DEF MutualInv
<1>2. PICK top : top = Op(t)
  OBVIOUS
<1>3. PlainOp(top)
  <2>1. Has(t, top)
    BY <1>2, TopOp DEF Has
  <2> QED BY <1>1, <2>1 DEF PlainOK
<1>4. /\ top.k = "exec" => top.at \in Nodes
      /\ top.k \in SupervisorKinds => top.at \in Supervisors /\ top.at \in Nodes
  BY <1>2, TopOp DEF Nodes
<1>5. ASSUME top.k # "send" PROVE \A n, m \in Nodes : n # m => ~Asking(Op(t), n, m)
  BY <1>2, <1>5 DEF Asking
<1>6. CASE ops = <<>> /\ (top.k = "send" => top.to \in Supervisors /\ ~Local(top.to, top.msg.cmd))
  <2>1. Elements(ops) = {}
    BY <1>6, ElementsNone
  <2>2. top.k = "send" => top.msg.cmd # "add_link"
    BY <1>6 DEF LinksBothWays, LinksLocal
  <2>3. \A n, m \in Nodes : n # m => ~Asking(Op(t), n, m)
    BY <1>2, <2>2 DEF Asking
  <2>4. Answered({})
    BY AnsweredPlain
  <2> QED BY <2>1, <2>3, <2>4
<1>7. CASE top.k = "exec" /\ \E type, cmd, body : ops = <<Tell(top.at, type, Msg(top.at, cmd, body))>>
  <2>1. PICK type, cmd, body : ops = <<Tell(top.at, type, Msg(top.at, cmd, body))>>
    BY <1>7
  <2>2. PICK op : op = Tell(top.at, type, Msg(top.at, cmd, body))
    OBVIOUS
  <2>3. op.k = "tell" /\ op.at = top.at /\ op.msg.sender = top.at
    BY <2>2 DEF Tell, Msg
  <2>4. Elements(ops) = {op}
    BY <2>1, <2>2, ElementsOne
  <2>5. PlainOp(op)
    BY <1>4, <1>7, <2>3 DEF PlainOp
  <2>6. Answered({op})
    BY <2>3, AnsweredPlain
  <2> QED BY <1>5, <1>7, <2>4, <2>5, <2>6
<1>8. CASE top.k = "exec" /\ \E msg : msg.cmd \in DOMAIN Signature[top.at] /\ ops = App(top.at, msg)
  <2>1. LinksPaired(ops)
    BY <1>4, <1>8 DEF LinksBothWays
  <2>2. Answered(Elements(ops)) /\ \A op \in Elements(ops) : PlainOp(op)
    BY <2>1 DEF LinksPaired, Answered
  <2> QED BY <1>5, <1>8, <2>2
<1>9. CASE /\ top.k = "tell"
           /\ \E a : /\ ops = <<Send(a, top.msg)>>
                     /\ a = NoAddress \/ \E type : LET book == Book(top.at, type)
                                                   IN  book # <<>> /\ a = Head(book)
  <2>1. PICK a : /\ ops = <<Send(a, top.msg)>>
                 /\ a = NoAddress \/ \E type : Book(top.at, type) # <<>> /\ a = Head(Book(top.at, type))
    BY <1>9
  <2>2. PICK op : op = Send(a, top.msg)
    OBVIOUS
  <2>3. op.k = "send" /\ op.to = a /\ op.msg = top.msg
    BY <2>2 DEF Send
  <2>4. Elements(ops) = {op} /\ PlainOp(op)
    BY <2>1, <2>2, <2>3, ElementsOne DEF PlainOp
  <2>5. CASE top.msg.cmd = "add_link"
    <3>1. top.at \in Nodes /\ top.msg.sender = top.at
      BY <1>3, <1>9, <2>5 DEF PlainOp
    <3>2. a \in Nodes => Knows(top.at, a)
      <4> SUFFICES ASSUME NEW type, Book(top.at, type) # <<>>, a = Head(Book(top.at, type))
                   PROVE  Knows(top.at, a)
        BY <2>1, NodesAssumption
      <4>1. type \in DOMAIN contacts[top.at] /\ Book(top.at, type) = contacts[top.at][type]
        BY DEF Book
      <4>2. IsSeq(contacts[top.at][type]) /\ contacts[top.at][type] # <<>>
        BY <3>1, <4>1 DEF BooksOK
      <4>3. 1 \in 1 .. Len(contacts[top.at][type]) /\ a = contacts[top.at][type][1]
        BY <4>1, <4>2, SeqTail
      <4> QED BY <4>1, <4>3 DEF Knows
    <3>3. Answered({op})
      BY <1>1, <2>3, <3>1, <3>2, AnsweredKnown
    <3> QED BY <1>5, <1>9, <2>4, <3>3
  <2>6. CASE top.msg.cmd # "add_link"
    <3>1. Answered({op})
      BY <2>3, <2>6 DEF Answered, Asking
    <3> QED BY <1>5, <1>9, <2>4, <3>1
  <2> QED BY <2>5, <2>6
<1>10. CASE top.k \in {"introduce", "sync"} /\ \E a, b : ops = Link(a, b)
  BY <1>5, <1>10, LinkAnswered
<1>11. CASE top.k \in {"cast", "each"} /\ \E type, done :
              ops = Copies(top.at, type, top.msg) \o <<Each(top.at, done, top.msg)>>
  <2>1. PICK type, done : ops = Copies(top.at, type, top.msg) \o <<Each(top.at, done, top.msg)>>
    BY <1>11
  <2>2. PICK each : each = Each(top.at, done, top.msg)
    OBVIOUS
  <2>3. each.k = "each" /\ each.at = top.at /\ each.msg = top.msg
    BY <2>2 DEF Each
  <2>4. top.at \in Supervisors /\ top.at \in Nodes
    BY <1>4, <1>11 DEF SupervisorKinds
  <2>5. IsSeq(Copies(top.at, type, top.msg)) /\ IsSeq(<<each>>)
    BY <2>4, CopiesCalls, SeqOne DEF CallOps
  <2>6. \A op \in Elements(ops) : op \in Elements(Copies(top.at, type, top.msg)) \/ op = each
    BY <2>1, <2>2, <2>5, ElementsConcat, ElementsOne
  <2>7. \A op \in Elements(ops) : \/ op.k = "send" /\ op.msg = top.msg /\ Knows(top.at, op.to)
                                  \/ op = each
    BY <2>4, <2>6, CopiesElements
  <2>8. \A op \in Elements(ops) : PlainOp(op)
    BY <1>3, <1>11, <2>3, <2>7 DEF PlainOp
  <2>9. top.msg.cmd = "add_link" => top.msg.sender = top.at
    BY <1>3, <1>11 DEF PlainOp
  <2>10. Answered(Elements(ops))
    BY <1>1, <2>3, <2>4, <2>7, <2>9, AnsweredKnown
  <2> QED BY <1>5, <1>11, <2>8, <2>10
<1>12. CASE top.k = "castto" /\ \E type : ops = Copies(top.at, type, top.msg)
  <2>1. PICK type : ops = Copies(top.at, type, top.msg)
    BY <1>12
  <2>2. top.at \in Supervisors /\ top.at \in Nodes
    BY <1>4, <1>12 DEF SupervisorKinds
  <2>3. \A op \in Elements(ops) : op.k = "send" /\ op.msg = top.msg /\ Knows(top.at, op.to)
    BY <2>1, <2>2, CopiesElements
  <2>4. \A op \in Elements(ops) : PlainOp(op)
    BY <2>3 DEF PlainOp
  <2>5. top.msg.cmd = "add_link" => top.msg.sender = top.at
    BY <1>3, <1>12 DEF PlainOp
  <2>6. Answered(Elements(ops))
    BY <1>1, <2>2, <2>3, <2>5, AnsweredKnown
  <2> QED BY <1>5, <1>12, <2>4, <2>6
<1> QED BY <1>2, <1>6, <1>7, <1>8, <1>9, <1>10, <1>11, <1>12 DEF Makes

LEMMA SpawnAnswered ==
  ASSUME NEW s \in Supervisors, NEW new
  PROVE  /\ Answered(Elements(SpawnOps(s, new)))
         /\ \A op \in Elements(SpawnOps(s, new)) : PlainOp(op)
<1> DEFINE ops == SpawnOps(s, new)
           N == Len(ops)
           x == [k |-> "know", at |-> s, new |-> new]
           y == Send(new, Msg(s, "add_link", <<>>))
<1>1. N \in {3, 4} /\ ops[N - 2] = x /\ ops[N - 1] = y
  BY SpawnForm
<1>2. \A op \in Elements(ops) : op = x \/ op = y \/ op.k = "sync" \/ (op.k = "cast" /\ op.msg.cmd # "add_link")
  BY SpawnElements
<1>3. /\ x.k = "know" /\ x.at = s /\ x.new = new
      /\ y.k = "send" /\ y.to = new /\ y.msg.cmd = "add_link" /\ y.msg.sender = s
  BY DEF Send, Msg
<1> HIDE DEF ops, x, y
<1> HIDE DEF N
<1>4. N - 2 \in 1 .. N /\ N - 1 \in 1 .. N
  BY <1>1
<1>5. x \in Elements(ops) /\ y \in Elements(ops)
  BY <1>1, <1>4 DEF Elements, N
<1>6. Answered(Elements(ops))
  BY <1>2, <1>3, <1>5 DEF Answered, Asking
<1>7. \A op \in Elements(ops) : PlainOp(op)
  BY <1>2, <1>3 DEF PlainOp
<1> QED BY <1>6, <1>7 DEF ops

\* t hands msg, which is what it sends, to n.
LEMMA MutualSends ==
  ASSUME MutualInv, HeldOK, DataTypes, LinksBothWays, NEW t \in Threads, NEW S, Moves(t, S),
         \A op \in S : op.k \in {"exec", "wake", "turn"}, UNCHANGED <<script, contacts>>,
         NEW n \in Nodes, NEW msg, Op(t).k = "send", Op(t).msg = msg, Has(t, Op(t)), Note(n, msg),
         n = Op(t).to \/ (Op(t).to \in Supervisors /\ ~Local(Op(t).to, msg.cmd)),
         \A p \in Nodes : \A m : Gets(p, m)' => Gets(p, m) \/ (p = n /\ m = msg)
  PROVE  MutualInv'
<1>1. /\ \A p, q \in Nodes : Told(p, q) => Told(p, q)'
      /\ \A p, q \in Nodes : Told(p, q)' =>
           Told(p, q) \/ (msg.cmd = "add_link" /\ p = n /\ q = msg.sender)
      /\ msg.cmd = "add_link" /\ msg.sender \in Nodes /\ msg.sender # n => Told(n, msg.sender)'
  BY ToldNote
<1>2. msg.cmd = "add_link" => n = Op(t).to
  BY DEF LinksBothWays, LinksLocal
<1>3. \A p, q : Asking(Op(t), p, q) <=> msg.cmd = "add_link" /\ p = Op(t).to /\ q = msg.sender
  BY DEF Asking
<1>4. \A p, q \in Nodes : p # q /\ Told(p, q)' => Told(p, q) \/ (Has(t, Op(t)) /\ Asking(Op(t), p, q))
  BY <1>1, <1>2, <1>3
<1>5. \A p, q \in Nodes : p # q /\ Has(t, Op(t)) /\ Asking(Op(t), p, q) => Told(p, q)'
  BY <1>1, <1>2, <1>3
<1>6. \A p \in Nodes : \A m : Gets(p, m)' => Gets(p, m) \/ MsgTold(p, m)'
  BY <1>1 DEF MsgTold
<1>7. \A p \in Nodes : \A q : Knows(p, q)' => Knows(p, q) \/ Told(p, q)'
  BY DEF Knows
<1>8. ScriptOK'
  BY DEF MutualInv, ScriptOK
<1>9. Answered(S) /\ \A op \in S : PlainOp(op)
  BY AnsweredPlain DEF PlainOp
<1> QED BY <1>1, <1>4, <1>5, <1>6, <1>7, <1>8, <1>9, MutualKeeps

LEMMA MutualSame ==
  ASSUME MutualInv, UNCHANGED <<script, stack, contacts, current, inbox, asked>>
  PROVE  MutualInv'
<1>1. PlainOK' /\ ScriptOK'
  BY DEF MutualInv, PlainOK, ScriptOK, Has
<1>2. \A p, q : (Told(p, q)' <=> Told(p, q)) /\ (Pending(p, q)' <=> Pending(p, q))
  BY DEF Told, Pending, Has
<1>3. \A p, q : (Knows(p, q)' <=> Knows(p, q)) /\ (Gets(p, q)' <=> Gets(p, q))
  BY DEF Knows, Gets
<1> QED BY <1>1, <1>2, <1>3 DEF MutualInv, MessagesTold, MsgTold, ContactsTold, Mutual

LEMMA MutualStep ==
  ASSUME FormInv, ContactsInv, MutualInv, HandlersOnlyCall, LinksBothWays, NEW t \in Threads, Step(t)
  PROVE  MutualInv'
<1>1. ControlInv /\ DataTypes /\ BooksOK /\ RobinInv
  BY DEF FormInv
<1>2. HeldOK /\ SendersOK /\ KnownOK /\ MessagesTold
  BY DEF ContactsInv, MutualInv
<1>3. stack[t] # <<>>
  BY <1>1, StepCases
<1>4. Has(t, Op(t))
  BY <1>1, <1>3, TopOp DEF Has
<1>5. ASSUME Op(t).k \notin {"send", "know"}
      PROVE  \A n, m \in Nodes : n # m => ~Asking(Op(t), n, m)
  BY <1>5 DEF Asking
<1>6. CASE HaltStep
  BY <1>6, MutualSame DEF HaltStep, books, past
<1>7. CASE CallStep(t)
  <2>1. UNCHANGED <<script, asked, contacts, current, inbox>> /\ Op(t).k \notin {"run", "wake", "spawn", "know"}
    BY <1>7 DEF CallStep
  <2>2. PICK ops : CallOps(ops) /\ Makes(t, ops) /\ Becomes(t, ops)
    BY <1>7 DEF CallStep
  <2>3. Moves(t, Elements(ops))
    BY <1>1, <1>3, <2>2, MovesBecomes DEF CallOps
  <2>4. /\ Answered(Elements(ops)) /\ \A op \in Elements(ops) : PlainOp(op)
        /\ \A n, m \in Nodes : n # m => ~Asking(Op(t), n, m)
    BY <1>1, <1>3, <2>1, <2>2, CallAnswered
  <2>5. \A p, q : (Knows(p, q)' => Knows(p, q)) /\ (Gets(p, q)' => Gets(p, q))
    BY <2>1 DEF Knows, Gets
  <2> QED BY <1>1, <1>2, <2>1, <2>3, <2>4, <2>5, MutualStays
<1>8. CASE SpawnStep(t)
  <2>1. UNCHANGED <<script, asked, contacts, current, inbox>> /\ Op(t).k = "spawn"
    BY <1>8 DEF SpawnStep
  <2>2. PICK new \in Nodes : Becomes(t, SpawnOps(Op(t).at, new))
    BY <1>8 DEF SpawnStep
  <2>3. PICK s \in Supervisors : s = Op(t).at
    BY <1>1, <1>3, <2>1, TopOp DEF SupervisorKinds
  <2>4. PICK ops : ops = SpawnOps(s, new)
    OBVIOUS
  <2>5. IsSeq(ops) /\ Becomes(t, ops)
    BY <2>2, <2>3, <2>4, SpawnPlain DEF PlainOps
  <2>6. Moves(t, Elements(ops))
    BY <1>1, <1>3, <2>5, MovesBecomes
  <2>7. Answered(Elements(ops)) /\ \A op \in Elements(ops) : PlainOp(op)
    BY <2>4, SpawnAnswered
  <2>8. \A p, q : (Knows(p, q)' => Knows(p, q)) /\ (Gets(p, q)' => Gets(p, q))
    BY <2>1 DEF Knows, Gets
  <2> QED BY <1>1, <1>2, <1>5, <2>1, <2>6, <2>7, <2>8, MutualStays
<1>9. CASE FileStep(t) \/ RemoveStep(t)
  <2>1. /\ UNCHANGED <<script, asked, inbox>> /\ Becomes(t, <<>>) /\ Op(t).k = "exec"
        /\ current' \in {current, Emptied(Op(t).at)}
    BY <1>9 DEF FileStep, RemoveStep, past
  <2>2. Moves(t, {}) /\ Answered({})
    BY <1>1, <1>3, <2>1, MovesNone, AnsweredPlain
  <2>3. PICK n \in Nodes : n = Op(t).at
    BY <1>1, <1>3, <2>1, TopOp
  <2>4. PICK a : a = current[n].sender
    OBVIOUS
  <2>5. \A p \in Nodes : \A q : Knows(p, q)' => Knows(p, q) \/ Told(p, q)
    <3>1. CASE FileStep(t)
      <4>1. Files(n, a) /\ current[n].cmd = "add_link" /\ a # NoAddress
        BY <2>3, <2>4, <3>1 DEF FileStep
      <4>2. a \in Nodes
        BY <1>1, <1>2, <2>4, <4>1 DEF SendersOK, DataTypes
      <4>3. MsgTold(n, current[n])
        BY <1>2 DEF MessagesTold, Gets
      <4>4. a # n => Told(n, a)
        BY <2>4, <4>1, <4>2, <4>3 DEF MsgTold
      <4> QED BY <1>1, <4>1, <4>4, KnowsFiles
    <3>2. CASE RemoveStep(t)
      <4>1. PICK c : Forgets(n, a, c) /\ contacts' = [contacts EXCEPT ![n] = c]
        BY <2>3, <2>4, <3>2 DEF RemoveStep
      <4> QED BY <1>1, <4>1, KnowsForgets
    <3> QED BY <1>9, <3>1, <3>2
  <2>6. \A p \in Nodes : \A q : Gets(p, q)' => Gets(p, q) \/ MsgTold(p, q)
    <3>1. \A p \in Nodes : current'[p] = current[p] \/ current'[p].sender = NoAddress
      BY <1>1, <2>1, <2>3 DEF Emptied, Msg, DataTypes
    <3>2. \A p \in Nodes : \A q : Gets(p, q)' => Gets(p, q) \/ q.sender = NoAddress
      BY <2>1, <3>1 DEF Gets
    <3> QED BY <3>2, NodesAssumption DEF MsgTold
  <2> QED BY <1>1, <1>2, <1>5, <2>1, <2>2, <2>5, <2>6, MutualStays
<1>10. CASE KnowStep(t)
  <2>1. /\ UNCHANGED <<script, current, inbox>> /\ Becomes(t, <<>>) /\ Op(t).k = "know"
        /\ Files(Op(t).at, Op(t).new) /\ Ask(Op(t).at, Op(t).new)
    BY <1>10 DEF KnowStep
  <2>2. Moves(t, {}) /\ Answered({})
    BY <1>1, <1>3, <2>1, MovesNone, AnsweredPlain
  <2>3. PICK n \in Nodes : n = Op(t).at
    BY <1>1, <1>3, <2>1, TopOp DEF SupervisorKinds, Nodes
  <2>4. PICK a \in Nodes : a = Op(t).new
    BY <1>1, <1>2, <1>4, <2>1 DEF KnownOK, Known, DataTypes
  <2>5. Files(n, a) /\ Ask(n, a)
    BY <2>1, <2>3, <2>4
  <2>6. /\ \A p, q \in Nodes : Told(p, q) => Told(p, q)'
        /\ \A p, q \in Nodes : Told(p, q)' => Told(p, q) \/ (p = n /\ q = a)
        /\ a # n => Told(n, a)'
    BY <1>1, <2>5, ToldAsk
  <2>7. \A p, q : Asking(Op(t), p, q) <=> p = n /\ q = a
    BY <2>1, <2>3, <2>4 DEF Asking
  <2>8. \A p \in Nodes : \A q : Knows(p, q)' => Knows(p, q) \/ (p = n /\ q = a /\ a # n)
    BY <1>1, <2>5, KnowsFiles
  <2>9. \A p, q : Gets(p, q)' => Gets(p, q)
    BY <2>1 DEF Gets
  <2>10. ScriptOK'
    BY <2>1 DEF MutualInv, ScriptOK
  <2>11. \A p \in Nodes : \A q : Knows(p, q)' => Knows(p, q) \/ Told(p, q)'
    BY <2>6, <2>8
  <2>12. /\ \A p, q \in Nodes : p # q /\ Told(p, q)' => Told(p, q) \/ (Has(t, Op(t)) /\ Asking(Op(t), p, q))
         /\ \A p, q \in Nodes : p # q /\ Has(t, Op(t)) /\ Asking(Op(t), p, q) => Told(p, q)'
    BY <1>4, <2>6, <2>7
  <2> QED BY <1>1, <1>2, <2>2, <2>6, <2>9, <2>10, <2>11, <2>12, MutualKeeps
<1>11. CASE SendToSupervisor(t)
  <2>1. /\ Becomes(t, <<Exec(Op(t).to)>>) /\ Op(t).k = "send" /\ Op(t).to \in Nodes
        /\ current' = [current EXCEPT ![Op(t).to] = Op(t).msg] /\ Note(Op(t).to, Op(t).msg)
        /\ UNCHANGED <<script, contacts, inbox>>
    BY <1>1, <1>11, SupervisorEffect DEF Nodes, books
  <2>2. PICK n \in Nodes : n = Op(t).to
    BY <2>1
  <2>3. PICK msg : msg = Op(t).msg
    OBVIOUS
  <2>4. PICK op : op = Exec(n)
    OBVIOUS
  <2>5. Moves(t, {op}) /\ op.k = "exec"
    BY <1>1, <1>3, <2>1, <2>2, <2>4, MovesOne DEF Exec
  <2>6. current'[n] = msg /\ \A p \in Nodes : p # n => current'[p] = current[p]
    BY <1>1, <2>1, <2>2, <2>3 DEF DataTypes
  <2>7. \A p \in Nodes : \A m : Gets(p, m)' => Gets(p, m) \/ (p = n /\ m = msg)
    BY <2>1, <2>6 DEF Gets
  <2>8. Note(n, msg)
    BY <2>1, <2>2, <2>3
  <2> QED BY <1>1, <1>2, <1>4, <2>1, <2>2, <2>3, <2>5, <2>7, <2>8, MutualSends
<1>12. CASE PostStep(t)
  <2>0. PICK msg : msg = Op(t).msg
    OBVIOUS
  <2>1. PICK a \in Actors : /\ Post(a, msg) /\ Receives(t, a) /\ msg = Op(t).msg /\ Op(t).k = "send"
                            /\ \E ops : PostOps(t, a, ops) /\ Becomes(t, ops)
                            /\ UNCHANGED <<script, contacts, current>>
    BY <1>12, <2>0 DEF PostStep, books
  <2>2. inbox' = [inbox EXCEPT ![a] = Append(@, msg)] /\ Note(a, msg) /\ a \in Nodes
    BY <2>1 DEF Post, Nodes
  <2>3. \A p \in Nodes : \A m : Gets(p, m)' => Gets(p, m) \/ (p = a /\ m = msg)
    BY <1>1, <2>1, <2>2, GetsPost
  <2>4. PICK S : Moves(t, S) /\ \A op \in S : op.k \in {"wake", "turn"}
    BY <1>1, <1>3, <2>1, MovesPost
  <2>5. a = Op(t).to \/ (Op(t).to \in Supervisors /\ ~Local(Op(t).to, msg.cmd))
    BY <2>1 DEF Receives
  <2> QED BY <1>1, <1>2, <1>4, <2>1, <2>2, <2>3, <2>4, <2>5, MutualSends
<1>13. CASE Consume(t)
  <2>1. PICK a : a = Op(t).at
    OBVIOUS
  <2>2. Op(t).k = "run" /\ UNCHANGED <<script, contacts, asked>>
    BY <1>13, <2>1 DEF Consume, At, Op, books
  <2>3. a \in Actors
    BY <1>1, <1>3, <2>1, <2>2, TopOp
  <2>4. \A p \in Nodes : \A m : Gets(p, m)' => Gets(p, m)
    BY <1>1, <1>13, <2>1, <2>3, GetsConsume
  <2>5. PICK op : op = Exec(Op(t).at)
    OBVIOUS
  <2>6. op.k = "exec" /\ Moves(t, {op})
    BY <1>1, <1>3, <1>13, <2>5, MovesConsume DEF Exec
  <2>7. Answered({op}) /\ PlainOp(op)
    BY <2>6, AnsweredPlain DEF PlainOp
  <2>8. \A p, q : Knows(p, q)' => Knows(p, q)
    BY <2>2 DEF Knows
  <2> QED BY <1>1, <1>2, <1>5, <2>2, <2>4, <2>6, <2>7, <2>8, MutualStays
<1>14. CASE Rest(t)
  <2>1. Op(t).k = "run" /\ UNCHANGED <<script, contacts, current, inbox, asked>>
    BY <1>14 DEF Rest, At, Op, books, past
  <2>2. Moves(t, {}) /\ Answered({})
    BY <1>1, <1>3, <1>14, MovesRest, AnsweredPlain
  <2>3. \A p, q : (Knows(p, q)' => Knows(p, q)) /\ (Gets(p, q)' => Gets(p, q))
    BY <2>1 DEF Knows, Gets
  <2> QED BY <1>1, <1>2, <1>5, <2>1, <2>2, <2>3, MutualStays
<1>15. CASE ScheduleStep(t) \/ LookStep(t)
  <2>1. Op(t).k \in {"wake", "run"} /\ UNCHANGED <<script, contacts, current, inbox, asked>>
    BY <1>15 DEF ScheduleStep, LookStep, books, past
  <2>2. PICK S : Moves(t, S) /\ \A op \in S : op.k = "run"
    <3>1. CASE ScheduleStep(t)
      <4>1. PICK r : r = Run(Op(t).at)
        OBVIOUS
      <4>2. Op(t).at \in Actors /\ DeliverStack(t, Op(t).at)
        BY <3>1 DEF ScheduleStep
      <4>3. Moves(t, {}) \/ Moves(t, {r})
        BY <1>1, <1>3, <4>1, <4>2, MovesSchedule
      <4>4. \A op \in {r} : op.k = "run"
        BY <4>1 DEF Run
      <4>5. \A op \in {} : op.k = "run"
        OBVIOUS
      <4> QED BY <4>3, <4>4, <4>5
    <3>2. CASE LookStep(t)
      <4>1. PICK r : r = RunOver(Op(t).at)
        OBVIOUS
      <4>2. Moves(t, {r})
        BY <1>1, <1>3, <3>2, <4>1, MovesLook
      <4>3. \A op \in {r} : op.k = "run"
        BY <4>1 DEF RunOver
      <4> QED BY <4>2, <4>3
    <3> QED BY <1>15, <3>1, <3>2
  <2>3. Answered(S) /\ \A op \in S : PlainOp(op)
    BY <2>2, AnsweredPlain DEF PlainOp
  <2>4. \A p, q : (Knows(p, q)' => Knows(p, q)) /\ (Gets(p, q)' => Gets(p, q))
    BY <2>1 DEF Knows, Gets
  <2> QED BY <1>1, <1>2, <1>5, <2>1, <2>2, <2>3, <2>4, MutualStays
<1> QED BY <1>1, <1>6, <1>7, <1>8, <1>9, <1>10, <1>11, <1>12, <1>13, <1>14, <1>15, StepCases

LEMMA MutualNext ==
  ASSUME FormInv, ContactsInv, MutualInv, HandlersOnlyCall, LinksBothWays, [Next]_vars
  PROVE  MutualInv'
<1>1. CASE UNCHANGED vars
  BY <1>1, MutualSame DEF vars, books, past
<1>2. CASE Call
  <2>1. DataTypes /\ HeldOK /\ ScriptOK /\ ControlInv
    BY DEF FormInv, ContactsInv, MutualInv
  <2>2. /\ UNCHANGED <<contacts, current, inbox, asked>> /\ stack[Main] = <<>>
        /\ script # <<>> /\ script' = Tail(script)
    BY <1>2 DEF Call, books, past
  <2>3. PICK call \in script[1] : 1 \in 1 .. Len(script) /\ Moves(Main, Elements(call))
    BY <1>2, <2>1, MovesCall
  <2>4. LinksPaired(call)
    BY <2>1, <2>3 DEF ScriptOK
  <2>5. Answered(Elements(call)) /\ \A op \in Elements(call) : PlainOp(op)
    BY <2>4 DEF LinksPaired, Answered
  <2>6. ScriptOK'
    <3>1. IsSeq(script)
      BY <2>1 DEF ControlInv, StackTypes
    <3>2. /\ Len(script) \in Nat \ {0} /\ Len(Tail(script)) = Len(script) - 1
          /\ \A i \in 1 .. Len(script) - 1 : Tail(script)[i] = script[i + 1]
      BY <2>2, <3>1, SeqTail
    <3>3. \A i \in 1 .. Len(script') : i + 1 \in 1 .. Len(script) /\ script'[i] = script[i + 1]
      BY <2>2, <3>2
    <3> QED BY <2>1, <3>3 DEF ScriptOK
  <2>7. ~Has(Main, Op(Main))
    BY <2>2, SeqEmpty DEF Has
  <2>8. \A p, q : (Knows(p, q)' => Knows(p, q)) /\ (Gets(p, q)' => Gets(p, q))
    BY <2>2 DEF Knows, Gets
  <2>9. \A p, q : Told(p, q)' <=> Told(p, q)
    BY <2>2, ToldSame
  <2>10. Main \in Threads
    BY DEF Threads
  <2> QED BY <2>1, <2>3, <2>5, <2>6, <2>7, <2>8, <2>9, <2>10, MutualKeeps
<1> QED BY <1>1, <1>2, MutualStep DEF Next

LEMMA MutualInit ==
  ASSUME Init, LinksBothWays
  PROVE  MutualInv
<1>1. /\ stack = [t \in Threads |-> <<>>] /\ contacts = [n \in Nodes |-> <<>>]
      /\ current = [n \in Nodes |-> Msg(NoAddress, "", <<>>)]
      /\ inbox = [a \in Actors |-> <<>>] /\ asked = [n \in Nodes |-> [type \in Types |-> <<>>]]
      /\ program \in Programs /\ script = Script[program]
  BY DEF Init
<1>2. Len(<<>>) = 0 /\ DOMAIN <<>> = {}
  BY SeqEmpty, SeqLen
<1>3. \A t \in Threads : \A op : ~Has(t, op)
  <2>1. \A t \in Threads : Len(stack[t]) = 0
    BY <1>1, <1>2
  <2> QED BY <2>1 DEF Has
<1>4. \A n \in Nodes : \A m : ~Knows(n, m)
  <2>1. \A n \in Nodes : contacts[n] = <<>>
    BY <1>1
  <2> QED BY <1>2, <2>1 DEF Knows
<1>5. \A n \in Nodes : \A msg : Gets(n, msg) => msg.cmd = ""
  <2>1. \A n \in Nodes : current[n].cmd = ""
    BY <1>1 DEF Msg
  <2>2. \A a \in Actors : Len(inbox[a]) = 0
    BY <1>1, <1>2
  <2>3. \A a \in Actors : 1 .. Len(inbox[a]) = {}
    BY <2>2
  <2>4. \A n \in Nodes : \A msg : Gets(n, msg) => current[n] = msg
    BY <2>3 DEF Gets
  <2> QED BY <2>1, <2>4
<1>6. \A n, m \in Nodes : ~Told(n, m)
  <2> TAKE n, m \in Nodes
  <2>1. TypeOf[m] \in Types
    BY TypeIsType
  <2>2. Len(asked[n][TypeOf[m]]) = 0
    BY <1>1, <1>2, <2>1
  <2> QED BY <2>2 DEF Told
<1>7. PlainOK /\ ContactsTold /\ Mutual
  BY <1>3, <1>4, <1>6 DEF PlainOK, ContactsTold, Mutual, Pending
<1>8. MessagesTold
  <2>1. "" # "add_link"
    OBVIOUS
  <2> QED BY <1>5, <2>1 DEF MessagesTold, MsgTold
<1>9. ScriptOK
  BY <1>1 DEF LinksBothWays, ScriptOK
<1> QED BY <1>7, <1>8, <1>9 DEF MutualInv

\* Once all is handled nothing is pending, and who was told knows.
LEMMA MutualQuiet ==
  ASSUME FormInv, ContactsInv, MutualInv, LinksSettle
  PROVE  LinksMutual
<1>1. DataTypes /\ BooksOK /\ HeldOK /\ ContactsTold /\ Mutual
  BY DEF FormInv, ContactsInv, MutualInv
<1> SUFFICES ASSUME Quiet, halted = Alive, NEW n \in created, NEW type \in DOMAIN contacts[n],
                    NEW m \in ToSet(contacts[n][type])
             PROVE  \/ n \in ToSet(Book(m, TypeOf[n]))
                    \/ /\ m \in Actors /\ n \in ToSet(Tail(asked[m][TypeOf[n]]))
                       /\ Book(m, TypeOf[n]) = <<Head(asked[m][TypeOf[n]])>>
                    \/ <<m, TypeOf[n]>> \in unlinked
  BY DEF LinksMutual
<1>2. n \in Nodes
  BY <1>1 DEF DataTypes
<1>3. Knows(n, m)
  <2>1. IsSeq(contacts[n][type])
    BY <1>1, <1>2 DEF BooksOK
  <2>2. DOMAIN contacts[n][type] = 1 .. Len(contacts[n][type])
    BY <2>1, SeqLen
  <2> QED BY <2>2 DEF ToSet, Knows
<1>4. m \in created /\ m \in Nodes /\ m # n
  BY <1>1, <1>2, <1>3, KnowsNode DEF DataTypes
<1>5. Told(m, n)
  <2>1. Told(m, n) \/ Pending(m, n)
    BY <1>1, <1>2, <1>3, <1>4 DEF ContactsTold, Mutual
  <2>2. ~Pending(m, n)
    BY SeqEmpty DEF Quiet, Returned, Pending, Has
  <2> QED BY <2>1, <2>2
<1>6. PICK A : A = asked[m][TypeOf[n]]
  OBVIOUS
<1>7. PICK i \in 1 .. Len(A) : A[i] = n
  BY <1>5, <1>6 DEF Told
<1>8. TypeOf[n] \in Types /\ IsSeq(A)
  BY <1>1, <1>2, <1>4, <1>6, TypeIsType DEF DataTypes
<1>9. Len(A) \in Nat /\ DOMAIN A = 1 .. Len(A) /\ A # <<>>
  BY <1>7, <1>8, SeqLen, SeqEmpty
<1>10. n \in ToSet(A)
  BY <1>7, <1>9 DEF ToSet
<1>11. n = Head(A) \/ n \in ToSet(Tail(A))
  <2>1. /\ Head(A) = A[1] /\ IsSeq(Tail(A)) /\ Len(Tail(A)) = Len(A) - 1
        /\ \A j \in 1 .. Len(A) - 1 : Tail(A)[j] = A[j + 1]
    BY <1>8, <1>9, SeqTail
  <2>2. CASE i # 1
    <3>1. i - 1 \in 1 .. Len(A) - 1 /\ (i - 1) + 1 = i
      BY <1>9, <2>2
    <3>2. i - 1 \in DOMAIN Tail(A) /\ Tail(A)[i - 1] = n
      BY <1>7, <2>1, <3>1, SeqLen
    <3> QED BY <3>2 DEF ToSet
  <2> QED BY <1>7, <2>1, <2>2
<1>12. n \in ToSet(<<n>>)
  BY DEF ToSet
<1>13. \/ <<m, TypeOf[n]>> \in unlinked
       \/ Book(m, TypeOf[n]) = A
       \/ m \in Actors /\ Book(m, TypeOf[n]) = <<Head(A)>>
  BY <1>4, <1>6, <1>8 DEF LinksSettle
<1> QED BY <1>6, <1>10, <1>11, <1>12, <1>13

\* Links are mutual in every program that links both ways and in which no thread
\* calls a supervisor under another one's message: whoever has somebody's
\* address when everything sent has been handled is known to him by his own,
\* unless that is an actor and keeps another of the same type, who asked before,
\* or a remove_link came (link_imp, sync, add_link_impl of supervisor_abstract
\* and of actor_abstract).
THEOREM LinksMutualAlone ==
  ASSUME HandlersOnlyCall, LinksBothWays
  PROVE  Spec /\ []CallsLive /\ []OneCaller => []LinksMutual
<1> DEFINE Inv == FormInv /\ ContactsInv /\ MutualInv
<1>1. Init => Inv
  BY FormInit, ContactsInit, MutualInit
<1>2. Inv /\ CallsLive /\ [Next]_vars => Inv'
  BY FormNext, ContactsNext, MutualNext
<1>3. Inv /\ LinksSettle => LinksMutual
  BY MutualQuiet
<1>4. Spec /\ []OneCaller => []LinksSettle
  BY LinksSettleAlone
<1> QED BY <1>1, <1>2, <1>3, <1>4, PTL DEF Spec

\* The same where the threads keep apart by themselves: actors that run inside
\* execute() on main()'s thread, or whose handlers only send to actors.
THEOREM LinksMutualApart ==
  ASSUME HandlersOnlyCall, LinksBothWays
  PROVE  Spec /\ []CallsLive => [](KeepsApart(program) => LinksMutual)
<1> DEFINE Inv == FormInv /\ ContactsInv /\ MutualInv
<1>1. Init => Inv
  BY FormInit, ContactsInit, MutualInit
<1>2. Inv /\ CallsLive /\ [Next]_vars => Inv'
  BY FormNext, ContactsNext, MutualNext
<1>3. Inv /\ LinksSettle => LinksMutual
  BY MutualQuiet
<1>4. Spec => [](KeepsApart(program) => LinksSettle)
  BY LinksSettleApart
<1> QED BY <1>1, <1>2, <1>3, <1>4, PTL DEF Spec

-----------------------------------------------------------------------------
(* sync meets the message that asked for the new object                     *)

\* What t has to do before its i-th operation.
Over(t, i) == {stack[t][j] : j \in 1 .. i - 1}

\* What a supervisor that announces nothing has to do before the second half of
\* sync: to file the new object and to have it file the supervisor.
Before(op, sync) ==
  \/ op.k = "know"
  \/ op.k = "wake" /\ op.at = sync.new
  \/ op.k = "send" /\ op.to = sync.new /\ op.msg.cmd = "add_link"
  \/ /\ op.k = "exec" /\ op.at = sync.new /\ current[sync.new].cmd = "add_link"
     /\ sync.new \in Actors => Inline[program]
  \/ op.k = "run" /\ op.at = sync.new /\ Inline[program]

Syncing(sync, S) ==
  /\ sync.new # sync.at /\ current[sync.at] = sync.cause
  /\ \A op \in S : Before(op, sync)
  /\ Inline[program] /\ sync.new \in Actors =>
       \A i \in 1 .. Len(inbox[sync.new]) : inbox[sync.new][i].cmd = "add_link"

\* A sync of a supervisor that is not a supervisor_lite.
Silent(op) == op.k = "sync" /\ Routing[op.at] # "lite"

SyncOK(t) == \A i \in 1 .. Len(stack[t]) : Silent(stack[t][i]) => Syncing(stack[t][i], Over(t, i))

\* Nothing has been sent to an object that does not exist yet.
UnusedOK == \A a \in Actors \ created : inbox[a] = <<>>

\* One thread at a time has still to read a supervisor's current_message_.
OneInside ==
  \A t, u \in Threads : \A s \in Supervisors : Inside(t, s) /\ Inside(u, s) => t = u

SyncInv == UnusedOK /\ OneInside /\ \A t \in Threads : SyncOK(t)

LEMMA InsideStep ==
  ASSUME OneCaller, OneInside, NEW t \in Threads,
         \A u \in Threads : \A s \in Supervisors :
           Inside(u, s)' => Inside(u, s) \/ (u = t /\ Entering(t, s))
  PROVE  OneInside'
<1> SUFFICES ASSUME NEW u \in Threads, NEW v \in Threads, NEW s \in Supervisors,
                    Inside(u, s)', Inside(v, s)', u # v
             PROVE  FALSE
  BY DEF OneInside
<1> QED BY DEF OneInside, OneCaller

\* Operations that begin no handler of a supervisor and no spawn.
Outside(S) == \A op \in S : op.k # "sync" /\ (op.k = "exec" => op.at \notin Supervisors)

LEMMA InsideMoves ==
  ASSUME NEW t \in Threads, NEW S, Moves(t, S), Outside(S), NEW u \in Threads, NEW s \in Supervisors,
         Inside(u, s)'
  PROVE  Inside(u, s)
<1>1. PICK i \in 1 .. Len(stack'[u]) : stack'[u][i].k \in {"exec", "sync"} /\ stack'[u][i].at = s
  BY DEF Inside
<1>2. PICK op : op = stack'[u][i]
  OBVIOUS
<1>3. Has(u, op)'
  BY <1>2 DEF Has
<1>4. op \notin S
  BY <1>1, <1>2 DEF Outside
<1>5. Has(u, op)
  BY <1>3, <1>4 DEF Moves
<1> QED BY <1>1, <1>2, <1>5 DEF Has, Inside

LEMMA InsideNext ==
  ASSUME FormInv, OneCaller, OneInside, HandlersOnlyCall, NEW t \in Threads, Step(t)
  PROVE  OneInside'
<1>1. ControlInv /\ DataTypes /\ BooksOK /\ RobinInv
  BY DEF FormInv
<1>2. stack[t] # <<>>
  BY <1>1, StepCases
<1>3. ASSUME NEW S, Moves(t, S), Outside(S)
      PROVE  OneInside'
  BY <1>3, InsideMoves, InsideStep
<1>4. ASSUME NEW ops, Becomes(t, ops), \A s \in Supervisors : Inside(t, s)' => Inside(t, s) \/ Entering(t, s)
      PROVE  OneInside'
  <2>1. \A u \in Threads : u # t => \A s : Inside(u, s)' <=> Inside(u, s)
    BY <1>4 DEF Becomes, Inside
  <2> QED BY <1>4, <2>1, InsideStep
<1>5. CASE HaltStep
  <2>1. Moves(t, {}) /\ Outside({})
    BY <1>5, MovesSame DEF HaltStep, Outside
  <2> QED BY <1>3, <2>1
<1>6. CASE CallStep(t)
  <2>1. PICK ops : CallOps(ops) /\ Becomes(t, ops)
    BY <1>6 DEF CallStep
  <2>2. Moves(t, Elements(ops)) /\ Outside(Elements(ops))
    BY <1>1, <1>2, <2>1, MovesBecomes DEF CallOps, CallOp, Elements, Outside
  <2> QED BY <1>3, <2>2
<1>7. CASE SpawnStep(t)
  <2>1. Op(t).k = "spawn"
    BY <1>7 DEF SpawnStep
  <2>2. PICK new \in Nodes : Becomes(t, SpawnOps(Op(t).at, new))
    BY <1>7 DEF SpawnStep
  <2>3. PICK s \in Supervisors : s = Op(t).at
    BY <1>1, <1>2, <2>1, TopOp DEF SupervisorKinds
  <2>4. PICK ops : ops = SpawnOps(s, new)
    OBVIOUS
  <2>5. IsSeq(ops) /\ Becomes(t, ops)
    BY <2>2, <2>3, <2>4, SpawnPlain DEF PlainOps
  <2>6. Moves(t, Elements(ops))
    BY <1>1, <1>2, <2>5, MovesBecomes
  <2>7. \A op \in Elements(ops) : op.k \in {"exec", "sync"} => op.at = s
    BY <2>4, SpawnElements DEF Send
  <2>8. ASSUME NEW x \in Supervisors, Inside(t, x)'
        PROVE  Inside(t, x) \/ Entering(t, x)
    <3>1. PICK i \in 1 .. Len(stack'[t]) : stack'[t][i].k \in {"exec", "sync"} /\ stack'[t][i].at = x
      BY <2>8 DEF Inside
    <3>2. PICK op : op = stack'[t][i]
      OBVIOUS
    <3>3. Has(t, op)'
      BY <3>2 DEF Has
    <3>4. CASE op \in Elements(ops)
      BY <1>2, <2>1, <2>3, <2>7, <3>1, <3>2, <3>4 DEF Entering
    <3>5. CASE Has(t, op)
      BY <3>1, <3>2, <3>5 DEF Has, Inside
    <3> QED BY <2>6, <3>3, <3>4, <3>5 DEF Moves
  <2> QED BY <1>4, <2>5, <2>8
<1>8. CASE FileStep(t) \/ RemoveStep(t) \/ KnowStep(t)
  <2>1. Becomes(t, <<>>)
    BY <1>8 DEF FileStep, RemoveStep, KnowStep
  <2>2. Moves(t, {}) /\ Outside({})
    BY <1>1, <1>2, <2>1, MovesNone DEF Outside
  <2> QED BY <1>3, <2>2
<1>9. CASE SendToSupervisor(t)
  <2>1. PICK s \in Supervisors : s = Op(t).to
    BY <1>9 DEF SendToSupervisor
  <2>2. PICK e : e = Exec(s)
    OBVIOUS
  <2>3. Becomes(t, <<e>>) /\ Op(t).k = "send" /\ e.at = s
    BY <1>1, <1>9, <2>1, <2>2, SupervisorEffect DEF Exec
  <2>4. Moves(t, {e})
    BY <1>1, <1>2, <2>3, MovesOne
  <2>5. ASSUME NEW x \in Supervisors, Inside(t, x)'
        PROVE  Inside(t, x) \/ Entering(t, x)
    <3>1. PICK i \in 1 .. Len(stack'[t]) : stack'[t][i].k \in {"exec", "sync"} /\ stack'[t][i].at = x
      BY <2>5 DEF Inside
    <3>2. PICK op : op = stack'[t][i]
      OBVIOUS
    <3>3. Has(t, op)'
      BY <3>2 DEF Has
    <3>4. CASE op = e
      BY <1>2, <2>1, <2>3, <3>1, <3>2, <3>4 DEF Entering
    <3>5. CASE Has(t, op)
      BY <3>1, <3>2, <3>5 DEF Has, Inside
    <3> QED BY <2>4, <3>3, <3>4, <3>5 DEF Moves
  <2> QED BY <1>4, <2>3, <2>5
<1>10. CASE PostStep(t)
  <2>0. PICK a \in Actors : \E ops : PostOps(t, a, ops) /\ Becomes(t, ops)
    BY <1>10 DEF PostStep
  <2>1. PICK ops : PostOps(t, a, ops) /\ Becomes(t, ops)
    BY <2>0
  <2>2. Moves(t, Elements(ops)) /\ Outside(Elements(ops))
    BY <1>1, <1>2, <2>1, MovesPost DEF Outside
  <2> QED BY <1>3, <2>2
<1>11. CASE ScheduleStep(t)
  <2>1. PICK r : r = Run(Op(t).at)
    OBVIOUS
  <2>2. Op(t).at \in Actors /\ DeliverStack(t, Op(t).at)
    BY <1>11 DEF ScheduleStep
  <2>3. Moves(t, {}) \/ Moves(t, {r})
    BY <1>1, <1>2, <2>1, <2>2, MovesSchedule
  <2>4. Outside({}) /\ Outside({r})
    BY <2>1 DEF Outside, Run
  <2> QED BY <1>3, <2>3, <2>4
<1>12. CASE LookStep(t)
  <2>1. PICK r : r = RunOver(Op(t).at)
    OBVIOUS
  <2>2. Moves(t, {r}) /\ Outside({r})
    BY <1>1, <1>2, <1>12, <2>1, MovesLook DEF Outside, RunOver
  <2> QED BY <1>3, <2>2
<1>13. CASE Consume(t)
  <2>1. PICK e : e = Exec(Op(t).at)
    OBVIOUS
  <2>2. Op(t).k = "run"
    BY <1>13 DEF Consume, At, Op
  <2>3. Op(t).at \in Actors
    BY <1>1, <1>2, <2>2, TopOp
  <2>4. Moves(t, {e}) /\ Outside({e})
    BY <1>1, <1>2, <1>13, <2>1, <2>3, MovesConsume, NodesAssumption DEF Outside, Exec
  <2> QED BY <1>3, <2>4
<1>14. CASE Rest(t)
  <2>1. Moves(t, {}) /\ Outside({})
    BY <1>1, <1>2, <1>14, MovesRest DEF Outside
  <2> QED BY <1>3, <2>1
<1> QED BY <1>1, <1>5, <1>6, <1>7, <1>8, <1>9, <1>10, <1>11, <1>12, <1>13, <1>14, StepCases

\* Where a sync on the stack comes from.
LEMMA OverBecomes ==
  ASSUME ControlInv, NEW t \in Threads, stack[t] # <<>>, NEW ops, IsSeq(ops), Becomes(t, ops),
         NEW j \in 1 .. Len(stack'[t])
  PROVE  \/ j \in 1 .. Len(ops) /\ stack'[t][j] = ops[j]
         \/ \E i \in 2 .. Len(stack[t]) :
              /\ stack'[t][j] = stack[t][i]
              /\ \A op \in Over(t, j)' : op \in Elements(ops) \/ op \in Over(t, i)
<1>1. StackTypes /\ Replaces(t, ops)
  BY DEF ControlInv, Becomes
<1>2. /\ Len(stack[t]) \in Nat \ {0} /\ Len(ops) \in Nat /\ Len(stack'[t]) = Len(ops) + Len(stack[t]) - 1
      /\ \A k \in 1 .. Len(stack'[t]) :
           \/ k \in 1 .. Len(ops) /\ stack'[t][k] = ops[k]
           \/ /\ k - Len(ops) + 1 \in 2 .. Len(stack[t])
              /\ stack'[t][k] = stack[t][k - Len(ops) + 1]
  BY <1>1, Pushed, SeqLen
<1>3. CASE j \in 1 .. Len(ops) /\ stack'[t][j] = ops[j]
  BY <1>3
<1>4. CASE j - Len(ops) + 1 \in 2 .. Len(stack[t]) /\ stack'[t][j] = stack[t][j - Len(ops) + 1]
  <2>1. PICK i \in 2 .. Len(stack[t]) : i = j - Len(ops) + 1 /\ stack'[t][j] = stack[t][i]
    BY <1>4
  <2>2. ASSUME NEW k \in 1 .. j - 1
        PROVE  stack'[t][k] \in Elements(ops) \/ stack'[t][k] \in Over(t, i)
    <3>1. k \in 1 .. Len(stack'[t])
      BY <1>2
    <3>2. CASE k \in 1 .. Len(ops) /\ stack'[t][k] = ops[k]
      BY <3>2 DEF Elements
    <3>3. CASE k - Len(ops) + 1 \in 2 .. Len(stack[t]) /\ stack'[t][k] = stack[t][k - Len(ops) + 1]
      <4>1. k - Len(ops) + 1 \in 1 .. i - 1
        <5> DEFINE N == Len(ops)
        <5>1. N \in Nat /\ i = j - N + 1 /\ k - N + 1 >= 2 /\ j \in Int
          BY <1>2, <2>1, <3>3
        <5> HIDE DEF N
        <5>2. k - N + 1 \in 1 .. i - 1
          BY <5>1
        <5> QED BY <5>2 DEF N
      <4> QED BY <3>3, <4>1 DEF Over
    <3> QED BY <1>2, <3>1, <3>2, <3>3
  <2> QED BY <2>1, <2>2 DEF Over
<1> QED BY <1>2, <1>3, <1>4

\* A thread that is not in the step.
LEMMA SyncOther ==
  ASSUME NEW u, SyncOK(u), UNCHANGED <<program, current>>, stack'[u] = stack[u],
         Inline[program] => \A a \in Actors : inbox'[a] = inbox[a]
  PROVE  SyncOK(u)'
<1> SUFFICES ASSUME NEW i \in 1 .. Len(stack[u]), Silent(stack[u][i])
             PROVE  Syncing(stack[u][i], Over(u, i))'
  BY DEF SyncOK, Silent
<1>1. PICK y : y = stack[u][i]
  OBVIOUS
<1>2. Syncing(y, Over(u, i)) /\ Over(u, i)' = Over(u, i)
  BY <1>1 DEF SyncOK, Over
<1>3. \A op : Before(op, y)' <=> Before(op, y)
  BY DEF Before
<1>4. Syncing(y, Over(u, i))'
  BY <1>2, <1>3 DEF Syncing
<1> QED BY <1>1, <1>4

\* A step of t that touches no message.
LEMMA SyncBecomes ==
  ASSUME ControlInv, NEW t \in Threads, SyncOK(t), stack[t] # <<>>,
         NEW ops, IsSeq(ops), Becomes(t, ops), UNCHANGED <<program, current, inbox>>,
         \A op \in Elements(ops) : ~Silent(op),
         \A i \in 2 .. Len(stack[t]) : Silent(stack[t][i]) =>
           \A op \in Elements(ops) : Before(op, stack[t][i])
  PROVE  SyncOK(t)'
<1> SUFFICES ASSUME NEW j \in 1 .. Len(stack'[t]), Silent(stack'[t][j])
             PROVE  Syncing(stack[t][j], Over(t, j))'
  BY DEF SyncOK, Silent
<1>1. CASE j \in 1 .. Len(ops) /\ stack'[t][j] = ops[j]
  BY <1>1 DEF Elements
<1>2. CASE \E i \in 2 .. Len(stack[t]) :
             /\ stack'[t][j] = stack[t][i]
             /\ \A op \in Over(t, j)' : op \in Elements(ops) \/ op \in Over(t, i)
  <2>1. PICK i \in 2 .. Len(stack[t]) :
             /\ stack'[t][j] = stack[t][i]
             /\ \A op \in Over(t, j)' : op \in Elements(ops) \/ op \in Over(t, i)
    BY <1>2
  <2>2. PICK y : y = stack[t][i]
    OBVIOUS
  <2>3. Silent(y) /\ stack'[t][j] = y /\ \A op \in Elements(ops) : Before(op, y)
    BY <2>1, <2>2
  <2>4. i \in 1 .. Len(stack[t])
    OBVIOUS
  <2>5. Syncing(y, Over(t, i))
    BY <2>2, <2>3, <2>4 DEF SyncOK
  <2>6. \A op : Before(op, y)' <=> Before(op, y)
    BY DEF Before
  <2>7. Syncing(y, Over(t, j))'
    BY <2>1, <2>3, <2>5, <2>6 DEF Syncing
  <2> QED BY <2>3, <2>7
<1> QED BY <1>1, <1>2, OverBecomes

LEMMA SyncTop ==
  ASSUME ControlInv, NEW t \in Threads, SyncOK(t), stack[t] # <<>>,
         NEW i \in 2 .. Len(stack[t]), NEW y, y = stack[t][i], Silent(y)
  PROVE  /\ Syncing(y, Over(t, i)) /\ Before(Op(t), y)
         /\ y.at \in Supervisors /\ i \in 1 .. Len(stack[t])
<1>1. /\ i \in 1 .. Len(stack[t]) /\ 1 \in 1 .. i - 1
  OBVIOUS
<1>2. stack[t][1] = Op(t)
  BY TopOp
<1>3. Op(t) \in Over(t, i)
  BY <1>1, <1>2 DEF Over
<1>4. Syncing(y, Over(t, i))
  BY <1>1 DEF SyncOK
<1>5. y.at \in Supervisors
  BY <1>1 DEF ControlInv, PlacedOK, Placed, Silent, SupervisorKinds
<1> QED BY <1>1, <1>3, <1>4, <1>5 DEF Syncing

LEMMA SyncCalls ==
  ASSUME ControlInv, LinksLocal, NEW t \in Threads, SyncOK(t), stack[t] # <<>>, CallStep(t)
  PROVE  SyncOK(t)'
<1>1. /\ UNCHANGED <<program, current, inbox>> /\ Op(t).k \notin {"run", "wake", "spawn", "know"}
      /\ Op(t).k = "exec" => current[Op(t).at].cmd \notin {"add_link", "remove_link"}
  BY DEF CallStep
<1>2. PICK ops : CallOps(ops) /\ Makes(t, ops) /\ Becomes(t, ops)
  BY DEF CallStep
<1>3. \A op \in Elements(ops) : ~Silent(op)
  BY <1>2 DEF CallOps, CallOp, Elements, Silent
<1>4. ASSUME NEW i \in 2 .. Len(stack[t]), Silent(stack[t][i])
      PROVE  FALSE
  <2>1. PICK y : y = stack[t][i]
    OBVIOUS
  <2>2. Before(Op(t), y)
    BY <1>4, <2>1, SyncTop
  <2>3. Op(t).k = "send" /\ Op(t).msg.cmd = "add_link"
    BY <1>1, <2>2 DEF Before
  <2>4. Op(t).to \in Supervisors /\ ~Local(Op(t).to, Op(t).msg.cmd)
    BY <1>2, <2>3 DEF Makes
  <2> QED BY <2>3, <2>4 DEF LinksLocal
<1> QED BY <1>1, <1>2, <1>3, <1>4, SyncBecomes DEF CallOps

LEMMA SyncSpawns ==
  ASSUME ControlInv, DataTypes, UnusedOK, CallsLive, NEW t \in Threads, SyncOK(t), stack[t] # <<>>,
         SpawnStep(t)
  PROVE  SyncOK(t)'
<1>1. UNCHANGED <<program, current, inbox>> /\ Op(t).k = "spawn"
  BY DEF SpawnStep
<1>2. PICK new \in Nodes \ created : Becomes(t, SpawnOps(Op(t).at, new))
  BY DEF SpawnStep
<1>3. PICK s \in Supervisors : s = Op(t).at
  BY <1>1, TopOp DEF SupervisorKinds
<1>4. new # s
  BY <1>1, <1>3 DEF CallsLive
<1>5. PICK ops : ops = SpawnOps(s, new)
  OBVIOUS
<1>6. IsSeq(ops) /\ Becomes(t, ops)
  BY <1>2, <1>3, <1>5, SpawnPlain DEF PlainOps
<1>7. PICK y : y = [k |-> "sync", at |-> s, new |-> new, cause |-> current[s]]
  OBVIOUS
<1>8. y.k = "sync" /\ y.at = s /\ y.new = new /\ y.cause = current[s]
  BY <1>7
<1>9. /\ Len(ops) \in {3, 4} /\ ops[Len(ops)] = y
      /\ \A i \in 1 .. Len(ops) - 1 : ops[i].k # "sync"
      /\ Routing[s] # "lite" => /\ Len(ops) = 3 /\ ops[1].k = "know"
                                /\ ops[2].k = "send" /\ ops[2].to = new /\ ops[2].msg.cmd = "add_link"
  <2>1. /\ Len(ops) \in {3, 4}
        /\ Len(ops) = 4 => ops[1].k = "cast"
        /\ ops[Len(ops) - 2] = [k |-> "know", at |-> s, new |-> new]
        /\ ops[Len(ops) - 1] = Send(new, Msg(s, "add_link", <<>>))
        /\ ops[Len(ops)] = y
    BY <1>5, <1>7, SpawnForm
  <2>2. Routing[s] # "lite" => Len(ops) = 3
    <3>1. ASSUME Routing[s] # "lite"
          PROVE  Len(SpawnOps(s, new)) = 3
      BY <3>1 DEF SpawnOps, Announce
    <3> QED BY <1>5, <3>1
  <2>3. ops[Len(ops) - 2].k = "know"
    BY <2>1
  <2>4. ops[Len(ops) - 1].k = "send" /\ ops[Len(ops) - 1].to = new /\ ops[Len(ops) - 1].msg.cmd = "add_link"
    BY <2>1 DEF Send, Msg
  <2>5. \A i \in 1 .. Len(ops) - 1 : i = Len(ops) - 1 \/ i = Len(ops) - 2 \/ (i = 1 /\ Len(ops) = 4)
    BY <2>1
  <2>6. \A i \in 1 .. Len(ops) - 1 : ops[i].k # "sync"
    BY <2>1, <2>3, <2>4, <2>5
  <2>7. Len(ops) = 3 => Len(ops) - 2 = 1 /\ Len(ops) - 1 = 2
    OBVIOUS
  <2> QED BY <2>1, <2>2, <2>3, <2>4, <2>6, <2>7
<1> SUFFICES ASSUME NEW j \in 1 .. Len(stack'[t]), Silent(stack'[t][j])
             PROVE  Syncing(stack[t][j], Over(t, j))'
  BY DEF SyncOK, Silent
<1>10. CASE j \in 1 .. Len(ops) /\ stack'[t][j] = ops[j]
  <2>1. j = Len(ops)
    <3>1. ops[j].k = "sync"
      BY <1>10 DEF Silent
    <3>2. j \notin 1 .. Len(ops) - 1
      BY <1>9, <3>1
    <3> QED BY <1>9, <1>10, <3>2
  <2>2. stack'[t][j] = y /\ Routing[s] # "lite"
    BY <1>8, <1>9, <1>10, <2>1 DEF Silent
  <2>3. j = 3 /\ \A k \in 1 .. 2 : stack'[t][k] = ops[k]
    <3>1. j = 3 /\ Len(ops) = 3
      BY <1>9, <2>1, <2>2
    <3>2. \A k \in 1 .. Len(ops) : stack'[t][k] = ops[k]
      BY <1>6, Pushed DEF ControlInv, Becomes
    <3> QED BY <3>1, <3>2
  <2>4. \A op \in Over(t, j)' : op = ops[1] \/ op = ops[2]
    <3>1. \A k \in 1 .. j - 1 : k = 1 \/ k = 2
      BY <2>3
    <3>2. \A k \in 1 .. j - 1 : stack'[t][k] = ops[1] \/ stack'[t][k] = ops[2]
      BY <2>3, <3>1
    <3> QED BY <3>2 DEF Over
  <2>5. \A op \in Over(t, j)' : Before(op, y)'
    BY <1>8, <1>9, <2>2, <2>4 DEF Before
  <2>6. new \in Actors => inbox[new] = <<>>
    BY DEF UnusedOK
  <2>7. Syncing(y, Over(t, j))'
    BY <1>1, <1>4, <1>8, <2>5, <2>6, SeqEmpty DEF Syncing
  <2> QED BY <2>2, <2>7
<1>11. CASE \E i \in 2 .. Len(stack[t]) : stack'[t][j] = stack[t][i]
  <2>1. PICK i \in 2 .. Len(stack[t]) : stack'[t][j] = stack[t][i]
    BY <1>11
  <2>2. PICK z : z = stack[t][i]
    OBVIOUS
  <2>3. Before(Op(t), z)
    BY <2>1, <2>2, SyncTop
  <2> QED BY <1>1, <2>3 DEF Before
<1> QED BY <1>6, <1>10, <1>11, OverBecomes

\* With actors run inside execute() there is but one thread.
LEMMA InlineMain ==
  ASSUME ControlInv, Inline[program], NEW t \in Threads, stack[t] # <<>>
  PROVE  t = Main
BY DEF ControlInv, BottomOK, Threads

LEMMA SyncSupervisor ==
  ASSUME ControlInv, DataTypes, OneCaller, NEW t \in Threads, SendToSupervisor(t),
         NEW u \in Threads, SyncOK(u)
  PROVE  SyncOK(u)'
<1>1. PICK s \in Supervisors : s = Op(t).to
  BY DEF SendToSupervisor
<1>2. PICK msg : msg = Op(t).msg
  OBVIOUS
<1>3. PICK e : e = Exec(s)
  OBVIOUS
<1>4. /\ Becomes(t, <<e>>) /\ Op(t).k = "send" /\ stack[t] # <<>> /\ UNCHANGED <<program, inbox>>
      /\ current' = [current EXCEPT ![s] = msg] /\ e.k = "exec" /\ e.at = s
  BY <1>1, <1>2, <1>3, SupervisorEffect DEF Exec
<1>5. s \in Nodes /\ current'[s] = msg /\ \A n \in Nodes : n # s => current'[n] = current[n]
  BY <1>4 DEF DataTypes, Nodes
<1>6. IsSeq(<<e>>) /\ Elements(<<e>>) = {e}
  BY SeqOne, ElementsOne
<1>7. CASE u = t
  <2> SUFFICES ASSUME NEW j \in 1 .. Len(stack'[t]), Silent(stack'[t][j])
               PROVE  Syncing(stack[t][j], Over(t, j))'
    BY <1>7 DEF SyncOK, Silent
  <2>1. CASE j \in 1 .. Len(<<e>>) /\ stack'[t][j] = <<e>>[j]
    <3>1. stack'[t][j] = e
      BY <1>6, <2>1 DEF Elements
    <3> QED BY <1>4, <3>1 DEF Silent
  <2>2. CASE \E i \in 2 .. Len(stack[t]) :
               /\ stack'[t][j] = stack[t][i]
               /\ \A op \in Over(t, j)' : op \in Elements(<<e>>) \/ op \in Over(t, i)
    <3>1. PICK i \in 2 .. Len(stack[t]) :
               /\ stack'[t][j] = stack[t][i]
               /\ \A op \in Over(t, j)' : op \in Elements(<<e>>) \/ op \in Over(t, i)
      BY <2>2
    <3>2. PICK y : y = stack[t][i]
      OBVIOUS
    <3>3. Syncing(y, Over(t, i)) /\ Before(Op(t), y) /\ y.at \in Supervisors
      BY <1>4, <1>7, <3>1, <3>2, SyncTop
    <3>4. s = y.new /\ msg.cmd = "add_link"
      BY <1>1, <1>2, <1>4, <3>3 DEF Before
    <3>5. y.at # s /\ current'[y.at] = current[y.at] /\ current'[y.new].cmd = "add_link" /\ y.new \notin Actors
      BY <1>5, <3>3, <3>4, NodesAssumption DEF Syncing, Nodes
    <3>6. \A op : Before(op, y) => Before(op, y)'
      BY <1>4, <3>5 DEF Before
    <3>7. Before(e, y)'
      BY <1>4, <3>4, <3>5 DEF Before
    <3>8. \A op \in Over(t, j)' : Before(op, y)'
      BY <1>6, <3>1, <3>3, <3>6, <3>7 DEF Syncing
    <3>9. Syncing(y, Over(t, j))'
      BY <1>4, <3>3, <3>5, <3>8 DEF Syncing
    <3> QED BY <3>1, <3>2, <3>9
  <2> QED BY <1>4, <1>6, <2>1, <2>2, OverBecomes
<1>8. CASE u # t
  <2>1. stack'[u] = stack[u] /\ Entering(t, s)
    BY <1>1, <1>4, <1>8 DEF Becomes, Entering
  <2>2. ~Inside(u, s)
    BY <1>8, <2>1 DEF OneCaller
  <2> SUFFICES ASSUME NEW i \in 1 .. Len(stack[u]), Silent(stack[u][i])
               PROVE  Syncing(stack[u][i], Over(u, i))'
    BY <2>1 DEF SyncOK, Silent
  <2>3. PICK y : y = stack[u][i]
    OBVIOUS
  <2>4. Syncing(y, Over(u, i)) /\ Over(u, i)' = Over(u, i)
    BY <2>1, <2>3 DEF SyncOK, Over
  <2>5. y.at # s /\ y.at \in Supervisors /\ y.k = "sync"
    BY <2>2, <2>3 DEF Inside, ControlInv, PlacedOK, Placed, Silent, SupervisorKinds
  <2>6. current'[y.at] = current[y.at]
    BY <1>5, <2>5 DEF Nodes
  <2>7. ASSUME NEW op \in Over(u, i)
        PROVE  Before(op, y)'
    <3>1. Before(op, y)
      BY <2>4 DEF Syncing
    <3>2. CASE op.k = "exec" /\ op.at = y.new
      <4>1. PICK j \in 1 .. i - 1 : op = stack[u][j]
        BY DEF Over
      <4>2. j \in 1 .. Len(stack[u])
        BY SeqLen DEF ControlInv, StackTypes
      <4>3. y.new # s /\ y.new \in Nodes
        BY <2>2, <3>2, <4>1, <4>2 DEF Inside, ControlInv, ExecOK
      <4>4. current'[y.new] = current[y.new]
        BY <1>5, <4>3
      <4> QED BY <1>4, <3>1, <4>4 DEF Before
    <3>3. CASE op.k # "exec"
      BY <1>4, <3>1, <3>3 DEF Before
    <3> QED BY <3>1, <3>2, <3>3 DEF Before
  <2>8. Syncing(y, Over(u, i))'
    BY <1>4, <2>4, <2>6, <2>7 DEF Syncing
  <2> QED BY <2>1, <2>3, <2>8
<1> QED BY <1>7, <1>8

LEMMA SyncFiles ==
  ASSUME ControlInv, DataTypes, OneInside, NEW t \in Threads, stack[t] # <<>>, FileStep(t),
         NEW u \in Threads, SyncOK(u)
  PROVE  SyncOK(u)'
<1>1. PICK n : n = Op(t).at
  OBVIOUS
<1>2. /\ Op(t).k = "exec" /\ Becomes(t, <<>>) /\ UNCHANGED <<program, inbox>>
      /\ current' \in {current, Emptied(n)}
  BY <1>1 DEF FileStep
<1>3. n \in Nodes
  BY <1>1, <1>2, TopOp
<1>4. /\ \A m \in Nodes : current'[m].cmd = current[m].cmd
      /\ \A m \in Nodes : m # n => current'[m] = current[m]
  BY <1>2, <1>3 DEF Emptied, Msg, DataTypes
<1>5. CASE u = t
  <2> SUFFICES ASSUME NEW j \in 1 .. Len(stack'[t]), Silent(stack'[t][j])
               PROVE  Syncing(stack[t][j], Over(t, j))'
    BY <1>5 DEF SyncOK, Silent
  <2>1. PICK ops : ops = <<>>
    OBVIOUS
  <2>2. IsSeq(ops) /\ Len(ops) = 0 /\ Elements(ops) = {} /\ Becomes(t, ops)
    BY <1>2, <2>1, SeqEmpty, ElementsNone
  <2>3. \/ j \in 1 .. Len(ops) /\ stack'[t][j] = ops[j]
        \/ \E i \in 2 .. Len(stack[t]) :
              /\ stack'[t][j] = stack[t][i]
              /\ \A op \in Over(t, j)' : op \in Elements(ops) \/ op \in Over(t, i)
    BY <2>2, OverBecomes
  <2>4. PICK i \in 2 .. Len(stack[t]) : stack'[t][j] = stack[t][i] /\ \A op \in Over(t, j)' : op \in Over(t, i)
    BY <2>2, <2>3
  <2>5. PICK y : y = stack[t][i]
    OBVIOUS
  <2>6. Syncing(y, Over(t, i)) /\ Before(Op(t), y) /\ y.at \in Supervisors
    BY <1>5, <2>4, <2>5, SyncTop
  <2>7. y.new = n /\ y.at # n
    BY <1>1, <1>2, <2>6 DEF Before, Syncing
  <2>8. current'[y.at] = current[y.at]
    BY <1>4, <2>6, <2>7 DEF Nodes
  <2>9. \A op : Before(op, y) => Before(op, y)'
    BY <1>2, <1>3, <1>4, <2>7 DEF Before
  <2>10. \A op \in Over(t, j)' : Before(op, y)'
    BY <2>4, <2>6, <2>9 DEF Syncing
  <2>11. Syncing(y, Over(t, j))'
    BY <1>2, <2>6, <2>8, <2>10 DEF Syncing
  <2> QED BY <2>4, <2>5, <2>11
<1>6. CASE u # t
  <2>1. stack'[u] = stack[u]
    BY <1>2, <1>6 DEF Becomes
  <2> SUFFICES ASSUME NEW i \in 1 .. Len(stack[u]), Silent(stack[u][i])
               PROVE  Syncing(stack[u][i], Over(u, i))'
    BY <2>1 DEF SyncOK, Silent
  <2>2. PICK y : y = stack[u][i]
    OBVIOUS
  <2>3. Syncing(y, Over(u, i)) /\ Over(u, i)' = Over(u, i)
    BY <2>1, <2>2 DEF SyncOK, Over
  <2>4. y.at \in Supervisors /\ Inside(u, y.at)
    BY <2>2 DEF Inside, ControlInv, PlacedOK, Placed, Silent, SupervisorKinds
  <2>5. Inside(t, n)
    BY <1>1, <1>2, TopOp DEF Inside
  <2>6. y.at # n /\ current'[y.at] = current[y.at]
    BY <1>4, <1>6, <2>4, <2>5 DEF OneInside, Nodes
  <2>7. ASSUME NEW op \in Over(u, i)
        PROVE  Before(op, y)'
    <3>1. Before(op, y)
      BY <2>3 DEF Syncing
    <3>2. CASE op.k = "exec" /\ op.at = y.new
      <4>1. PICK j \in 1 .. i - 1 : op = stack[u][j]
        BY DEF Over
      <4>2. j \in 1 .. Len(stack[u])
        BY SeqLen DEF ControlInv, StackTypes
      <4>3. y.new \in Nodes
        BY <3>2, <4>1, <4>2 DEF ControlInv, ExecOK
      <4> QED BY <1>2, <1>4, <3>1, <4>3 DEF Before
    <3>3. CASE op.k # "exec"
      BY <1>2, <3>1, <3>3 DEF Before
    <3> QED BY <3>1, <3>2, <3>3 DEF Before
  <2>8. Syncing(y, Over(u, i))'
    BY <1>2, <2>3, <2>6, <2>7 DEF Syncing
  <2> QED BY <2>1, <2>2, <2>8
<1> QED BY <1>5, <1>6

LEMMA SyncConsumes ==
  ASSUME ControlInv, DataTypes, NEW t \in Threads, Consume(t), NEW u \in Threads, SyncOK(u)
  PROVE  SyncOK(u)'
<1>1. PICK a : a = Op(t).at
  OBVIOUS
<1>2. /\ Op(t).k = "run" /\ stack[t] # <<>> /\ inbox[a] # <<>> /\ UNCHANGED program
      /\ current' = [current EXCEPT ![a] = Head(inbox[a])]
      /\ inbox' = [inbox EXCEPT ![a] = Tail(@)]
  BY <1>1 DEF Consume, At, Op
<1>3. a \in Actors /\ a \in Nodes
  BY <1>1, <1>2, TopOp DEF Nodes
<1>4. /\ inbox'[a] = Tail(inbox[a]) /\ IsSeq(inbox[a])
      /\ \A b \in Actors : b # a => inbox'[b] = inbox[b]
      /\ \A n \in Nodes : n # a => current'[n] = current[n]
      /\ current'[a] = Head(inbox[a])
  BY <1>2, <1>3 DEF DataTypes
<1>5. /\ Len(inbox[a]) \in Nat \ {0} /\ Head(inbox[a]) = inbox[a][1]
      /\ Len(Tail(inbox[a])) = Len(inbox[a]) - 1
      /\ \A i \in 1 .. Len(inbox[a]) - 1 : Tail(inbox[a])[i] = inbox[a][i + 1]
  BY <1>2, <1>4, SeqTail
<1>6. /\ 1 \in 1 .. Len(inbox[a])
      /\ \A i \in 1 .. Len(inbox'[a]) : i + 1 \in 1 .. Len(inbox[a]) /\ inbox'[a][i] = inbox[a][i + 1]
  BY <1>4, <1>5
<1>7. PICK e : e = Exec(a)
  OBVIOUS
<1>8. /\ stack'[t] = <<e>> \o stack[t] /\ IsSeq(stack[t]) /\ e.k = "exec" /\ e.at = a
      /\ \A v \in Threads : v # t => stack'[v] = stack[v]
  BY <1>1, <1>2, <1>7, StackEffects DEF ControlInv, StackTypes, Exec
<1>9. CASE u = t
  <2> SUFFICES ASSUME NEW j \in 1 .. Len(stack'[t]), Silent(stack'[t][j])
               PROVE  Syncing(stack[t][j], Over(t, j))'
    BY <1>9 DEF SyncOK, Silent
  <2> DEFINE h == <<e>>
  <2>1. IsSeq(h) /\ Len(h) = 1 /\ h[1] = e /\ stack'[t] = h \o stack[t]
    BY <1>8, SeqOne
  <2> HIDE DEF h
  <2>2. /\ Len(stack'[t]) = Len(h) + Len(stack[t]) /\ Len(stack[t]) \in Nat
        /\ \A i \in 1 .. Len(h) : stack'[t][i] = h[i]
        /\ \A i \in 1 .. Len(stack[t]) : stack'[t][Len(h) + i] = stack[t][i]
    <3>1. IsSeq(h) /\ IsSeq(stack[t]) /\ stack'[t] = h \o stack[t]
      BY <1>8, <2>1
    <3>2. Len(stack[t]) \in Nat
      BY <3>1, SeqLen
    <3> QED BY <3>1, <3>2, SeqConcat
  <2>3. stack'[t][1] = e /\ \A k \in 2 .. Len(stack'[t]) : k - 1 \in 1 .. Len(stack[t]) /\ stack'[t][k] = stack[t][k - 1]
    <3>1. stack'[t][1] = e
      BY <2>1, <2>2
    <3>2. ASSUME NEW k \in 2 .. Len(stack'[t])
          PROVE  k - 1 \in 1 .. Len(stack[t]) /\ stack'[t][k] = stack[t][k - 1]
      <4>1. k - 1 \in 1 .. Len(stack[t]) /\ Len(h) + (k - 1) = k
        BY <2>1, <2>2
      <4> QED BY <2>2, <4>1
    <3> QED BY <3>1, <3>2
  <2>4. j # 1
    BY <1>8, <2>3 DEF Silent
  <2>5. PICK i \in 1 .. Len(stack[t]) : i = j - 1 /\ stack'[t][j] = stack[t][i]
    BY <2>2, <2>3, <2>4
  <2>6. PICK y : y = stack[t][i]
    OBVIOUS
  <2>7. i # 1
    BY <1>2, <2>5, TopOp DEF Silent
  <2>8. i \in 2 .. Len(stack[t]) /\ Silent(y)
    BY <2>5, <2>6, <2>7
  <2>9. Syncing(y, Over(t, i)) /\ Before(Op(t), y) /\ y.at \in Supervisors
    BY <1>2, <1>9, <2>6, <2>8, SyncTop
  <2>10. y.new = a /\ Inline[program]
    BY <1>1, <1>2, <2>9 DEF Before
  <2>11. /\ \A k \in 1 .. Len(inbox[a]) : inbox[a][k].cmd = "add_link"
    BY <1>3, <2>9, <2>10 DEF Syncing
  <2>12. current'[a].cmd = "add_link" /\ \A k \in 1 .. Len(inbox'[a]) : inbox'[a][k].cmd = "add_link"
    BY <1>4, <1>5, <1>6, <2>11
  <2>13. current'[y.at] = current[y.at]
    BY <1>3, <1>4, <2>9, NodesAssumption DEF Nodes
  <2>14. \A op : Before(op, y) => Before(op, y)'
    BY <1>2, <2>10, <2>12 DEF Before
  <2>15. Before(e, y)'
    BY <1>2, <1>8, <2>10, <2>12 DEF Before
  <2>16. \A op \in Over(t, j)' : op = e \/ op \in Over(t, i)
    <3>1. ASSUME NEW k \in 1 .. j - 1
          PROVE  stack'[t][k] = e \/ stack'[t][k] \in Over(t, i)
      <4>1. CASE k = 1
        BY <2>3, <4>1
      <4>2. CASE k # 1
        <5>1. k \in 2 .. Len(stack'[t]) /\ k - 1 \in 1 .. i - 1
          BY <2>2, <2>5, <4>2
        <5> QED BY <2>3, <5>1 DEF Over
      <4> QED BY <4>1, <4>2
    <3> QED BY <3>1 DEF Over
  <2>17. \A op \in Over(t, j)' : Before(op, y)'
    BY <2>9, <2>14, <2>15, <2>16 DEF Syncing
  <2>18. Syncing(y, Over(t, j))'
    BY <1>2, <2>9, <2>10, <2>12, <2>13, <2>17 DEF Syncing
  <2> QED BY <2>5, <2>6, <2>18
<1>10. CASE u # t
  <2>1. stack'[u] = stack[u]
    BY <1>8, <1>10
  <2> SUFFICES ASSUME NEW i \in 1 .. Len(stack[u]), Silent(stack[u][i])
               PROVE  Syncing(stack[u][i], Over(u, i))'
    BY <2>1 DEF SyncOK, Silent
  <2>2. ~Inline[program]
    <3>1. stack[u] # <<>>
      BY SeqEmpty
    <3> QED BY <1>2, <1>10, <3>1, InlineMain
  <2>3. PICK y : y = stack[u][i]
    OBVIOUS
  <2>4. Syncing(y, Over(u, i)) /\ Over(u, i)' = Over(u, i)
    BY <2>1, <2>3 DEF SyncOK, Over
  <2>5. y.at \in Supervisors
    BY <2>3 DEF ControlInv, PlacedOK, Placed, Silent, SupervisorKinds
  <2>6. current'[y.at] = current[y.at]
    BY <1>3, <1>4, <2>5, NodesAssumption DEF Nodes
  <2>7. ASSUME NEW op \in Over(u, i)
        PROVE  Before(op, y)'
    <3>1. Before(op, y)
      BY <2>4 DEF Syncing
    <3>2. CASE op.k = "exec"
      <4>1. PICK j \in 1 .. i - 1 : op = stack[u][j]
        BY DEF Over
      <4>2. j \in 1 .. Len(stack[u])
        BY SeqLen DEF ControlInv, StackTypes
      <4>3. y.new \notin Actors /\ y.new \in Nodes
        BY <2>2, <3>1, <3>2, <4>1, <4>2 DEF Before, ControlInv, ExecOK
      <4>4. current'[y.new] = current[y.new]
        BY <1>3, <1>4, <4>3
      <4> QED BY <1>2, <3>1, <4>4 DEF Before
    <3>3. CASE op.k # "exec"
      BY <1>2, <3>1, <3>3 DEF Before
    <3> QED BY <3>2, <3>3
  <2>8. Syncing(y, Over(u, i))'
    BY <1>2, <2>2, <2>4, <2>6, <2>7 DEF Syncing
  <2> QED BY <2>1, <2>3, <2>8
<1> QED BY <1>9, <1>10

LEMMA SyncPosts ==
  ASSUME ControlInv, DataTypes, LinksLocal, NEW t \in Threads, stack[t] # <<>>, PostStep(t),
         NEW u \in Threads, SyncOK(u)
  PROVE  SyncOK(u)'
<1>1. PICK msg : msg = Op(t).msg
  OBVIOUS
<1>2. PICK a \in Actors : /\ Post(a, msg) /\ Receives(t, a) /\ Op(t).k = "send"
                          /\ \E ops : PostOps(t, a, ops) /\ Becomes(t, ops)
                          /\ UNCHANGED <<program, current>>
  BY <1>1 DEF PostStep
<1>3. PICK ops : PostOps(t, a, ops) /\ Becomes(t, ops)
  BY <1>2
<1>4. inbox' = [inbox EXCEPT ![a] = Append(@, msg)]
  BY <1>2 DEF Post
<1>5. /\ IsSeq(inbox[a]) /\ inbox'[a] = Append(inbox[a], msg)
      /\ \A b \in Actors : b # a => inbox'[b] = inbox[b]
  BY <1>4 DEF DataTypes
<1>6. IsSeq(ops) /\ \A op \in Elements(ops) : op.k \in {"wake", "turn"}
  BY <1>3, PostForm, MovesPost DEF PlainOps
<1>7. CASE u = t
  <2> SUFFICES ASSUME NEW j \in 1 .. Len(stack'[t]), Silent(stack'[t][j])
               PROVE  Syncing(stack[t][j], Over(t, j))'
    BY <1>7 DEF SyncOK, Silent
  <2>1. \/ j \in 1 .. Len(ops) /\ stack'[t][j] = ops[j]
        \/ \E i \in 2 .. Len(stack[t]) :
              /\ stack'[t][j] = stack[t][i]
              /\ \A op \in Over(t, j)' : op \in Elements(ops) \/ op \in Over(t, i)
    BY <1>3, <1>6, OverBecomes
  <2>2. PICK i \in 2 .. Len(stack[t]) :
             /\ stack'[t][j] = stack[t][i]
             /\ \A op \in Over(t, j)' : op \in Elements(ops) \/ op \in Over(t, i)
    <3>1. ~(j \in 1 .. Len(ops) /\ stack'[t][j] = ops[j])
      BY <1>6 DEF Elements, Silent
    <3> QED BY <2>1, <3>1
  <2>3. PICK y : y = stack[t][i]
    OBVIOUS
  <2>4. Syncing(y, Over(t, i)) /\ Before(Op(t), y) /\ y.at \in Supervisors
    BY <1>7, <2>2, <2>3, SyncTop
  <2>5. y.new = a /\ msg.cmd = "add_link"
    BY <1>1, <1>2, <2>4 DEF Before, Receives, LinksLocal
  <2>6. \A op \in Over(t, j)' : Before(op, y)'
    <3>1. \A op : Before(op, y)' <=> Before(op, y)
      BY <1>2 DEF Before
    <3>2. ops = <<Wake(a)>>
      BY <1>1, <1>3, <2>5 DEF PostOps, RedirectRobin, LinksLocal
    <3>3. PICK w : w = Wake(a)
      OBVIOUS
    <3>4. Elements(ops) = {w} /\ w.k = "wake" /\ w.at = a
      BY <3>2, <3>3, ElementsOne DEF Wake
    <3>5. Before(w, y)
      BY <2>5, <3>4 DEF Before
    <3> QED BY <2>2, <2>4, <3>1, <3>4, <3>5 DEF Syncing
  <2>7. Inline[program] => \A k \in 1 .. Len(inbox'[a]) : inbox'[a][k].cmd = "add_link"
    <3> DEFINE q == inbox[a]
    <3>1. IsSeq(q) /\ inbox'[a] = Append(q, msg)
      BY <1>5
    <3>2. Inline[program] => \A k \in 1 .. Len(q) : q[k].cmd = "add_link"
      BY <2>4, <2>5 DEF Syncing
    <3> HIDE DEF q
    <3>3. /\ Len(inbox'[a]) = Len(q) + 1 /\ inbox'[a][Len(q) + 1] = msg /\ Len(q) \in Nat
          /\ \A k \in 1 .. Len(q) : inbox'[a][k] = q[k]
      BY <3>1, SeqAppend, SeqLen
    <3>4. \A k \in 1 .. Len(inbox'[a]) : k \in 1 .. Len(q) \/ k = Len(q) + 1
      BY <3>3
    <3> QED BY <2>5, <3>2, <3>3, <3>4
  <2>8. Syncing(y, Over(t, j))'
    BY <1>2, <2>4, <2>5, <2>6, <2>7 DEF Syncing
  <2> QED BY <2>2, <2>3, <2>8
<1>8. CASE u # t
  <2>1. stack'[u] = stack[u]
    BY <1>3, <1>8 DEF Becomes
  <2>2. CASE stack[u] = <<>>
    BY <2>1, <2>2, SeqEmpty DEF SyncOK
  <2>3. CASE stack[u] # <<>>
    <3>1. ~Inline[program]
      BY <1>8, <2>3, InlineMain
    <3> QED BY <1>2, <2>1, <3>1, SyncOther
  <2> QED BY <2>2, <2>3
<1> QED BY <1>7, <1>8

LEMMA SyncSchedules ==
  ASSUME ControlInv, DataTypes, NEW t \in Threads, stack[t] # <<>>, ScheduleStep(t),
         NEW u \in Threads, SyncOK(u)
  PROVE  SyncOK(u)'
<1>1. PICK a \in Actors : /\ Op(t).at = a /\ DeliverStack(t, a) /\ Op(t).k = "wake"
                          /\ UNCHANGED <<program, current, inbox>>
  BY DEF ScheduleStep
<1>2. PICK r : r = Run(a)
  OBVIOUS
<1>3. r.k = "run" /\ r.at = a
  BY <1>2 DEF Run
<1>4. CASE u = t
  <2>1. \E ops : /\ IsSeq(ops) /\ \A op \in Elements(ops) : op = r /\ Inline[program]
                 /\ \A j \in 1 .. Len(stack'[t]) :
                      \/ j \in 1 .. Len(ops) /\ stack'[t][j] = ops[j]
                      \/ \E i \in 2 .. Len(stack[t]) :
                           /\ stack'[t][j] = stack[t][i]
                           /\ \A op \in Over(t, j)' : op \in Elements(ops) \/ op \in Over(t, i)
    <3>1. CASE a \in running /\ Becomes(t, <<>>)
      <4>1. IsSeq(<<>>) /\ Elements(<<>>) = {}
        BY SeqEmpty, ElementsNone
      <4>2. PICK ops : ops = <<>>
        OBVIOUS
      <4>3. IsSeq(ops) /\ Elements(ops) = {} /\ Becomes(t, ops)
        BY <3>1, <4>1, <4>2
      <4> QED BY <4>3, OverBecomes
    <3>2. CASE a \notin running /\ Inline[program] /\ Becomes(t, <<Run(a)>>)
      <4>1. PICK ops : ops = <<r>>
        OBVIOUS
      <4>2. IsSeq(ops) /\ Elements(ops) = {r} /\ Becomes(t, ops)
        BY <1>2, <3>2, <4>1, SeqOne, ElementsOne
      <4> QED BY <3>2, <4>2, OverBecomes
    <3>3. CASE /\ a # t /\ stack[a] = <<>>
               /\ stack'[t] = Tail(stack[t]) /\ stack'[a] = <<Run(a)>>
               /\ \A v \in Threads : v \notin {t, a} => stack'[v] = stack[v]
      <4>1. IsSeq(<<>>) /\ Elements(<<>>) = {} /\ Len(<<>>) = 0
        BY SeqEmpty, ElementsNone
      <4>2. /\ Len(stack[t]) \in Nat \ {0} /\ Len(Tail(stack[t])) = Len(stack[t]) - 1
            /\ \A i \in 1 .. Len(stack[t]) - 1 : Tail(stack[t])[i] = stack[t][i + 1]
        BY SeqTail DEF ControlInv, StackTypes
      <4>3. \A k \in 1 .. Len(stack'[t]) : k + 1 \in 2 .. Len(stack[t]) /\ stack'[t][k] = stack[t][k + 1]
        BY <3>3, <4>2
      <4>4. ASSUME NEW j \in 1 .. Len(stack'[t])
            PROVE  \A op \in Over(t, j)' : op \in Over(t, j + 1)
        <5>1. \A k \in 1 .. j - 1 : k \in 1 .. Len(stack'[t]) /\ k + 1 \in 1 .. (j + 1) - 1
          BY <3>3, <4>2
        <5> QED BY <4>3, <5>1 DEF Over
      <4> QED BY <4>1, <4>3, <4>4
    <3> QED BY <1>1, <3>1, <3>2, <3>3 DEF DeliverStack
  <2> SUFFICES ASSUME NEW j \in 1 .. Len(stack'[t]), Silent(stack'[t][j])
               PROVE  Syncing(stack[t][j], Over(t, j))'
    BY <1>4 DEF SyncOK, Silent
  <2>2. PICK i \in 2 .. Len(stack[t]) :
             /\ stack'[t][j] = stack[t][i]
             /\ \A op \in Over(t, j)' : (op = r /\ Inline[program]) \/ op \in Over(t, i)
    <3>1. PICK ops : /\ \A op \in Elements(ops) : op = r /\ Inline[program]
                     /\ \/ j \in 1 .. Len(ops) /\ stack'[t][j] = ops[j]
                        \/ \E i \in 2 .. Len(stack[t]) :
                             /\ stack'[t][j] = stack[t][i]
                             /\ \A op \in Over(t, j)' : op \in Elements(ops) \/ op \in Over(t, i)
      BY <2>1
    <3>2. ~(j \in 1 .. Len(ops) /\ stack'[t][j] = ops[j])
      BY <1>3, <3>1 DEF Elements, Silent
    <3> QED BY <3>1, <3>2
  <2>3. PICK y : y = stack[t][i]
    OBVIOUS
  <2>4. Syncing(y, Over(t, i)) /\ Before(Op(t), y) /\ y.at \in Supervisors
    BY <1>4, <2>2, <2>3, SyncTop
  <2>5. y.new = a
    BY <1>1, <2>4 DEF Before
  <2>6. \A op \in Over(t, j)' : Before(op, y)'
    <3>1. \A op : Before(op, y)' <=> Before(op, y)
      BY <1>1 DEF Before
    <3>2. Inline[program] => Before(r, y)
      BY <1>3, <2>5 DEF Before
    <3> QED BY <2>2, <2>4, <3>1, <3>2 DEF Syncing
  <2>7. Syncing(y, Over(t, j))'
    BY <1>1, <2>4, <2>6 DEF Syncing
  <2> QED BY <2>2, <2>3, <2>7
<1>5. CASE u # t
  <2>1. CASE stack'[u] = stack[u]
    BY <1>1, <2>1, SyncOther
  <2>2. CASE u = a /\ stack'[a] = <<r>>
    <3>1. Elements(<<r>>) = {r}
      BY ElementsOne
    <3>2. \A j \in 1 .. Len(stack'[u]) : stack'[u][j] \in Elements(<<r>>)
      BY <2>2 DEF Elements
    <3>3. \A j \in 1 .. Len(stack'[u]) : ~Silent(stack'[u][j])
      BY <1>3, <3>1, <3>2 DEF Silent
    <3> QED BY <3>3 DEF SyncOK, Silent
  <2>3. stack'[u] = stack[u] \/ (u = a /\ stack'[a] = <<r>>)
    BY <1>1, <1>2, <1>5 DEF DeliverStack, Becomes
  <2> QED BY <2>1, <2>2, <2>3
<1> QED BY <1>4, <1>5

LEMMA UnusedStep ==
  ASSUME FormInv, CallsLive, UnusedOK, HandlersOnlyCall, NEW t \in Threads, Step(t)
  PROVE  UnusedOK'
<1>1. ControlInv /\ DataTypes /\ BooksOK /\ RobinInv
  BY DEF FormInv
<1>2. stack[t] # <<>> /\ created \subseteq created'
  BY <1>1, StepCases, CreatedStep
<1>3. CASE UNCHANGED inbox
  BY <1>2, <1>3 DEF UnusedOK
<1>4. CASE PostStep(t)
  <2>1. PICK msg : msg = Op(t).msg
    OBVIOUS
  <2>2. PICK a \in Actors : Post(a, msg) /\ Receives(t, a) /\ Op(t).k = "send"
    BY <1>4, <2>1 DEF PostStep
  <2>3. a \in created
    <3>1. a # NoAddress
      BY NodesAssumption DEF Nodes
    <3>2. Op(t).to \in created \cup {NoAddress}
      BY <1>2, <2>2 DEF CallsLive
    <3> QED BY <2>2, <3>1, <3>2 DEF Receives
  <2>4. inbox' = [inbox EXCEPT ![a] = Append(@, msg)]
    BY <2>2 DEF Post
  <2>5. \A b \in Actors : b # a => inbox'[b] = inbox[b]
    BY <1>1, <2>4 DEF DataTypes
  <2> QED BY <1>2, <2>3, <2>5 DEF UnusedOK
<1>5. CASE Consume(t)
  <2>1. PICK a : a = Op(t).at
    OBVIOUS
  <2>2. Op(t).k = "run" /\ inbox[a] # <<>> /\ inbox' = [inbox EXCEPT ![a] = Tail(@)]
    BY <1>5, <2>1 DEF Consume, At, Op
  <2>3. a \in Actors
    BY <1>1, <1>2, <2>1, <2>2, TopOp
  <2>4. \A b \in Actors : b # a => inbox'[b] = inbox[b]
    BY <1>1, <2>2 DEF DataTypes
  <2>5. a \in created
    BY <2>2, <2>3 DEF UnusedOK
  <2> QED BY <1>2, <2>4, <2>5 DEF UnusedOK
<1>6. HaltStep \/ CallStep(t) \/ SpawnStep(t) \/ FileStep(t) \/ KnowStep(t) \/ RemoveStep(t)
        \/ SendToSupervisor(t) \/ ScheduleStep(t) \/ LookStep(t) \/ Rest(t) => UNCHANGED inbox
  BY DEF HaltStep, CallStep, SpawnStep, FileStep, KnowStep, RemoveStep, SendToSupervisor,
         ScheduleStep, LookStep, Rest
<1> QED BY <1>1, <1>3, <1>4, <1>5, <1>6, StepCases

LEMMA SyncStep ==
  ASSUME FormInv, CallsLive, OneCaller, SyncInv, HandlersOnlyCall, LinksLocal,
         NEW t \in Threads, Step(t)
  PROVE  SyncInv'
<1>1. ControlInv /\ DataTypes /\ BooksOK /\ RobinInv /\ UnusedOK /\ OneInside
  BY DEF FormInv, SyncInv
<1>2. stack[t] # <<>> /\ SyncOK(t)
  BY <1>1, StepCases DEF SyncInv
<1>3. UnusedOK' /\ OneInside'
  BY <1>1, UnusedStep, InsideNext
<1> SUFFICES ASSUME NEW u \in Threads
             PROVE  SyncOK(u)'
  BY <1>3 DEF SyncInv
<1>4. SyncOK(u)
  BY DEF SyncInv
<1>5. ASSUME UNCHANGED <<program, current, inbox>>, stack'[u] = stack[u]
      PROVE  SyncOK(u)'
  BY <1>4, <1>5, SyncOther
<1>6. CASE HaltStep
  BY <1>5, <1>6 DEF HaltStep
<1>7. ASSUME CallStep(t) PROVE SyncOK(u)'
  <2>1. UNCHANGED <<program, current, inbox>> /\ \E ops : Becomes(t, ops)
    BY <1>7 DEF CallStep
  <2>2. CASE u = t
    BY <1>1, <1>2, <1>7, <2>2, SyncCalls
  <2>3. CASE u # t
    BY <1>5, <2>1, <2>3 DEF Becomes
  <2> QED BY <2>2, <2>3
<1>8. ASSUME SpawnStep(t) PROVE SyncOK(u)'
  <2>1. UNCHANGED <<program, current, inbox>> /\ \E ops : Becomes(t, ops)
    BY <1>8 DEF SpawnStep
  <2>2. CASE u = t
    BY <1>1, <1>2, <1>8, <2>2, SyncSpawns
  <2>3. CASE u # t
    BY <1>5, <2>1, <2>3 DEF Becomes
  <2> QED BY <2>2, <2>3
<1>9. ASSUME KnowStep(t) \/ RemoveStep(t) \/ Rest(t) PROVE SyncOK(u)'
  <2>1. UNCHANGED <<program, current, inbox>> /\ (Becomes(t, <<>>) \/ Then(t, <<>>))
    BY <1>9 DEF KnowStep, RemoveStep, Rest
  <2>2. Becomes(t, <<>>)
    BY <1>1, <2>1, ThenBecomes DEF ControlInv, StackTypes
  <2>3. PICK ops : ops = <<>>
    OBVIOUS
  <2>4. IsSeq(ops) /\ Elements(ops) = {} /\ Becomes(t, ops)
    BY <2>2, <2>3, SeqEmpty, ElementsNone
  <2>5. CASE u = t
    BY <1>1, <1>2, <2>1, <2>4, <2>5, SyncBecomes
  <2>6. CASE u # t
    BY <1>5, <2>1, <2>4, <2>6 DEF Becomes
  <2> QED BY <2>5, <2>6
<1>10. CASE SendToSupervisor(t)
  BY <1>1, <1>4, <1>10, SyncSupervisor
<1>11. CASE PostStep(t)
  BY <1>1, <1>2, <1>4, <1>11, SyncPosts
<1>12. CASE Consume(t)
  BY <1>1, <1>4, <1>12, SyncConsumes
<1>13. CASE FileStep(t)
  BY <1>1, <1>2, <1>4, <1>13, SyncFiles
<1>14. CASE ScheduleStep(t)
  BY <1>1, <1>2, <1>4, <1>14, SyncSchedules
<1>15. ASSUME LookStep(t) PROVE SyncOK(u)'
  <2>1. PICK r : r = RunOver(Op(t).at)
    OBVIOUS
  <2>2. UNCHANGED <<program, current, inbox>> /\ Becomes(t, <<r>>) /\ Op(t).k = "run"
    BY <1>15, <2>1 DEF LookStep
  <2>3. PICK ops : ops = <<r>>
    OBVIOUS
  <2>4. IsSeq(ops) /\ Elements(ops) = {r} /\ Becomes(t, ops)
    BY <2>2, <2>3, SeqOne, ElementsOne
  <2>5. r.k = "run" /\ r.at = Op(t).at
    BY <2>1 DEF RunOver
  <2>6. CASE u = t
    <3>1. ASSUME NEW i \in 2 .. Len(stack[t]), Silent(stack[t][i])
          PROVE  Before(r, stack[t][i])
      <4>1. PICK y : y = stack[t][i]
        OBVIOUS
      <4>2. Before(Op(t), y)
        BY <1>1, <1>2, <3>1, <4>1, SyncTop
      <4>3. Before(r, y)
        BY <2>2, <2>5, <4>2 DEF Before
      <4> QED BY <4>1, <4>3
    <3>2. \A op \in Elements(ops) : ~Silent(op)
      BY <2>4, <2>5 DEF Silent
    <3> QED BY <1>1, <1>2, <2>2, <2>4, <2>6, <3>1, <3>2, SyncBecomes
  <2>7. CASE u # t
    BY <1>5, <2>2, <2>7 DEF Becomes
  <2> QED BY <2>6, <2>7
<1> QED BY <1>1, <1>6, <1>7, <1>8, <1>9, <1>10, <1>11, <1>12, <1>13, <1>14, <1>15, StepCases

LEMMA SyncNext ==
  ASSUME FormInv, CallsLive, OneCaller, SyncInv, HandlersOnlyCall, LinksLocal, [Next]_vars
  PROVE  SyncInv'
<1>1. UnusedOK /\ OneInside /\ \A u \in Threads : SyncOK(u)
  BY DEF SyncInv
<1>2. CASE UNCHANGED vars
  <2>1. UNCHANGED <<program, current, inbox, stack, created>>
    BY <1>2 DEF vars, books
  <2>2. UnusedOK' /\ OneInside'
    BY <1>1, <2>1 DEF UnusedOK, OneInside, Inside
  <2> QED BY <1>1, <2>1, <2>2, SyncOther DEF SyncInv
<1>3. CASE Call
  <2>1. UNCHANGED <<program, current, inbox, created>>
    BY <1>3 DEF Call, books
  <2>2. PICK call : OnlyCalls(call) /\ Moves(Main, Elements(call))
    BY <1>3, MovesCall DEF FormInv
  <2>3. \A op \in Elements(call) : ~Silent(op)
    BY <2>2 DEF OnlyCalls, CallKinds, Elements, Silent
  <2>4. stack[Main] = <<>> /\ \A u \in Threads : u # Main => stack'[u] = stack[u]
    BY <1>3 DEF Call, FormInv, ControlInv, StackTypes
  <2>5. SyncOK(Main)'
    <3>1. Main \in Threads /\ \A op : ~Has(Main, op)
      BY <2>4, SeqEmpty DEF Threads, Has
    <3>2. \A op : Has(Main, op)' => ~Silent(op)
      BY <2>2, <2>3, <3>1 DEF Moves
    <3>3. \A i \in 1 .. Len(stack'[Main]) : ~Silent(stack'[Main][i])
      BY <3>2 DEF Has
    <3> QED BY <3>3 DEF SyncOK, Silent
  <2>6. \A u \in Threads : u # Main => SyncOK(u)'
    BY <1>1, <2>1, <2>4, SyncOther
  <2>7. UnusedOK'
    BY <1>1, <2>1 DEF UnusedOK
  <2>8. OneInside'
    <3>1. Outside(Elements(call)) /\ Main \in Threads
      BY <2>2 DEF OnlyCalls, CallKinds, Elements, Outside, Threads
    <3> QED BY <1>1, <2>2, <3>1, InsideMoves, InsideStep
  <2> QED BY <2>5, <2>6, <2>7, <2>8 DEF SyncInv
<1> QED BY <1>2, <1>3, SyncStep DEF Next

LEMMA SyncInit ==
  ASSUME Init
  PROVE  SyncInv
<1>1. stack = [t \in Threads |-> <<>>] /\ inbox = [a \in Actors |-> <<>>]
  BY DEF Init
<1>2. \A t \in Threads : Len(stack[t]) = 0
  BY <1>1, SeqEmpty
<1>3. \A t \in Threads : SyncOK(t)
  BY <1>2 DEF SyncOK
<1>4. OneInside
  BY <1>2 DEF OneInside, Inside
<1> QED BY <1>1, <1>3, <1>4 DEF SyncInv, UnusedOK

\* No supervisor_lite, which announces it to all its contacts first, is just
\* creating an object.
NoAnnouncement ==
  \A t \in Threads : \A i \in 1 .. Len(stack[t]) :
    stack[t][i].k = "sync" => Routing[stack[t][i].at] # "lite"

LEMMA SyncSees ==
  ASSUME FormInv, SyncInv, NoAnnouncement
  PROVE  SyncSeesCreator
<1> SUFFICES ASSUME NEW t \in Threads, NEW i \in DOMAIN stack[t], stack[t][i].k = "sync"
             PROVE  current[stack[t][i].at] = stack[t][i].cause
  BY DEF SyncSeesCreator
<1>1. i \in 1 .. Len(stack[t])
  BY SeqLen DEF FormInv, ControlInv, StackTypes
<1>2. Silent(stack[t][i])
  BY <1>1 DEF NoAnnouncement, Silent
<1>3. Syncing(stack[t][i], Over(t, i))
  BY <1>1, <1>2 DEF SyncInv, SyncOK
<1> QED BY <1>3 DEF Syncing

\* sync reads current_message() after it has filed the new object and sent it an
\* add_link, which may already have been handled: it still finds the message
\* that asked for the object, as long as no thread calls a supervisor under
\* another one's message and unless the supervisor announces the object
\* (add_actor_impl of supervisor_lite) to contacts that could answer.
THEOREM SyncSeesCreatorAlone ==
  ASSUME HandlersOnlyCall, LinksLocal
  PROVE  Spec /\ []CallsLive /\ []OneCaller => [](NoAnnouncement => SyncSeesCreator)
<1>1. Init => FormInv /\ SyncInv
  BY FormInit, SyncInit
<1>2. FormInv /\ SyncInv /\ CallsLive /\ OneCaller /\ [Next]_vars => FormInv' /\ SyncInv'
  BY FormNext, SyncNext
<1>3. FormInv /\ SyncInv => (NoAnnouncement => SyncSeesCreator)
  BY SyncSees
<1> QED BY <1>1, <1>2, <1>3, PTL DEF Spec

\* The same where the threads keep apart by themselves.
THEOREM SyncSeesCreatorApart ==
  ASSUME HandlersOnlyCall, LinksLocal
  PROVE  Spec /\ []CallsLive =>
           [](KeepsApart(program) /\ NoAnnouncement => SyncSeesCreator)
<1> DEFINE Inv == FormInv /\ Apart /\ (KeepsApart(program) => SyncInv)
<1>1. Init => Inv
  BY FormInit, ApartInit, SyncInit
<1>2. Inv /\ CallsLive /\ [Next]_vars => Inv'
  <2> SUFFICES ASSUME Inv, CallsLive, [Next]_vars PROVE Inv'
    OBVIOUS
  <2>1. FormInv' /\ Apart' /\ UNCHANGED program
    BY FormNext, ApartNext, ProgramSame
  <2>2. ASSUME KeepsApart(program)
        PROVE  SyncInv'
    BY <2>2, ApartOneCaller, SyncNext DEF FormInv
  <2>3. KeepsApart(program)' => KeepsApart(program)
    BY <2>1 DEF KeepsApart
  <2> QED BY <2>1, <2>2, <2>3
<1>3. Inv => (KeepsApart(program) /\ NoAnnouncement => SyncSeesCreator)
  BY SyncSees
<1> QED BY <1>1, <1>2, <1>3, PTL DEF Spec

=============================================================================
