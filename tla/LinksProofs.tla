----------------------------- MODULE LinksProofs -----------------------------
(***************************************************************************)
(* What objects know of each other in Supervision, for every set of        *)
(* supervisors and actors, every program (its script, its handlers) and    *)
(* every executor.                                                         *)
(***************************************************************************)
EXTENDS ControlProofs

-----------------------------------------------------------------------------
(* What an object still has to file                                         *)

\* The messages of q that ask n for a T are, in order, what A holds beyond its
\* first k addresses.
Picks(f, q, n, T, A, k) ==
  /\ f \in [k + 1 .. Len(A) -> 1 .. Len(q)]
  /\ \A j \in k + 1 .. Len(A) : Asks(q[f[j]], n, T) /\ q[f[j]].sender = A[j]
  /\ \A i, j \in k + 1 .. Len(A) : i < j => f[i] < f[j]
  /\ \A h \in 1 .. Len(q) : Asks(q[h], n, T) => \E j \in k + 1 .. Len(A) : f[j] = h

\* What n holds once it has filed the first k addresses of A.
Filed(n, book, A, k) ==
  IF n \in Actors THEN book = IF k = 0 THEN <<>> ELSE <<A[1]>>
  ELSE book = [i \in 1 .. k |-> A[i]]

\* With q waiting, n has filed what it was asked for up to some address of A,
\* and q brings the rest.
Settling(n, T, q, book, A) ==
  \E k \in 0 .. Len(A) : /\ Filed(n, book, A, k)
                         /\ \E f : Picks(f, q, n, T, A, k)

LEMMA SettlingEmpty ==
  ASSUME NEW n, NEW T
  PROVE  Settling(n, T, <<>>, <<>>, <<>>)
<1>1. Len(<<>>) = 0
  BY SeqEmpty
<1>2. Filed(n, <<>>, <<>>, 0)
  BY DEF Filed
<1>3. Picks([j \in 1 .. 0 |-> 1], <<>>, n, T, <<>>, 0)
  BY <1>1 DEF Picks
<1> QED BY <1>1, <1>2, <1>3 DEF Settling

\* A message that asks is enqueued.
LEMMA SettlingHit ==
  ASSUME NEW n, NEW T, NEW q, IsSeq(q), NEW book, NEW A, IsSeq(A), NEW msg,
         Settling(n, T, q, book, A), Asks(msg, n, T)
  PROVE  Settling(n, T, Append(q, msg), book, Append(A, msg.sender))
<1> DEFINE r == Append(q, msg)
           B == Append(A, msg.sender)
           N == Len(A)
           M == Len(q)
<1>1. PICK k \in 0 .. N : Filed(n, book, A, k) /\ \E f : Picks(f, q, n, T, A, k)
  BY DEF Settling
<1>2. PICK f : Picks(f, q, n, T, A, k)
  BY <1>1
<1>3. /\ N \in Nat /\ M \in Nat /\ Len(r) = M + 1 /\ Len(B) = N + 1
      /\ r[M + 1] = msg /\ B[N + 1] = msg.sender
      /\ \A i \in 1 .. M : r[i] = q[i]
      /\ \A i \in 1 .. N : B[i] = A[i]
  BY SeqAppend, SeqLen
<1> DEFINE g == [j \in k + 1 .. N + 1 |-> IF j = N + 1 THEN M + 1 ELSE f[j]]
<1> HIDE DEF r, B
<1>4. \A j \in k + 1 .. N : j \in 1 .. N /\ f[j] \in 1 .. M /\ g[j] = f[j]
  BY <1>2, <1>3 DEF Picks
<1>5. g[N + 1] = M + 1 /\ N + 1 \in k + 1 .. N + 1
  BY <1>3
<1>6. g \in [k + 1 .. N + 1 -> 1 .. M + 1]
  <2>1. \A j \in k + 1 .. N + 1 : g[j] \in 1 .. M + 1
    <3> TAKE j \in k + 1 .. N + 1
    <3>1. j = N + 1 \/ j \in k + 1 .. N
      BY <1>3
    <3>2. M + 1 \in 1 .. M + 1 /\ \A x \in 1 .. M : x \in 1 .. M + 1
      BY <1>3
    <3> HIDE DEF g, N, M
    <3> QED BY <1>4, <1>5, <3>1, <3>2
  <2> QED BY <2>1
<1> HIDE DEF g, N, M
<1>7. \A j \in k + 1 .. N + 1 : j \in k + 1 .. N \/ j = N + 1
  BY <1>3
<1>8. \A j \in k + 1 .. N + 1 : Asks(r[g[j]], n, T) /\ r[g[j]].sender = B[j]
  <2> TAKE j \in k + 1 .. N + 1
  <2>1. CASE j \in k + 1 .. N
    <3>1. r[g[j]] = q[f[j]] /\ B[j] = A[j]
      BY <1>3, <1>4, <2>1
    <3> QED BY <1>2, <2>1, <3>1 DEF Picks, N
  <2>2. CASE j = N + 1
    BY <1>3, <1>5, <2>2
  <2> QED BY <1>7, <2>1, <2>2
<1>9. \A i, j \in k + 1 .. N + 1 : i < j => g[i] < g[j]
  <2> SUFFICES ASSUME NEW i \in k + 1 .. N + 1, NEW j \in k + 1 .. N + 1, i < j
               PROVE  g[i] < g[j]
    OBVIOUS
  <2>1. i \in k + 1 .. N
    BY <1>3
  <2>2. CASE j \in k + 1 .. N
    <3>1. f[i] < f[j]
      BY <1>2, <2>1, <2>2 DEF Picks, N
    <3> QED BY <1>4, <2>1, <2>2, <3>1
  <2>3. CASE j = N + 1
    BY <1>3, <1>4, <1>5, <2>1, <2>3
  <2> QED BY <1>7, <2>2, <2>3
<1>10. \A h \in 1 .. M + 1 : Asks(r[h], n, T) => \E j \in k + 1 .. N + 1 : g[j] = h
  <2> SUFFICES ASSUME NEW h \in 1 .. M + 1, Asks(r[h], n, T)
               PROVE  \E j \in k + 1 .. N + 1 : g[j] = h
    OBVIOUS
  <2>1. CASE h \in 1 .. M
    <3>1. PICK j \in k + 1 .. N : f[j] = h
      BY <1>2, <1>3, <2>1 DEF Picks, N, M
    <3>2. j \in k + 1 .. N + 1
      BY <1>3
    <3> QED BY <1>4, <3>1, <3>2
  <2>2. CASE h = M + 1
    BY <1>5, <2>2
  <2> QED BY <1>3, <2>1, <2>2
<1>11. Picks(g, r, n, T, B, k)
  BY <1>3, <1>6, <1>8, <1>9, <1>10 DEF Picks
<1>12. Filed(n, book, B, k)
  <2>1. k # 0 => 1 \in 1 .. N
    BY <1>3
  <2>2. \A i \in 1 .. k : B[i] = A[i]
    BY <1>3
  <2>3. [i \in 1 .. k |-> B[i]] = [i \in 1 .. k |-> A[i]]
    BY <2>2
  <2> QED BY <1>1, <1>3, <2>1, <2>3 DEF Filed
<1>13. k \in 0 .. Len(B)
  BY <1>3
<1> QED BY <1>11, <1>12, <1>13 DEF Settling, r, B

\* Any other message is enqueued.
LEMMA SettlingMiss ==
  ASSUME NEW n, NEW T, NEW q, IsSeq(q), NEW book, NEW A, IsSeq(A), NEW msg,
         Settling(n, T, q, book, A), ~Asks(msg, n, T)
  PROVE  Settling(n, T, Append(q, msg), book, A)
<1> DEFINE r == Append(q, msg)
           N == Len(A)
           M == Len(q)
<1>1. PICK k \in 0 .. N : Filed(n, book, A, k) /\ \E f : Picks(f, q, n, T, A, k)
  BY DEF Settling
<1>2. PICK f : Picks(f, q, n, T, A, k)
  BY <1>1
<1>3. /\ N \in Nat /\ M \in Nat /\ Len(r) = M + 1 /\ r[M + 1] = msg
      /\ \A i \in 1 .. M : r[i] = q[i]
  BY SeqAppend, SeqLen
<1> HIDE DEF r
<1>4. f \in [k + 1 .. N -> 1 .. M + 1]
  BY <1>2, <1>3 DEF Picks
<1>5. \A j \in k + 1 .. N : r[f[j]] = q[f[j]]
  BY <1>2, <1>3 DEF Picks
<1>6. \A h \in 1 .. M + 1 : Asks(r[h], n, T) => h \in 1 .. M /\ r[h] = q[h]
  <2> TAKE h \in 1 .. M + 1
  <2>1. h \in 1 .. M \/ h = M + 1
    BY <1>3
  <2> QED BY <1>3, <2>1
<1>7. Picks(f, r, n, T, A, k)
  BY <1>2, <1>3, <1>4, <1>5, <1>6 DEF Picks
<1> QED BY <1>1, <1>7 DEF Settling, r

\* The first message of the queue is handled, and it asks: the address it
\* carries is the next one to file.
LEMMA SettlingFile ==
  ASSUME NEW n, NEW T, NEW q, IsSeq(q), q # <<>>, NEW book, NEW A, IsSeq(A),
         Settling(n, T, q, book, A), Asks(q[1], n, T)
  PROVE  \/ /\ n \in Actors /\ book # <<>> /\ Settling(n, T, Tail(q), book, A)
         \/ /\ n \in Actors /\ book = <<>>
            /\ Settling(n, T, Tail(q), <<q[1].sender>>, A)
         \/ /\ n \notin Actors /\ Settling(n, T, Tail(q), Append(book, q[1].sender), A)
<1> DEFINE r == Tail(q)
           N == Len(A)
           M == Len(q)
<1>1. PICK k \in 0 .. N : Filed(n, book, A, k) /\ \E f : Picks(f, q, n, T, A, k)
  BY DEF Settling
<1>2. PICK f : Picks(f, q, n, T, A, k)
  BY <1>1
<1>3. /\ N \in Nat /\ M \in Nat \ {0} /\ Len(r) = M - 1
      /\ \A i \in 1 .. M - 1 : r[i] = q[i + 1]
  BY SeqTail, SeqLen
<1> HIDE DEF r
<1>4. f \in [k + 1 .. N -> 1 .. M]
  BY <1>2 DEF Picks
<1>5. PICK j0 \in k + 1 .. N : f[j0] = 1
  BY <1>2, <1>3 DEF Picks
<1>6. k + 1 \in k + 1 .. N
  BY <1>3, <1>5
<1>7. f[k + 1] = 1
  <2> SUFFICES ASSUME k + 1 < j0 PROVE FALSE
    BY <1>3, <1>5
  <2>1. f[k + 1] < f[j0]
    BY <1>2, <1>6 DEF Picks
  <2> QED BY <1>4, <1>5, <1>6, <2>1
<1>8. A[k + 1] = q[1].sender
  BY <1>2, <1>6, <1>7 DEF Picks
<1>9. \A j \in k + 2 .. N : j \in k + 1 .. N /\ f[j] \in 2 .. M
  <2> TAKE j \in k + 2 .. N
  <2>1. j \in k + 1 .. N /\ k + 1 < j
    BY <1>3
  <2>2. f[k + 1] < f[j]
    BY <1>2, <1>6, <2>1 DEF Picks
  <2> QED BY <1>3, <1>4, <1>7, <2>1, <2>2
<1> DEFINE g == [j \in k + 2 .. N |-> f[j] - 1]
<1>10. \A j \in k + 2 .. N : g[j] = f[j] - 1 /\ g[j] \in 1 .. M - 1 /\ g[j] + 1 = f[j]
  BY <1>3, <1>9
<1>11. g \in [k + 2 .. N -> 1 .. M - 1]
  BY <1>10
<1> HIDE DEF g, N, M
<1>12. \A j \in k + 2 .. N : r[g[j]] = q[f[j]]
  BY <1>3, <1>10
<1>13. \A j \in k + 2 .. N : Asks(r[g[j]], n, T) /\ r[g[j]].sender = A[j]
  BY <1>2, <1>9, <1>12 DEF Picks, N
<1>14. \A i, j \in k + 2 .. N : i < j => g[i] < g[j]
  <2> SUFFICES ASSUME NEW i \in k + 2 .. N, NEW j \in k + 2 .. N, i < j
               PROVE  g[i] < g[j]
    OBVIOUS
  <2>1. f[i] < f[j]
    BY <1>2, <1>9 DEF Picks, N
  <2> QED BY <1>3, <1>9, <1>10, <2>1
<1>15. \A h \in 1 .. M - 1 : Asks(r[h], n, T) => \E j \in k + 2 .. N : g[j] = h
  <2> SUFFICES ASSUME NEW h \in 1 .. M - 1, Asks(r[h], n, T)
               PROVE  \E j \in k + 2 .. N : g[j] = h
    OBVIOUS
  <2>1. h + 1 \in 1 .. M /\ r[h] = q[h + 1] /\ h + 1 # 1
    BY <1>3
  <2>2. PICK j \in k + 1 .. N : f[j] = h + 1
    BY <1>2, <2>1 DEF Picks, N, M
  <2>3. j \in k + 2 .. N
    BY <1>3, <1>7, <2>1, <2>2
  <2> QED BY <1>3, <1>10, <2>2, <2>3
<1>16. (k + 1) + 1 = k + 2 /\ k + 1 \in 0 .. N /\ k + 1 # 0
  BY <1>3, <1>6
<1>17. Picks(g, r, n, T, A, k + 1)
  BY <1>3, <1>11, <1>13, <1>14, <1>15, <1>16 DEF Picks, N
<1>18. \A bk : Filed(n, bk, A, k + 1) => Settling(n, T, r, bk, A)
  BY <1>16, <1>17 DEF Settling, N
<1>19. CASE n \in Actors /\ k = 0
  <2>1. book = <<>> /\ Filed(n, <<q[1].sender>>, A, k + 1)
    BY <1>1, <1>8, <1>16, <1>19 DEF Filed
  <2> QED BY <1>18, <1>19, <2>1 DEF r
<1>20. CASE n \in Actors /\ k # 0
  <2>1. book = <<A[1]>> /\ Filed(n, book, A, k + 1)
    BY <1>1, <1>16, <1>20 DEF Filed
  <2>2. book # <<>>
    BY <2>1, SeqOne, SeqEmpty
  <2> QED BY <1>18, <1>20, <2>1, <2>2 DEF r
<1>21. CASE n \notin Actors
  <2>1. book = [i \in 1 .. k |-> A[i]] /\ k \in Nat
    BY <1>1, <1>3, <1>21 DEF Filed
  <2>2. IsSeq(book) /\ Len(book) = k
    <3>1. book \in Seq({A[i] : i \in 1 .. k}) /\ Len(book) = k
      BY <2>1
    <3> QED BY <3>1, IsSeqIntro
  <2> DEFINE b2 == Append(book, q[1].sender)
             c == [i \in 1 .. k + 1 |-> A[i]]
  <2>3. IsSeq(b2) /\ Len(b2) = k + 1 /\ b2[k + 1] = q[1].sender
        /\ \A i \in 1 .. k : b2[i] = book[i]
    BY <2>2, SeqAppend
  <2>4. IsSeq(c) /\ Len(c) = k + 1
    <3>1. c \in Seq({A[i] : i \in 1 .. k + 1}) /\ Len(c) = k + 1
      BY <2>1
    <3> QED BY <3>1, IsSeqIntro
  <2>5. \A i \in 1 .. k + 1 : c[i] = A[i]
    BY <2>1
  <2> HIDE DEF b2, c
  <2>6. \A i \in 1 .. k + 1 : b2[i] = c[i]
    <3> TAKE i \in 1 .. k + 1
    <3>1. i \in 1 .. k \/ i = k + 1
      BY <2>1
    <3> QED BY <1>8, <2>1, <2>3, <2>5, <3>1
  <2>7. b2 = c
    BY <2>3, <2>4, <2>6, SameSeq
  <2>8. Filed(n, b2, A, k + 1)
    BY <1>21, <2>7 DEF Filed, c
  <2> QED BY <1>18, <1>21, <2>8 DEF r, b2
<1> QED BY <1>19, <1>20, <1>21

\* The first message of the queue is handled, and it does not ask.
LEMMA SettlingSkip ==
  ASSUME NEW n, NEW T, NEW q, IsSeq(q), q # <<>>, NEW book, NEW A, IsSeq(A),
         Settling(n, T, q, book, A), ~Asks(q[1], n, T)
  PROVE  Settling(n, T, Tail(q), book, A)
<1> DEFINE r == Tail(q)
           N == Len(A)
           M == Len(q)
<1>1. PICK k \in 0 .. N : Filed(n, book, A, k) /\ \E f : Picks(f, q, n, T, A, k)
  BY DEF Settling
<1>2. PICK f : Picks(f, q, n, T, A, k)
  BY <1>1
<1>3. /\ N \in Nat /\ M \in Nat \ {0} /\ Len(r) = M - 1
      /\ \A i \in 1 .. M - 1 : r[i] = q[i + 1]
  BY SeqTail, SeqLen
<1> HIDE DEF r
<1>4. \A j \in k + 1 .. N : f[j] \in 2 .. M
  <2> TAKE j \in k + 1 .. N
  <2>1. f[j] \in 1 .. M /\ f[j] # 1
    BY <1>2 DEF Picks
  <2> QED BY <1>3, <2>1
<1> DEFINE g == [j \in k + 1 .. N |-> f[j] - 1]
<1>5. \A j \in k + 1 .. N : g[j] = f[j] - 1 /\ g[j] \in 1 .. M - 1 /\ g[j] + 1 = f[j]
  BY <1>3, <1>4
<1>6. g \in [k + 1 .. N -> 1 .. M - 1]
  BY <1>5
<1> HIDE DEF g, N, M
<1>7. \A j \in k + 1 .. N : r[g[j]] = q[f[j]]
  BY <1>3, <1>5
<1>8. \A j \in k + 1 .. N : Asks(r[g[j]], n, T) /\ r[g[j]].sender = A[j]
  BY <1>2, <1>7 DEF Picks, N
<1>9. \A i, j \in k + 1 .. N : i < j => g[i] < g[j]
  <2> SUFFICES ASSUME NEW i \in k + 1 .. N, NEW j \in k + 1 .. N, i < j
               PROVE  g[i] < g[j]
    OBVIOUS
  <2>1. f[i] < f[j]
    BY <1>2 DEF Picks, N
  <2> QED BY <1>3, <1>4, <1>5, <2>1
<1>10. \A h \in 1 .. M - 1 : Asks(r[h], n, T) => \E j \in k + 1 .. N : g[j] = h
  <2> SUFFICES ASSUME NEW h \in 1 .. M - 1, Asks(r[h], n, T)
               PROVE  \E j \in k + 1 .. N : g[j] = h
    OBVIOUS
  <2>1. h + 1 \in 1 .. M /\ r[h] = q[h + 1]
    BY <1>3
  <2>2. PICK j \in k + 1 .. N : f[j] = h + 1
    BY <1>2, <2>1 DEF Picks, N, M
  <2> QED BY <1>3, <1>5, <2>2
<1>11. Picks(g, r, n, T, A, k)
  BY <1>3, <1>6, <1>8, <1>9, <1>10 DEF Picks, N
<1> QED BY <1>1, <1>11 DEF Settling, r, N

\* Nothing waits: all that was asked for is filed.
LEMMA SettlingDone ==
  ASSUME NEW n, NEW T, NEW book, NEW A, IsSeq(A), Settling(n, T, <<>>, book, A)
  PROVE  book = A \/ (n \in Actors /\ A # <<>> /\ book = <<Head(A)>>)
<1> DEFINE N == Len(A)
<1>1. PICK k \in 0 .. N : Filed(n, book, A, k) /\ \E f : Picks(f, <<>>, n, T, A, k)
  BY DEF Settling
<1>2. PICK f : Picks(f, <<>>, n, T, A, k)
  BY <1>1
<1>3. N \in Nat
  BY SeqLen
<1>4. k = N
  <2> SUFFICES ASSUME k # N PROVE FALSE
    OBVIOUS
  <2>1. N \in k + 1 .. N
    BY <1>3
  <2>2. f[N] \in 1 .. 0
    BY <1>2, <2>1, SeqEmpty DEF Picks
  <2> QED BY <2>2
<1>5. CASE n \in Actors /\ k = 0
  <2>1. A = <<>> /\ book = <<>>
    BY <1>1, <1>4, <1>5, SeqLen DEF Filed
  <2> QED BY <2>1
<1>6. CASE n \in Actors /\ k # 0
  <2>1. A # <<>> /\ book = <<A[1]>>
    BY <1>1, <1>4, <1>6, SeqLen DEF Filed
  <2>2. Head(A) = A[1]
    BY <2>1, SeqTail
  <2> QED BY <1>6, <2>1, <2>2
<1>7. CASE n \notin Actors
  <2>1. book = [i \in 1 .. N |-> A[i]]
    BY <1>1, <1>4, <1>7 DEF Filed
  <2>2. book \in Seq({A[i] : i \in 1 .. N}) /\ Len(book) = N
    BY <1>3, <2>1
  <2>3. \A i \in 1 .. Len(book) : book[i] = A[i]
    BY <2>1, <2>2
  <2>4. book = A
    BY <2>2, <2>3, IsSeqIntro, SameSeq
  <2> QED BY <2>4
<1> QED BY <1>5, <1>6, <1>7

-----------------------------------------------------------------------------
(* Who handles what                                                         *)

Executes(t, n) == stack[t] # <<>> /\ Op(t).k = "exec" /\ Op(t).at = n

Executing(n) == \E t \in Threads : Executes(t, n)

\* No object handles two messages at once.
OneHandler == \A t, u \in Threads : \A n : Executes(t, n) /\ Executes(u, n) => t = u

\* t leaves the handler it is in, if it is in one.
Leaves(t) ==
  \A n : /\ ~Executes(t, n)'
         /\ \A u \in Threads : u # t => (Executes(u, n)' <=> Executes(u, n))

\* t enters a handler of n.
Enters(t, n) ==
  /\ \A m : Executes(t, m)' <=> m = n
  /\ \A m : \A u \in Threads : u # t => (Executes(u, m)' <=> Executes(u, m))

LEMMA LeavesCalls ==
  ASSUME ControlInv, NEW t \in Threads, stack[t] # <<>>, NEW ops, IsSeq(ops),
         \A i \in 1 .. Len(ops) : ops[i].k # "exec", Becomes(t, ops)
  PROVE  Leaves(t)
<1> DEFINE s == stack[t]
           r == stack'[t]
           L == Len(ops)
<1>1. StackTypes /\ ExecOK
  BY DEF ControlInv
<1>2. Replaces(t, ops)
  BY DEF Becomes
<1>3. /\ IsSeq(r) /\ L \in Nat
      /\ \A j \in 1 .. Len(r) : \/ j \in 1 .. L /\ r[j] = ops[j]
                                \/ /\ j - L + 1 \in 2 .. Len(s)
                                   /\ r[j] = s[j - L + 1]
  BY <1>1, <1>2, Pushed
<1>4. ASSUME r # <<>>
      PROVE  Head(r).k # "exec"
  <2>1. 1 \in 1 .. Len(r) /\ Head(r) = r[1]
    BY <1>3, <1>4, SeqTail
  <2>2. CASE 1 \in 1 .. L /\ r[1] = ops[1]
    BY <2>1, <2>2
  <2>3. CASE 1 - L + 1 \in 2 .. Len(s) /\ r[1] = s[1 - L + 1]
    <3>1. 1 - L + 1 \in 1 .. Len(s) /\ 1 - L + 1 # 1
      BY <1>3, <2>3
    <3> QED BY <1>1, <2>1, <2>3, <3>1 DEF ExecOK
  <2> QED BY <1>3, <2>1, <2>2, <2>3
<1>5. \A u \in Threads : u # t => stack'[u] = stack[u]
  BY DEF Becomes
<1> QED BY <1>4, <1>5 DEF Leaves, Executes, Op

LEMMA LeavesPost ==
  ASSUME ControlInv, NEW t \in Threads, stack[t] # <<>>, NEW a \in Actors,
         \E ops : PostOps(t, a, ops) /\ Becomes(t, ops)
  PROVE  Leaves(t)
<1>1. PICK ops : PostOps(t, a, ops) /\ Becomes(t, ops)
  OBVIOUS
<1>2. IsSeq(ops) /\ \A i \in 1 .. Len(ops) : ops[i].k # "exec"
  BY <1>1, PostForm DEF PlainOps
<1> QED BY <1>1, <1>2, LeavesCalls

LEMMA LeavesLook ==
  ASSUME ControlInv, NEW t \in Threads, stack[t] # <<>>, LookStep(t)
  PROVE  Leaves(t)
<1> DEFINE ops == <<RunOver(Op(t).at)>>
<1>1. IsSeq(ops) /\ \A i \in 1 .. Len(ops) : ops[i].k # "exec"
  <2>1. IsSeq(ops) /\ Len(ops) = 1 /\ ops[1].k = "run"
    BY SeqOne DEF RunOver
  <2> QED BY <2>1
<1>2. Becomes(t, ops)
  BY DEF LookStep
<1> HIDE DEF ops
<1> QED BY <1>1, <1>2, LeavesCalls

LEMMA LeavesSchedule ==
  ASSUME ControlInv, NEW t \in Threads, stack[t] # <<>>, NEW a \in Actors, DeliverStack(t, a)
  PROVE  Leaves(t)
<1> DEFINE ops == <<Run(a)>>
<1>1. IsSeq(ops) /\ \A i \in 1 .. Len(ops) : ops[i].k # "exec"
  <2>1. IsSeq(ops) /\ Len(ops) = 1 /\ ops[1].k = "run"
    BY SeqOne DEF Run
  <2> QED BY <2>1
<1>2. IsSeq(<<>>) /\ \A i : i \notin 1 .. Len(<<>>)
  BY SeqEmpty
<1>3. CASE a \in running /\ Becomes(t, <<>>)
  BY <1>2, <1>3, LeavesCalls
<1>4. CASE a \notin running /\ Inline[program] /\ Becomes(t, <<Run(a)>>)
  <2> HIDE DEF ops
  <2> QED BY <1>1, <1>4, LeavesCalls DEF ops
<1>5. CASE /\ a \notin running /\ ~Inline[program] /\ a # t /\ stack[a] = <<>>
           /\ stack'[t] = Tail(stack[t]) /\ stack'[a] = <<Run(a)>> /\ DOMAIN stack' = Threads
           /\ \A u \in Threads : u \notin {t, a} => stack'[u] = stack[u]
  <2>1. /\ IsSeq(Tail(stack[t])) /\ Len(stack[t]) \in Nat \ {0}
        /\ Len(Tail(stack[t])) = Len(stack[t]) - 1
        /\ \A i \in 1 .. Len(stack[t]) - 1 : Tail(stack[t])[i] = stack[t][i + 1]
    BY SeqTail DEF ControlInv, StackTypes
  <2>2. ASSUME stack'[t] # <<>>
        PROVE  Head(stack'[t]).k # "exec"
    <3>1. Len(stack'[t]) \in Nat \ {0} /\ Head(stack'[t]) = stack'[t][1]
      BY <1>5, <2>1, <2>2, SeqTail
    <3>a. Len(stack'[t]) = Len(stack[t]) - 1 /\ Len(stack[t]) \in Nat \ {0}
      BY <1>5, <2>1
    <3>2. 1 \in 1 .. Len(stack[t]) - 1 /\ 1 + 1 \in 1 .. Len(stack[t]) /\ 1 + 1 # 1
      <4>1. \A N, M \in Nat \ {0} : M = N - 1 => 1 \in 1 .. N - 1 /\ 1 + 1 \in 1 .. N /\ 1 + 1 # 1
        OBVIOUS
      <4> QED BY <3>a, <3>1, <4>1
    <3>3. Head(stack'[t]) = stack[t][1 + 1]
      BY <1>5, <2>1, <3>1, <3>2
    <3> QED BY <3>2, <3>3 DEF ControlInv, ExecOK
  <2>3. Head(stack'[a]).k # "exec"
    BY <1>5 DEF Run
  <2>4. \A u \in Threads : u = t \/ u = a \/ stack'[u] = stack[u]
    BY <1>5
  <2>5. \A n : ~Executes(t, n)'
    BY <2>2 DEF Executes, Op
  <2>6. \A n : ~Executes(a, n) /\ ~Executes(a, n)'
    BY <1>5, <2>3 DEF Executes, Op
  <2>7. \A n : \A u \in Threads : u # t => (Executes(u, n)' <=> Executes(u, n))
    <3> TAKE n
    <3> TAKE u \in Threads
    <3>1. CASE u = a
      BY <2>6, <3>1
    <3>2. CASE stack'[u] = stack[u]
      BY <3>2 DEF Executes, Op
    <3> QED BY <2>4, <3>1, <3>2
  <2> QED BY <2>5, <2>7 DEF Leaves
<1> QED BY <1>3, <1>4, <1>5 DEF DeliverStack

LEMMA EntersSupervisor ==
  ASSUME ControlInv, NEW t \in Threads, SendToSupervisor(t)
  PROVE  Enters(t, Op(t).to)
<1> DEFINE ops == <<Exec(Op(t).to)>>
<1>1. Becomes(t, ops) /\ stack[t] # <<>> /\ IsSeq(stack[t])
  BY SupervisorEffect DEF ControlInv, StackTypes
<1>2. stack'[t] = ops \o Tail(stack[t])
  BY <1>1 DEF Becomes, Replaces
<1>3. IsSeq(ops) /\ Len(ops) = 1 /\ ops[1] = Exec(Op(t).to)
  BY SeqOne
<1> HIDE DEF ops
<1>4. StackTypes /\ Replaces(t, ops)
  BY <1>1 DEF ControlInv, Becomes
<1>5. /\ IsSeq(stack'[t]) /\ \A i \in 1 .. Len(ops) : i \in 1 .. Len(stack'[t]) /\ stack'[t][i] = ops[i]
  <2>1. IsSeq(ops)
    BY <1>3
  <2> QED BY <1>1, <1>4, <2>1, Pushed
<1>6. 1 \in 1 .. Len(stack'[t]) /\ stack'[t][1] = Exec(Op(t).to)
  BY <1>3, <1>5
<1>7. stack'[t] # <<>>
  BY <1>6, SeqEmpty
<1>8. Head(stack'[t]) = Exec(Op(t).to)
  BY <1>5, <1>6, <1>7, SeqTail
<1> QED BY <1>1, <1>7, <1>8 DEF Enters, Executes, Op, Exec, Becomes

LEMMA EntersRun ==
  ASSUME ControlInv, NEW t \in Threads, stack[t] # <<>>, Consume(t)
  PROVE  Enters(t, Op(t).at)
<1> DEFINE ops == <<Exec(Op(t).at)>>
<1>1. /\ stack'[t] = ops \o stack[t] /\ IsSeq(stack[t])
      /\ \A u \in Threads : u # t => stack'[u] = stack[u]
  BY StackEffects DEF ControlInv, StackTypes
<1>2. IsSeq(ops) /\ Len(ops) = 1 /\ ops[1] = Exec(Op(t).at)
  BY SeqOne
<1>3. Len(stack[t]) \in Nat
  BY <1>1, SeqLen
<1> HIDE DEF ops
<1>4. /\ IsSeq(stack'[t]) /\ Len(stack'[t]) = Len(ops) + Len(stack[t])
      /\ \A i \in 1 .. Len(ops) : stack'[t][i] = ops[i]
  <2>1. IsSeq(ops)
    BY <1>2
  <2> QED BY <1>1, <2>1, SeqConcat
<1>5. Len(stack'[t]) # 0 /\ stack'[t][1] = Exec(Op(t).at)
  BY <1>2, <1>3, <1>4
<1>6. stack'[t] # <<>>
  BY <1>5, SeqEmpty
<1>7. Head(stack'[t]) = Exec(Op(t).at)
  BY <1>4, <1>5, <1>6, SeqTail
<1> QED BY <1>1, <1>6, <1>7 DEF Enters, Executes, Op, Exec

LEMMA LeavesRest ==
  ASSUME ControlInv, NEW t \in Threads, stack[t] # <<>>, Rest(t)
  PROVE  Leaves(t)
<1>1. Then(t, <<>>)
  BY DEF Rest
<1>2. Becomes(t, <<>>)
  BY <1>1, ThenBecomes DEF ControlInv, StackTypes
<1>3. IsSeq(<<>>) /\ \A i : i \notin 1 .. Len(<<>>)
  BY SeqEmpty
<1> QED BY <1>2, <1>3, LeavesCalls

LEMMA LeavesSpawn ==
  ASSUME ControlInv, NEW t \in Threads, stack[t] # <<>>, SpawnStep(t)
  PROVE  Leaves(t)
<1>1. PICK new : Becomes(t, SpawnOps(Op(t).at, new))
  BY DEF SpawnStep
<1>2. PICK s \in Supervisors : s = Op(t).at
  BY TopOp DEF SupervisorKinds, SpawnStep
<1> DEFINE ops == SpawnOps(s, new)
           N == Len(ops)
<1>3. /\ IsSeq(ops) /\ N \in {3, 4} /\ (N = 4 => ops[1].k = "cast")
      /\ ops[N - 2] = [k |-> "know", at |-> s, new |-> new]
      /\ ops[N - 1] = Send(new, Msg(s, "add_link", <<>>))
      /\ ops[N] = [k |-> "sync", at |-> s, new |-> new, cause |-> current[s]]
  BY SpawnForm
<1>4. Becomes(t, ops)
  BY <1>1, <1>2
<1>5. ops[N - 2].k = "know" /\ ops[N - 1].k = "send" /\ ops[N].k = "sync"
  BY <1>3 DEF Send
<1> HIDE DEF ops
<1>6. \A i \in 1 .. N : i = N - 2 \/ i = N - 1 \/ i = N \/ (i = 1 /\ N = 4)
  BY <1>3
<1> HIDE DEF N
<1>7. \A i \in 1 .. N : ops[i].k # "exec"
  BY <1>3, <1>5, <1>6
<1> QED BY <1>3, <1>4, <1>7, LeavesCalls DEF N

LEMMA LeavesCall ==
  ASSUME ControlInv, Call
  PROVE  Leaves(Main) /\ \A n : ~Executes(Main, n)
<1>1. stack[Main] = <<>> /\ DOMAIN stack = Threads /\ Main \in Threads
  BY DEF Call, ControlInv, StackTypes, Threads
<1>2. ControlInv'
  BY ControlCall
<1>3. PICK call \in Head(script) : stack' = [stack EXCEPT ![Main] = call]
  BY DEF Call
<1>4. Head(script) = script[1] /\ 1 \in 1 .. Len(script)
  BY SeqTail DEF Call, ControlInv, StackTypes
<1>5. OnlyCalls(call)
  BY <1>4 DEF ControlInv, StackTypes
<1>6. stack'[Main] = call /\ \A u \in Threads : u # Main => stack'[u] = stack[u]
  BY <1>1, <1>3
<1>7. ASSUME call # <<>>
      PROVE  Head(call).k # "exec"
  <2>1. IsSeq(call)
    BY <1>5 DEF OnlyCalls, IsSeq
  <2>2. Head(call) = call[1] /\ 1 \in 1 .. Len(call)
    BY <1>7, <2>1, SeqTail
  <2> QED BY <1>5, <2>2 DEF OnlyCalls, CallKinds
<1> QED BY <1>1, <1>6, <1>7 DEF Leaves, Executes, Op

-----------------------------------------------------------------------------
(* What waits for an object                                                 *)

Queue(n) == IF n \in Actors THEN inbox[n] ELSE <<>>

\* The message n handles, if it handles one, and its mailbox.
Waiting(n) == (IF Executing(n) THEN <<current[n]>> ELSE <<>>) \o Queue(n)

\* n has filed what it was asked for, but for what waits.
Settled(n) ==
  \A T \in Types : \/ <<n, T>> \in unlinked
                  \/ Settling(n, T, Waiting(n), Book(n, T), asked[n][T])

\* A remove_link that waits has been noted.
Noted(n) ==
  \A i \in 1 .. Len(Waiting(n)) :
    LET msg == Waiting(n)[i]
    IN  msg.cmd = "remove_link" /\ msg.sender # NoAddress =>
          <<n, TypeOf[msg.sender]>> \in unlinked

SettleInv == OneHandler /\ \A n \in Nodes : Settled(n) /\ Noted(n)

LEMMA QueueSeq ==
  ASSUME DataTypes, NEW n
  PROVE  IsSeq(Queue(n))
BY SeqEmpty DEF DataTypes, Queue

LEMMA WaitingIdle ==
  ASSUME DataTypes, NEW n, ~Executing(n)
  PROVE  Waiting(n) = Queue(n)
BY QueueSeq, EmptyConcat DEF Waiting

LEMMA WaitingBusy ==
  ASSUME DataTypes, NEW n, Executing(n)
  PROVE  /\ Waiting(n) = <<current[n]>> \o Queue(n) /\ IsSeq(Waiting(n)) /\ Waiting(n) # <<>>
         /\ Waiting(n)[1] = current[n] /\ Tail(Waiting(n)) = Queue(n)
<1> DEFINE h == <<current[n]>>
           w == h \o Queue(n)
<1>1. Waiting(n) = w
  BY DEF Waiting
<1>2. IsSeq(h) /\ Len(h) = 1 /\ h[1] = current[n] /\ IsSeq(Queue(n)) /\ Len(Queue(n)) \in Nat
  BY SeqOne, QueueSeq, SeqLen
<1> HIDE DEF h
<1>3. /\ IsSeq(w) /\ Len(w) = Len(h) + Len(Queue(n))
      /\ \A i \in 1 .. Len(h) : w[i] = h[i]
      /\ \A i \in 1 .. Len(Queue(n)) : w[Len(h) + i] = Queue(n)[i]
  <2>1. IsSeq(h) /\ IsSeq(Queue(n))
    BY <1>2
  <2> QED BY <2>1, SeqConcat
<1> HIDE DEF w
<1>4. Len(w) = Len(Queue(n)) + 1 /\ w[1] = current[n]
  BY <1>2, <1>3
<1>5. w # <<>>
  BY <1>2, <1>4, SeqEmpty
<1>6. /\ IsSeq(Tail(w)) /\ Len(Tail(w)) = Len(w) - 1
      /\ \A i \in 1 .. Len(w) - 1 : Tail(w)[i] = w[i + 1]
  BY <1>3, <1>5, SeqTail
<1>7. Len(Tail(w)) = Len(Queue(n))
  BY <1>2, <1>4, <1>6
<1>8. \A i \in 1 .. Len(Queue(n)) : Tail(w)[i] = Queue(n)[i]
  <2> TAKE i \in 1 .. Len(Queue(n))
  <2>1. i \in 1 .. Len(w) - 1 /\ Len(h) + i = i + 1
    BY <1>2, <1>4
  <2> QED BY <1>3, <1>6, <2>1
<1>9. Tail(w) = Queue(n)
  BY <1>2, <1>6, <1>7, <1>8, SameSeq
<1> QED BY <1>1, <1>3, <1>4, <1>5, <1>9 DEF w, h

LEMMA WaitingSeq ==
  ASSUME DataTypes, NEW n
  PROVE  IsSeq(Waiting(n))
BY QueueSeq, WaitingIdle, WaitingBusy

LEMMA WaitingSame ==
  ASSUME NEW n, Executing(n)' <=> Executing(n), Queue(n)' = Queue(n),
         Executing(n) => current'[n] = current[n]
  PROVE  Waiting(n)' = Waiting(n)
BY DEF Waiting

\* A message joins the queue.
LEMMA WaitingAppend ==
  ASSUME DataTypes, DataTypes', NEW n, Executing(n)' <=> Executing(n), NEW msg,
         Queue(n)' = Append(Queue(n), msg), current'[n] = current[n]
  PROVE  Waiting(n)' = Append(Waiting(n), msg)
<1> DEFINE q == Queue(n)
<1>1. IsSeq(q)
  BY QueueSeq
<1>2. CASE ~Executing(n)
  <2>1. Waiting(n) = q
    BY <1>2, WaitingIdle
  <2>2. Waiting(n)' = Queue(n)'
    <3>1. IsSeq(Queue(n)')
      BY <1>1, SeqAppend
    <3> QED BY <1>2, <3>1, EmptyConcat DEF Waiting
  <2> QED BY <2>1, <2>2
<1>3. CASE Executing(n)
  <2> DEFINE h == <<current[n]>>
             v == h \o Append(q, msg)
             w == Append(h \o q, msg)
  <2>1. Waiting(n) = h \o q
    BY <1>3 DEF Waiting
  <2>2. Waiting(n)' = v
    BY <1>3 DEF Waiting
  <2>3. IsSeq(h)
    BY SeqOne
  <2> HIDE DEF h, q
  <2>4. v = w
    <3> DEFINE S == ToSet(h) \cup ToSet(q) \cup {msg}
    <3>1. h \in Seq(S) /\ q \in Seq(S) /\ msg \in S
      BY <1>1, <2>3 DEF IsSeq
    <3> HIDE DEF S
    <3>2. Append(q, msg) \in Seq(S) /\ h \o q \in Seq(S)
      BY <3>1
    <3>3. Append(q, msg) = q \o <<msg>> /\ Append(h \o q, msg) = (h \o q) \o <<msg>>
      BY <3>1, <3>2, AppendIsConcat
    <3>4. <<msg>> \in Seq(S)
      BY <3>1
    <3>5. (h \o q) \o <<msg>> = h \o (q \o <<msg>>)
      BY <3>1, <3>4, ConcatAssociative
    <3> QED BY <3>3, <3>5
  <2> QED BY <2>1, <2>2, <2>4 DEF q
<1> QED BY <1>2, <1>3

-----------------------------------------------------------------------------
(* One object's step                                                        *)

NodeOK(n) == Settled(n) /\ Noted(n)

LEMMA NodeSame ==
  ASSUME NEW n \in Nodes, NodeOK(n), Waiting(n)' = Waiting(n),
         contacts'[n] = contacts[n], asked'[n] = asked[n], unlinked \subseteq unlinked'
  PROVE  NodeOK(n)'
<1>1. \A T : Book(n, T)' = Book(n, T)
  BY DEF Book
<1>2. Settled(n)'
  BY <1>1 DEF NodeOK, Settled
<1>3. Noted(n)'
  BY DEF NodeOK, Noted
<1> QED BY <1>2, <1>3 DEF NodeOK

LEMMA NodeAppend ==
  ASSUME DataTypes, NEW n \in Nodes, NodeOK(n), NEW msg,
         Waiting(n)' = Append(Waiting(n), msg),
         contacts'[n] = contacts[n], Note(n, msg)
  PROVE  NodeOK(n)'
<1> DEFINE q == Waiting(n)
           r == Append(q, msg)
<1>1. /\ \A T \in Types : AskedFor(n, T, msg.sender, Asks(msg, n, T))
      /\ unlinked \subseteq unlinked'
      /\ msg.cmd = "remove_link" /\ msg.sender # NoAddress =>
           <<n, TypeOf[msg.sender]>> \in unlinked'
  BY NoteEffect
<1>2. IsSeq(q)
  BY WaitingSeq
<1>3. \A T : Book(n, T)' = Book(n, T)
  BY DEF Book
<1>4. Settled(n)'
  <2> SUFFICES ASSUME NEW T \in Types, <<n, T>> \notin unlinked
               PROVE  Settling(n, T, r, Book(n, T), asked'[n][T])
    BY <1>1, <1>3 DEF Settled
  <2>1. Settling(n, T, q, Book(n, T), asked[n][T]) /\ IsSeq(asked[n][T])
    BY DEF NodeOK, Settled, DataTypes
  <2> HIDE DEF q
  <2>2. CASE Asks(msg, n, T)
    <3>1. asked'[n][T] = Append(asked[n][T], msg.sender)
      BY <1>1, <2>2 DEF AskedFor
    <3> QED BY <1>2, <2>1, <2>2, <3>1, SettlingHit
  <2>3. CASE ~Asks(msg, n, T)
    <3>1. asked'[n][T] = asked[n][T]
      BY <1>1, <2>3 DEF AskedFor
    <3> QED BY <1>2, <2>1, <2>3, <3>1, SettlingMiss
  <2> QED BY <2>2, <2>3
<1>5. Noted(n)'
  <2>1. /\ Len(r) = Len(q) + 1 /\ Len(q) \in Nat /\ r[Len(q) + 1] = msg
        /\ \A i \in 1 .. Len(q) : r[i] = q[i]
    BY <1>2, SeqAppend, SeqLen
  <2> SUFFICES ASSUME NEW i \in 1 .. Len(r), r[i].cmd = "remove_link", r[i].sender # NoAddress
               PROVE  <<n, TypeOf[r[i].sender]>> \in unlinked'
    BY DEF Noted
  <2> HIDE DEF r
  <2>2. CASE i \in 1 .. Len(q)
    BY <1>1, <2>1, <2>2 DEF NodeOK, Noted
  <2>3. CASE i = Len(q) + 1
    BY <1>1, <2>1, <2>3
  <2>4. i \in 1 .. Len(q) \/ i = Len(q) + 1
    <3> HIDE DEF q
    <3> QED BY <2>1
  <2> QED BY <2>2, <2>3, <2>4
<1> QED BY <1>4, <1>5 DEF NodeOK

LEMMA NotedTail ==
  ASSUME DataTypes, NEW n, Noted(n), Waiting(n) # <<>>, Waiting(n)' = Tail(Waiting(n)),
         unlinked \subseteq unlinked'
  PROVE  Noted(n)'
<1> DEFINE q == Waiting(n)
           r == Tail(q)
<1>1. IsSeq(q)
  BY WaitingSeq
<1>2. /\ Len(q) \in Nat \ {0} /\ Len(r) = Len(q) - 1
      /\ \A i \in 1 .. Len(q) - 1 : r[i] = q[i + 1]
  BY <1>1, SeqTail
<1> SUFFICES ASSUME NEW i \in 1 .. Len(r), r[i].cmd = "remove_link", r[i].sender # NoAddress
             PROVE  <<n, TypeOf[r[i].sender]>> \in unlinked
  BY DEF Noted
<1> HIDE DEF r
<1>3. i + 1 \in 1 .. Len(q) /\ r[i] = q[i + 1]
  <2> HIDE DEF q
  <2> QED BY <1>2
<1> QED BY <1>3 DEF Noted

\* The message that n handles is none of the two that change its contacts.
LEMMA NodeSkip ==
  ASSUME DataTypes, NEW n \in Nodes, NodeOK(n), Waiting(n) # <<>>,
         Waiting(n)' = Tail(Waiting(n)), Waiting(n)[1].cmd # "add_link",
         UNCHANGED <<contacts, asked, unlinked>>
  PROVE  NodeOK(n)'
<1> DEFINE q == Waiting(n)
<1>1. IsSeq(q)
  BY WaitingSeq
<1>2. Noted(n)'
  BY NotedTail DEF NodeOK
<1>3. \A T : Book(n, T)' = Book(n, T)
  BY DEF Book
<1>4. Settled(n)'
  <2> SUFFICES ASSUME NEW T \in Types, <<n, T>> \notin unlinked
               PROVE  Settling(n, T, Tail(q), Book(n, T), asked[n][T])
    BY <1>3 DEF Settled
  <2>1. Settling(n, T, q, Book(n, T), asked[n][T]) /\ IsSeq(asked[n][T])
    BY DEF NodeOK, Settled, DataTypes
  <2>2. ~Asks(q[1], n, T)
    BY DEF Asks
  <2> HIDE DEF q
  <2> QED BY <1>1, <2>1, <2>2, SettlingSkip DEF q
<1> QED BY <1>2, <1>4 DEF NodeOK

\* It is an add_link.
LEMMA NodeFile ==
  ASSUME DataTypes, BooksOK, NEW n \in Nodes, NodeOK(n), Waiting(n) # <<>>,
         Waiting(n)' = Tail(Waiting(n)), Waiting(n)[1].cmd = "add_link",
         Waiting(n)[1].sender # NoAddress, Files(n, Waiting(n)[1].sender),
         UNCHANGED <<asked, unlinked>>
  PROVE  NodeOK(n)'
<1> DEFINE q == Waiting(n)
           a == q[1].sender
<1>1. IsSeq(q) /\ q # <<>>
  BY WaitingSeq
<1>2. Noted(n)'
  BY NotedTail DEF NodeOK
<1>3. a # NoAddress
  OBVIOUS
<1>4. Settled(n)'
  <2> SUFFICES ASSUME NEW T \in Types, <<n, T>> \notin unlinked
               PROVE  Settling(n, T, Tail(q), Book(n, T)', asked[n][T])
    BY DEF Settled
  <2>1. Settling(n, T, q, Book(n, T), asked[n][T]) /\ IsSeq(asked[n][T])
    BY DEF NodeOK, Settled, DataTypes
  <2>2. CASE a = n
    <3>1. Book(n, T)' = Book(n, T)
      BY <2>2 DEF Files, Book
    <3>2. ~Asks(q[1], n, T)
      BY <2>2 DEF Asks
    <3> HIDE DEF q
    <3> QED BY <1>1, <2>1, <3>1, <3>2, SettlingSkip
  <2>3. CASE a # n
    <3>1. contacts'[n] = Acquainted(n, a)
      BY <2>3 DEF Files, BooksOK
    <3>2. Book(n, T)' = BookIn(Acquainted(n, a), T)
      BY <3>1 DEF Book, BookIn
    <3>3. CASE T # TypeOf[a]
      <4>1. Book(n, T)' = Book(n, T)
        BY <3>2, <3>3, AcquaintedBooks
      <4>2. ~Asks(q[1], n, T)
        BY <3>3 DEF Asks
      <4> HIDE DEF q
      <4> QED BY <1>1, <2>1, <4>1, <4>2, SettlingSkip
    <3>4. CASE T = TypeOf[a]
      <4>1. Book(n, T)' = IF n \in Actors /\ Book(n, T) # <<>> THEN Book(n, T)
                          ELSE Append(Book(n, T), a)
        BY <3>2, <3>4, AcquaintedBooks
      <4>2. Asks(q[1], n, T)
        BY <1>3, <2>3, <3>4 DEF Asks
      <4> HIDE DEF q
      <4>3. \/ n \in Actors /\ Book(n, T) # <<>> /\ Settling(n, T, Tail(q), Book(n, T), asked[n][T])
            \/ n \in Actors /\ Book(n, T) = <<>> /\ Settling(n, T, Tail(q), <<a>>, asked[n][T])
            \/ n \notin Actors /\ Settling(n, T, Tail(q), Append(Book(n, T), a), asked[n][T])
        BY <1>1, <2>1, <4>2, SettlingFile
      <4>4. Append(<<>>, a) = <<a>>
        OBVIOUS
      <4> HIDE DEF a
      <4> QED BY <4>1, <4>3, <4>4
    <3> QED BY <3>3, <3>4
  <2> QED BY <2>2, <2>3
<1> QED BY <1>2, <1>4 DEF NodeOK

\* It is a remove_link: the type it is about was noted.
LEMMA NodeRemove ==
  ASSUME DataTypes, BooksOK, NEW n \in Nodes, NodeOK(n), Waiting(n) # <<>>,
         Waiting(n)' = Tail(Waiting(n)), Waiting(n)[1].cmd = "remove_link",
         Waiting(n)[1].sender # NoAddress, NEW c, Forgets(n, Waiting(n)[1].sender, c),
         contacts'[n] = c, UNCHANGED <<asked, unlinked>>
  PROVE  NodeOK(n)'
<1> DEFINE q == Waiting(n)
           a == q[1].sender
<1>1. IsSeq(q) /\ q # <<>>
  BY WaitingSeq
<1>2. Noted(n)'
  BY NotedTail DEF NodeOK
<1>3. <<n, TypeOf[a]>> \in unlinked
  <2>1. 1 \in 1 .. Len(q)
    <3> HIDE DEF q
    <3> QED BY <1>1, SeqTail
  <2> QED BY <2>1 DEF NodeOK, Noted
<1>4. Settled(n)'
  <2> SUFFICES ASSUME NEW T \in Types, <<n, T>> \notin unlinked
               PROVE  Settling(n, T, Tail(q), Book(n, T)', asked[n][T])
    BY DEF Settled
  <2>1. Settling(n, T, q, Book(n, T), asked[n][T]) /\ IsSeq(asked[n][T])
    BY DEF NodeOK, Settled, DataTypes
  <2>2. T # TypeOf[a]
    BY <1>3
  <2>3. Book(n, T)' = Book(n, T)
    BY <2>2 DEF Book, Forgets
  <2>4. ~Asks(q[1], n, T)
    BY DEF Asks
  <2> HIDE DEF q
  <2> QED BY <1>1, <2>1, <2>3, <2>4, SettlingSkip
<1> QED BY <1>2, <1>4 DEF NodeOK

\* sync files the new object, while nothing waits for the supervisor.
LEMMA NodeKnow ==
  ASSUME DataTypes, BooksOK, NEW n \in Supervisors, NodeOK(n), Waiting(n) = <<>>,
         Waiting(n)' = <<>>, NEW a \in Nodes, Files(n, a), Ask(n, a), UNCHANGED unlinked
  PROVE  NodeOK(n)'
<1>1. n \in Nodes /\ n \notin Actors
  BY NodesAssumption DEF Nodes
<1>2. Noted(n)'
  BY SeqEmpty DEF Noted
<1>3. \A T \in Types : AskedFor(n, T, a, a \notin {NoAddress, n} /\ TypeOf[a] = T)
  BY <1>1, AskEffect
<1>4. a # NoAddress
  BY NodesAssumption
<1>5. Settled(n)'
  <2> SUFFICES ASSUME NEW T \in Types, <<n, T>> \notin unlinked
               PROVE  Settling(n, T, <<>>, Book(n, T)', asked'[n][T])
    BY DEF Settled
  <2>1. Settling(n, T, <<>>, Book(n, T), asked[n][T]) /\ IsSeq(asked[n][T])
    BY <1>1 DEF NodeOK, Settled, DataTypes
  <2>2. CASE a = n
    <3>1. Book(n, T)' = Book(n, T) /\ asked'[n][T] = asked[n][T]
      BY <1>3, <2>2 DEF Files, Book, AskedFor
    <3> QED BY <2>1, <3>1
  <2>3. CASE a # n
    <3>1. contacts'[n] = Acquainted(n, a)
      BY <1>1, <2>3 DEF Files, BooksOK
    <3>2. Book(n, T)' = BookIn(Acquainted(n, a), T)
      BY <3>1 DEF Book, BookIn
    <3>3. CASE T # TypeOf[a]
      <4>1. Book(n, T)' = Book(n, T)
        BY <1>1, <3>2, <3>3, AcquaintedBooks
      <4>2. asked'[n][T] = asked[n][T]
        BY <1>3, <3>3 DEF AskedFor
      <4> QED BY <2>1, <4>1, <4>2
    <3>4. CASE T = TypeOf[a]
      <4>1. Book(n, T)' = Append(Book(n, T), a)
        BY <1>1, <3>2, <3>4, AcquaintedBooks
      <4>2. asked'[n][T] = Append(asked[n][T], a)
        BY <1>3, <1>4, <2>3, <3>4 DEF AskedFor
      <4> DEFINE msg == Msg(a, "add_link", <<>>)
      <4>3. Asks(msg, n, T) /\ msg.sender = a
        BY <1>4, <2>3, <3>4 DEF Asks, Msg
      <4> HIDE DEF msg
      <4> DEFINE q == Append(<<>>, msg)
      <4>4. Settling(n, T, q, Book(n, T), Append(asked[n][T], a))
        BY <2>1, <4>3, SettlingHit, SeqEmpty
      <4>5. IsSeq(q) /\ Len(q) = 1 /\ q[1] = msg /\ q # <<>>
        <5>1. q = <<msg>>
          OBVIOUS
        <5> HIDE DEF q
        <5> QED BY <5>1, SeqOne, SeqEmpty
      <4>6. Tail(q) = <<>>
        <5>1. IsSeq(Tail(q)) /\ Len(Tail(q)) = Len(q) - 1
          BY <4>5, SeqTail
        <5> QED BY <4>5, <5>1, SeqLen
      <4> HIDE DEF q
      <4>7. IsSeq(Append(asked[n][T], a))
        BY <2>1, SeqAppend
      <4>8. Settling(n, T, Tail(q), Append(Book(n, T), q[1].sender), Append(asked[n][T], a))
        <5>1. Asks(q[1], n, T)
          BY <4>3, <4>5
        <5> QED BY <1>1, <4>4, <4>5, <4>7, <5>1, SettlingFile
      <4> QED BY <4>1, <4>2, <4>3, <4>5, <4>6, <4>8
    <3> QED BY <3>3, <3>4
  <2> QED BY <2>2, <2>3
<1> QED BY <1>2, <1>5 DEF NodeOK

-----------------------------------------------------------------------------
(* Links settle                                                             *)

\* t has still to read current_message_ of s: in a handler that begins, or in the
\* sync at the end of a spawn.
Inside(t, s) ==
  \E i \in 1 .. Len(stack[t]) : stack[t][i].k \in {"exec", "sync"} /\ stack[t][i].at = s

\* u is about to call enqueue, spawn_actor or add_link_impl of s.
Entering(u, s) ==
  /\ stack[u] # <<>>
  /\ \/ Op(u).k = "send" /\ Op(u).to = s
     \/ Op(u).k \in {"spawn", "know"} /\ Op(u).at = s

\* No thread calls a supervisor while another one has still to read the message
\* it is handling: enqueue sets current_message_ without a lock, so that this is
\* what the programs have to see to whose actors send while main() goes on.
OneCaller ==
  \A t, u \in Threads : \A s \in Supervisors : t # u /\ Inside(t, s) => ~Entering(u, s)

LEMMA LeavesExecuting ==
  ASSUME OneHandler, NEW t \in Threads, Leaves(t), NEW n
  PROVE  /\ Executes(t, n) => Executing(n) /\ ~Executing(n)'
         /\ ~Executes(t, n) => (Executing(n)' <=> Executing(n))
<1>1. Executes(t, n) => Executing(n)
  BY DEF Executing
<1>2. Executing(n)' <=> \E u \in Threads : u # t /\ Executes(u, n)
  BY DEF Executing, Leaves
<1> QED BY <1>1, <1>2 DEF OneHandler, Executing

LEMMA LeavesOneHandler ==
  ASSUME OneHandler, NEW t \in Threads, Leaves(t)
  PROVE  OneHandler'
<1> SUFFICES ASSUME NEW u \in Threads, NEW v \in Threads, NEW n,
                    Executes(u, n)', Executes(v, n)'
             PROVE  u = v
  BY DEF OneHandler
<1>1. Executes(u, n) /\ Executes(v, n)
  BY DEF Leaves
<1> QED BY <1>1 DEF OneHandler

LEMMA EntersExecuting ==
  ASSUME OneHandler, NEW t \in Threads, NEW n, Enters(t, n), ~Executing(n),
         \A m : ~Executes(t, m)
  PROVE  OneHandler' /\ Executing(n)' /\ \A m : m # n => (Executing(m)' <=> Executing(m))
<1>1. Executing(n)'
  BY DEF Enters, Executing
<1>2. \A m : m # n => (Executing(m)' <=> Executing(m))
  BY DEF Enters, Executing
<1>3. OneHandler'
  <2> SUFFICES ASSUME NEW u \in Threads, NEW v \in Threads, NEW m,
                      Executes(u, m)', Executes(v, m)'
               PROVE  u = v
    BY DEF OneHandler
  <2>1. CASE m = n
    BY <2>1 DEF Enters, Executing
  <2>2. CASE m # n
    <3>1. Executes(u, m) /\ Executes(v, m)
      BY <2>2 DEF Enters
    <3> QED BY <3>1 DEF OneHandler
  <2> QED BY <2>1, <2>2
<1> QED BY <1>1, <1>2, <1>3

LEMMA QueueSame ==
  ASSUME NEW n, UNCHANGED inbox
  PROVE  Queue(n)' = Queue(n)
BY DEF Queue

\* A step that leaves a handler, if it is in one, and changes no mailbox and no
\* other message.
LEMMA SettleLeave ==
  ASSUME DataTypes, SettleInv, NEW t \in Threads, Leaves(t), UNCHANGED inbox,
         \A n \in Nodes : ~Executes(t, n) => current'[n] = current[n]
  PROVE  /\ OneHandler'
         /\ \A n \in Nodes : ~Executes(t, n) => Waiting(n)' = Waiting(n)
         /\ \A n \in Nodes : Executes(t, n) =>
              /\ Waiting(n) # <<>> /\ Waiting(n)' = Tail(Waiting(n))
              /\ Waiting(n)[1] = current[n]
<1>1. OneHandler
  BY DEF SettleInv
<1>2. OneHandler'
  BY <1>1, LeavesOneHandler
<1>3. ASSUME NEW n \in Nodes, ~Executes(t, n)
      PROVE  Waiting(n)' = Waiting(n)
  BY <1>1, <1>3, LeavesExecuting, QueueSame, WaitingSame
<1>4. ASSUME NEW n \in Nodes, Executes(t, n)
      PROVE  /\ Waiting(n) # <<>> /\ Waiting(n)' = Tail(Waiting(n))
             /\ Waiting(n)[1] = current[n]
  <2>1. Executing(n) /\ ~Executing(n)'
    BY <1>1, <1>4, LeavesExecuting
  <2>2. /\ Waiting(n) # <<>> /\ Waiting(n)[1] = current[n] /\ Tail(Waiting(n)) = Queue(n)
    BY <2>1, WaitingBusy
  <2>3. Waiting(n)' = <<>> \o Queue(n)
    BY <2>1, QueueSame DEF Waiting
  <2>4. Waiting(n)' = Queue(n)
    BY <2>3, QueueSeq, EmptyConcat
  <2> QED BY <2>2, <2>4
<1> QED BY <1>2, <1>3, <1>4

LEMMA NoExec ==
  ASSUME NEW t, Op(t).k # "exec"
  PROVE  \A n : ~Executes(t, n)
BY DEF Executes

LEMMA EmptyOps == IsSeq(<<>>) /\ \A i \in 1 .. Len(<<>>) : <<>>[i].k # "exec"
BY SeqEmpty

LEMMA SettleCalls ==
  ASSUME FormInv, SettleInv, NEW t \in Threads, stack[t] # <<>>, CallStep(t)
  PROVE  SettleInv'
<1>1. ControlInv /\ DataTypes
  BY DEF FormInv
<1>2. PICK ops : CallOps(ops) /\ Becomes(t, ops)
  BY DEF CallStep
<1>3. Leaves(t)
  BY <1>1, <1>2, LeavesCalls DEF CallOps, CallOp
<1>4. UNCHANGED <<inbox, current, contacts, asked, unlinked>>
  BY DEF CallStep
<1>5. OneHandler'
  BY <1>1, <1>3, <1>4, SettleLeave
<1>6. ASSUME NEW n \in Nodes
      PROVE  NodeOK(n)'
  <2>1. NodeOK(n)
    BY DEF SettleInv, NodeOK
  <2>2. CASE ~Executes(t, n)
    <3>1. Waiting(n)' = Waiting(n)
      BY <1>1, <1>3, <1>4, <2>2, SettleLeave
    <3> QED BY <1>4, <2>1, <3>1, NodeSame
  <2>3. CASE Executes(t, n)
    <3>1. /\ Waiting(n) # <<>> /\ Waiting(n)' = Tail(Waiting(n))
          /\ Waiting(n)[1] = current[n]
      BY <1>1, <1>3, <1>4, <2>3, SettleLeave
    <3>2. current[n].cmd # "add_link"
      BY <2>3 DEF Executes, CallStep
    <3> QED BY <1>1, <1>4, <2>1, <3>1, <3>2, NodeSkip
  <2> QED BY <2>2, <2>3
<1> QED BY <1>5, <1>6 DEF SettleInv, NodeOK

LEMMA SettleFile ==
  ASSUME FormInv, SettleInv, NEW t \in Threads, stack[t] # <<>>, FileStep(t) \/ RemoveStep(t)
  PROVE  SettleInv'
<1>0. PICK m : m = Op(t).at
  OBVIOUS
<1>1. ControlInv /\ DataTypes /\ BooksOK
  BY DEF FormInv
<1>2. /\ Becomes(t, <<>>) /\ UNCHANGED <<inbox, asked, unlinked>>
      /\ Op(t).k = "exec"
  BY DEF FileStep, RemoveStep, past
<1>3. Leaves(t)
  BY <1>1, <1>2, EmptyOps, LeavesCalls
<1>9. \A n \in Nodes : ~Executes(t, n) => current'[n] = current[n]
  <2>1. current' \in {current, Emptied(m)}
    BY <1>0 DEF FileStep, RemoveStep
  <2>2. \A n \in Nodes : n # m => Emptied(m)[n] = current[n]
    BY <1>1 DEF Emptied, DataTypes
  <2>3. Executes(t, m)
    BY <1>0, <1>2 DEF Executes
  <2> QED BY <2>1, <2>2, <2>3
<1>4. OneHandler'
  BY <1>1, <1>2, <1>3, <1>9, SettleLeave
<1>5. m \in Nodes /\ Executes(t, m)
  BY <1>0, <1>1, <1>2, TopOp DEF Executes
<1>6. \A n \in Nodes : n # m => contacts'[n] = contacts[n]
  <2>1. DOMAIN contacts = Nodes
    BY <1>1 DEF BooksOK
  <2>2. CASE FileStep(t)
    BY <1>0, <2>1, <2>2 DEF FileStep, Files
  <2>3. CASE RemoveStep(t)
    BY <1>0, <2>1, <2>3 DEF RemoveStep
  <2> QED BY <2>2, <2>3
<1>7. ASSUME NEW n \in Nodes, n # m
      PROVE  NodeOK(n)'
  <2>1. NodeOK(n)
    BY DEF SettleInv, NodeOK
  <2>2. ~Executes(t, n)
    BY <1>0, <1>7 DEF Executes
  <2>3. Waiting(n)' = Waiting(n)
    BY <1>1, <1>2, <1>3, <1>9, <2>2, SettleLeave
  <2> QED BY <1>2, <1>6, <1>7, <2>1, <2>3, NodeSame
<1>8. NodeOK(m)'
  <2>1. NodeOK(m)
    BY <1>5 DEF SettleInv, NodeOK
  <2>2. /\ Waiting(m) # <<>> /\ Waiting(m)' = Tail(Waiting(m))
        /\ Waiting(m)[1] = current[m]
    BY <1>1, <1>2, <1>3, <1>5, <1>9, SettleLeave
  <2>3. CASE FileStep(t)
    <3>1. /\ current[m].cmd = "add_link" /\ current[m].sender # NoAddress
          /\ Files(m, current[m].sender)
      BY <1>0, <2>3 DEF FileStep
    <3> QED BY <1>1, <1>2, <1>5, <2>1, <2>2, <3>1, NodeFile
  <2>4. CASE RemoveStep(t)
    <3>1. current[m].cmd = "remove_link" /\ current[m].sender # NoAddress
      BY <1>0, <2>4 DEF RemoveStep
    <3>2. PICK c : Forgets(m, current[m].sender, c) /\ contacts' = [contacts EXCEPT ![m] = c]
      BY <1>0, <2>4 DEF RemoveStep
    <3>3. contacts'[m] = c
      BY <1>1, <1>5, <3>2 DEF BooksOK
    <3> QED BY <1>1, <1>2, <1>5, <2>1, <2>2, <3>1, <3>2, <3>3, NodeRemove
  <2> QED BY <2>3, <2>4
<1> QED BY <1>4, <1>7, <1>8 DEF SettleInv, NodeOK

\* What OneCaller says of a thread that is about to call s.
LEMMA CallerAlone ==
  ASSUME ControlInv, OneCaller, NEW t \in Threads, NEW s \in Supervisors, Entering(t, s)
  PROVE  ~Executing(s)
<1> SUFFICES ASSUME NEW u \in Threads, Executes(u, s) PROVE FALSE
  BY DEF Executing
<1>1. 1 \in 1 .. Len(stack[u]) /\ stack[u][1] = Op(u)
  BY TopOp DEF Executes
<1>2. Inside(u, s)
  BY <1>1 DEF Inside, Executes
<1>3. u # t
  BY DEF Entering, Executes
<1> QED BY <1>2, <1>3 DEF OneCaller

LEMMA SettleKnow ==
  ASSUME FormInv, SettleInv, OneCaller, NEW t \in Threads, stack[t] # <<>>, KnowStep(t)
  PROVE  SettleInv'
<1>0. PICK m : m = Op(t).at
  OBVIOUS
<1>a. PICK new : new = Op(t).new
  OBVIOUS
<1>1. ControlInv /\ DataTypes /\ BooksOK
  BY DEF FormInv
<1>2. /\ Becomes(t, <<>>) /\ UNCHANGED <<inbox, current, unlinked>> /\ Op(t).k = "know"
      /\ Files(m, new) /\ Ask(m, new) /\ new \in Nodes
  BY <1>0, <1>1, <1>a, TopOp DEF KnowStep
<1>3. Leaves(t)
  BY <1>1, <1>2, EmptyOps, LeavesCalls
<1>4. OneHandler'
  BY <1>1, <1>2, <1>3, SettleLeave
<1>5. m \in Supervisors /\ m \in Nodes
  BY <1>0, <1>1, <1>2, TopOp DEF SupervisorKinds, Nodes
<1>6. \A n : ~Executes(t, n)
  BY <1>2, NoExec
<1>7. \A n \in Nodes : Waiting(n)' = Waiting(n)
  BY <1>1, <1>2, <1>3, <1>6, SettleLeave
<1>8. \A n \in Nodes : n # m => contacts'[n] = contacts[n] /\ asked'[n] = asked[n]
  <2>1. DOMAIN contacts = Nodes
    BY <1>1 DEF BooksOK
  <2>2. \A n \in Nodes : n # m => contacts'[n] = contacts[n]
    BY <1>2, <2>1 DEF Files
  <2>3. \A n \in Nodes : n # m => asked'[n] = asked[n]
    BY <1>1, <1>2, <1>5, AskEffect
  <2> QED BY <2>2, <2>3
<1>9. ASSUME NEW n \in Nodes, n # m
      PROVE  NodeOK(n)'
  <2>1. NodeOK(n)
    BY DEF SettleInv, NodeOK
  <2> QED BY <1>2, <1>7, <1>8, <1>9, <2>1, NodeSame
<1>10. NodeOK(m)'
  <2>1. NodeOK(m)
    BY <1>5 DEF SettleInv, NodeOK
  <2>2. ~Executing(m)
    <3>1. Entering(t, m)
      BY <1>0, <1>2 DEF Entering
    <3> QED BY <1>1, <1>5, <3>1, CallerAlone
  <2>3. Waiting(m) = <<>>
    BY <1>1, <1>5, <2>2, WaitingIdle, NodesAssumption DEF Queue
  <2>4. Waiting(m)' = <<>>
    BY <1>5, <1>7, <2>3
  <2> QED BY <1>1, <1>2, <1>5, <2>1, <2>3, <2>4, NodeKnow
<1> QED BY <1>4, <1>9, <1>10 DEF SettleInv, NodeOK

LEMMA SettleSend ==
  ASSUME FormInv, SettleInv, OneCaller, NEW t \in Threads, SendToSupervisor(t), DataTypes'
  PROVE  SettleInv'
<1>0. PICK m : m = Op(t).to
  OBVIOUS
<1>a. PICK msg : msg = Op(t).msg
  OBVIOUS
<1>1. ControlInv /\ DataTypes /\ BooksOK /\ OneHandler
  BY DEF FormInv, SettleInv
<1>2. /\ stack[t] # <<>> /\ Op(t).k = "send" /\ m \in Supervisors /\ m \in Nodes
      /\ Note(m, msg) /\ UNCHANGED <<inbox, contacts>>
      /\ current' = [current EXCEPT ![m] = msg]
  BY <1>0, <1>a, <1>1, SupervisorEffect DEF Nodes, books
<1>3. Enters(t, m)
  BY <1>0, <1>1, EntersSupervisor
<1>4. ~Executing(m)
  <2>1. Entering(t, m)
    BY <1>0, <1>2 DEF Entering
  <2> QED BY <1>1, <1>2, <2>1, CallerAlone
<1>5. \A n : ~Executes(t, n)
  BY <1>2, NoExec
<1>6. OneHandler' /\ Executing(m)' /\ \A n : n # m => (Executing(n)' <=> Executing(n))
  BY <1>1, <1>3, <1>4, <1>5, EntersExecuting
<1>7. current'[m] = msg /\ \A n \in Nodes : n # m => current'[n] = current[n]
  BY <1>1, <1>2 DEF DataTypes
<1>8. /\ \A n \in Nodes : n # m => asked'[n] = asked[n]
      /\ unlinked \subseteq unlinked'
  BY <1>1, <1>2, NoteEffect
<1>9. ASSUME NEW n \in Nodes, n # m
      PROVE  NodeOK(n)'
  <2>1. NodeOK(n)
    BY DEF SettleInv, NodeOK
  <2>2. Waiting(n)' = Waiting(n)
    BY <1>2, <1>6, <1>7, <1>9, QueueSame, WaitingSame
  <2> QED BY <1>2, <1>8, <1>9, <2>1, <2>2, NodeSame
<1>10. NodeOK(m)'
  <2>1. NodeOK(m)
    BY <1>2 DEF SettleInv, NodeOK
  <2>2. Queue(m) = <<>> /\ Queue(m)' = <<>>
    BY <1>2, NodesAssumption DEF Queue
  <2>3. Waiting(m) = <<>>
    BY <1>1, <1>4, <2>2, WaitingIdle
  <2>4. Waiting(m)' = <<msg>>
    BY <1>6, <1>7, <2>2, SeqOne, EmptyConcat DEF Waiting
  <2>5. Append(<<>>, msg) = <<msg>>
    OBVIOUS
  <2>6. Waiting(m)' = Append(Waiting(m), msg)
    BY <2>3, <2>4, <2>5
  <2>7. contacts'[m] = contacts[m]
    BY <1>2
  <2> QED BY <1>1, <1>2, <2>1, <2>6, <2>7, NodeAppend
<1> QED BY <1>6, <1>9, <1>10 DEF SettleInv, NodeOK

LEMMA SettlePost ==
  ASSUME FormInv, SettleInv, NEW t \in Threads, stack[t] # <<>>, PostStep(t), DataTypes'
  PROVE  SettleInv'
<1>1. ControlInv /\ DataTypes /\ BooksOK /\ OneHandler
  BY DEF FormInv, SettleInv
<1>2. PICK a \in Actors : /\ Post(a, Op(t).msg)
                         /\ \E ops : PostOps(t, a, ops) /\ Becomes(t, ops)
  BY DEF PostStep
<1>a. PICK msg : msg = Op(t).msg
  OBVIOUS
<1>3. /\ Op(t).k = "send" /\ UNCHANGED <<current, contacts>> /\ Note(a, msg)
      /\ inbox' = [inbox EXCEPT ![a] = Append(@, msg)] /\ a \in Nodes
  BY <1>a, <1>2 DEF PostStep, Post, books, Nodes
<1>4. Leaves(t)
  BY <1>1, <1>2, LeavesPost
<1>5. \A n : ~Executes(t, n)
  BY <1>3, NoExec
<1>6. OneHandler' /\ \A n : Executing(n)' <=> Executing(n)
  BY <1>1, <1>4, <1>5, LeavesExecuting, LeavesOneHandler
<1>7. /\ inbox'[a] = Append(inbox[a], msg)
      /\ \A b \in Actors : b # a => inbox'[b] = inbox[b]
  BY <1>1, <1>3 DEF DataTypes
<1>8. /\ \A n \in Nodes : n # a => asked'[n] = asked[n]
      /\ unlinked \subseteq unlinked'
  BY <1>1, <1>3, NoteEffect
<1>9. ASSUME NEW n \in Nodes, n # a
      PROVE  NodeOK(n)'
  <2>1. NodeOK(n)
    BY DEF SettleInv, NodeOK
  <2>2. Queue(n)' = Queue(n)
    BY <1>7, <1>9 DEF Queue
  <2>3. Waiting(n)' = Waiting(n)
    BY <1>3, <1>6, <2>2, WaitingSame
  <2> QED BY <1>3, <1>8, <1>9, <2>1, <2>3, NodeSame
<1>10. NodeOK(a)'
  <2>1. NodeOK(a)
    BY <1>3 DEF SettleInv, NodeOK
  <2>2. Queue(a)' = Append(Queue(a), msg)
    BY <1>7 DEF Queue
  <2>3. Waiting(a)' = Append(Waiting(a), msg)
    BY <1>1, <1>3, <1>6, <2>2, WaitingAppend
  <2>4. contacts'[a] = contacts[a]
    BY <1>3
  <2> QED BY <1>1, <1>3, <2>1, <2>3, <2>4, NodeAppend
<1> QED BY <1>6, <1>9, <1>10 DEF SettleInv, NodeOK

LEMMA SettleConsume ==
  ASSUME FormInv, SettleInv, NEW t \in Threads, stack[t] # <<>>, Consume(t)
  PROVE  SettleInv'
<1>0. PICK a : a = Op(t).at
  OBVIOUS
<1>1. ControlInv /\ DataTypes /\ BooksOK /\ OneHandler
  BY DEF FormInv, SettleInv
<1>2. /\ Op(t).k = "run" /\ inbox[a] # <<>> /\ UNCHANGED <<contacts, asked, unlinked>>
      /\ current' = [current EXCEPT ![a] = Head(inbox[a])]
      /\ inbox' = [inbox EXCEPT ![a] = Tail(@)]
  BY <1>0 DEF Consume, At, Op, books
<1>3. /\ a \in Actors /\ a \in Nodes /\ 1 \in 1 .. Len(stack[t]) /\ stack[t][1] = Op(t)
  BY <1>0, <1>1, <1>2, TopOp DEF Nodes
<1>4. Enters(t, a)
  BY <1>0, <1>1, EntersRun
<1>5. t = Home(a)
  BY <1>0, <1>1, <1>2, <1>3 DEF ControlInv, RunOK
<1>6. ~Executing(a)
  <2> SUFFICES ASSUME NEW u \in Threads, Executes(u, a) PROVE FALSE
    BY DEF Executing
  <2>1. 1 \in 1 .. Len(stack[u]) /\ stack[u][1] = Op(u)
    BY <1>1, TopOp DEF Executes
  <2>2. PICK j \in 1 .. Len(stack[u]) : stack[u][j].k = "run" /\ stack[u][j].at = a
    BY <1>1, <1>3, <2>1 DEF ControlInv, ExecOK, Executes
  <2>3. u = Home(a)
    BY <1>1, <2>2 DEF ControlInv, RunOK
  <2>4. u = t
    BY <1>5, <2>3
  <2> QED BY <1>0, <1>2, <2>4 DEF Executes
<1>7. \A n : ~Executes(t, n)
  BY <1>2, NoExec
<1>8. OneHandler' /\ Executing(a)' /\ \A n : n # a => (Executing(n)' <=> Executing(n))
  BY <1>1, <1>4, <1>6, <1>7, EntersExecuting
<1>9. /\ inbox'[a] = Tail(inbox[a]) /\ current'[a] = Head(inbox[a])
      /\ \A b \in Actors : b # a => inbox'[b] = inbox[b]
      /\ \A n \in Nodes : n # a => current'[n] = current[n]
  BY <1>1, <1>2, <1>3 DEF DataTypes
<1>10. \A n \in Nodes : Waiting(n)' = Waiting(n)
  <2> TAKE n \in Nodes
  <2>1. CASE n # a
    <3>1. Queue(n)' = Queue(n)
      BY <1>9, <2>1 DEF Queue
    <3> QED BY <1>8, <1>9, <2>1, <3>1, WaitingSame
  <2>2. CASE n = a
    <3>1. IsSeq(inbox[a])
      BY <1>1, <1>3 DEF DataTypes
    <3>2. Waiting(a) = inbox[a]
      BY <1>1, <1>3, <1>6, WaitingIdle DEF Queue
    <3>3. Waiting(a)' = <<Head(inbox[a])>> \o Tail(inbox[a])
      BY <1>3, <1>8, <1>9 DEF Waiting, Queue
    <3>4. <<Head(inbox[a])>> \o Tail(inbox[a]) = inbox[a]
      <4> DEFINE S == ToSet(inbox[a])
      <4>1. inbox[a] \in Seq(S)
        BY <3>1 DEF IsSeq
      <4> HIDE DEF S
      <4> QED BY <1>2, <4>1, HeadTailProperties
    <3> QED BY <2>2, <3>2, <3>3, <3>4
  <2> QED BY <2>1, <2>2
<1>11. ASSUME NEW n \in Nodes
       PROVE  NodeOK(n)'
  <2>1. NodeOK(n)
    BY DEF SettleInv, NodeOK
  <2> QED BY <1>2, <1>10, <2>1, NodeSame
<1> QED BY <1>8, <1>11 DEF SettleInv, NodeOK

\* A step that only leaves an operation that is no handler.
LEMMA SettleStill ==
  ASSUME DataTypes, SettleInv, NEW t \in Threads, Leaves(t), \A n : ~Executes(t, n),
         UNCHANGED <<inbox, current, contacts, asked, unlinked>>
  PROVE  SettleInv'
<1>1. OneHandler' /\ \A n \in Nodes : Waiting(n)' = Waiting(n)
  BY SettleLeave
<1>2. ASSUME NEW n \in Nodes
      PROVE  NodeOK(n)'
  <2>1. NodeOK(n)
    BY DEF SettleInv, NodeOK
  <2> QED BY <1>1, <2>1, NodeSame
<1> QED BY <1>1, <1>2 DEF SettleInv, NodeOK

LEMMA SettleSame ==
  ASSUME SettleInv, UNCHANGED <<stack, inbox, current, contacts, asked, unlinked>>
  PROVE  SettleInv'
BY DEF SettleInv, OneHandler, Settled, Noted, Waiting, Queue, Executing, Executes, Op, Book

LEMMA SettleStep ==
  ASSUME FormInv, SettleInv, OneCaller, HandlersOnlyCall, DataTypes', NEW t \in Threads, Step(t)
  PROVE  SettleInv'
<1>1. ControlInv /\ DataTypes /\ BooksOK /\ RobinInv
  BY DEF FormInv
<1>2. stack[t] # <<>>
  BY <1>1, StepCases
<1>3. CASE HaltStep
  BY <1>3, SettleSame DEF HaltStep, books, past
<1>4. CASE CallStep(t)
  BY <1>2, <1>4, SettleCalls
<1>5. CASE PostStep(t)
  BY <1>2, <1>5, SettlePost
<1>6. CASE SendToSupervisor(t)
  BY <1>6, SettleSend
<1>7. CASE FileStep(t) \/ RemoveStep(t)
  BY <1>2, <1>7, SettleFile
<1>8. CASE KnowStep(t)
  BY <1>2, <1>8, SettleKnow
<1>9. CASE Consume(t)
  BY <1>2, <1>9, SettleConsume
<1>10. CASE Rest(t) \/ LookStep(t) \/ ScheduleStep(t)
  <2>1. Leaves(t)
    BY <1>1, <1>2, <1>10, LeavesRest, LeavesLook, LeavesSchedule DEF ScheduleStep
  <2>2. Op(t).k # "exec" /\ UNCHANGED <<inbox, current, contacts, asked, unlinked>>
    BY <1>10 DEF Rest, LookStep, ScheduleStep, At, Op, books, past
  <2> QED BY <1>1, <2>1, <2>2, NoExec, SettleStill
<1>11. CASE SpawnStep(t)
  <2>1. Leaves(t)
    BY <1>1, <1>2, <1>11, LeavesSpawn
  <2>2. Op(t).k # "exec" /\ UNCHANGED <<inbox, current, contacts, asked, unlinked>>
    BY <1>11 DEF SpawnStep
  <2> QED BY <1>1, <2>1, <2>2, NoExec, SettleStill
<1> QED BY <1>1, <1>3, <1>4, <1>5, <1>6, <1>7, <1>8, <1>9, <1>10, <1>11, StepCases

LEMMA SettleNext ==
  ASSUME FormInv, SettleInv, OneCaller, HandlersOnlyCall, [Next]_vars
  PROVE  SettleInv'
<1>1. DataTypes' /\ ControlInv /\ DataTypes
  BY FormNext DEF FormInv
<1>2. CASE UNCHANGED vars
  BY <1>2, SettleSame DEF vars, books, past
<1>3. CASE Call
  <2>1. Main \in Threads /\ Leaves(Main) /\ \A n : ~Executes(Main, n)
    BY <1>1, <1>3, LeavesCall DEF Threads
  <2>2. UNCHANGED <<inbox, current, contacts, asked, unlinked>>
    BY <1>3 DEF Call, books, past
  <2> QED BY <1>1, <2>1, <2>2, SettleStill
<1>4. CASE \E t \in Threads : Step(t)
  BY <1>1, <1>4, SettleStep
<1> QED BY <1>2, <1>3, <1>4 DEF Next

LEMMA SettleInit ==
  ASSUME Init, FormInv
  PROVE  SettleInv
<1>1. /\ stack = [t \in Threads |-> <<>>] /\ contacts = [n \in Nodes |-> <<>>]
      /\ inbox = [a \in Actors |-> <<>>]
      /\ asked = [n \in Nodes |-> [type \in Types |-> <<>>]]
  BY DEF Init
<1>2. \A t \in Threads : \A n : ~Executes(t, n)
  BY <1>1 DEF Executes
<1>3. \A n : ~Executing(n)
  BY <1>2 DEF Executing
<1>4. ASSUME NEW n \in Nodes
      PROVE  Settled(n) /\ Noted(n)
  <2>1. Queue(n) = <<>>
    BY <1>1 DEF Queue
  <2>2. Waiting(n) = <<>>
    BY <1>3, <2>1, WaitingIdle DEF FormInv
  <2>3. contacts[n] = <<>> /\ \A T \in Types : asked[n][T] = <<>>
    BY <1>1
  <2>4. \A T \in Types : Book(n, T) = <<>>
    <3>1. DOMAIN <<>> = {}
      BY SeqEmpty, SeqLen
    <3> QED BY <2>3, <3>1 DEF Book
  <2>5. Settled(n)
    BY <2>2, <2>3, <2>4, SettlingEmpty DEF Settled
  <2>6. Noted(n)
    BY <2>2, SeqEmpty DEF Noted
  <2> QED BY <2>5, <2>6
<1> QED BY <1>2, <1>4 DEF SettleInv, OneHandler

LEMMA SettleQuiet ==
  ASSUME FormInv, SettleInv
  PROVE  LinksSettle
<1>1. DataTypes /\ BooksOK
  BY DEF FormInv
<1> SUFFICES ASSUME Quiet, NEW n \in created, NEW T \in Types, <<n, T>> \notin unlinked
             PROVE  \/ Book(n, T) = asked[n][T]
                    \/ /\ n \in Actors /\ asked[n][T] # <<>>
                       /\ Book(n, T) = <<Head(asked[n][T])>>
  BY DEF LinksSettle
<1>2. n \in Nodes
  BY <1>1 DEF DataTypes
<1>3. ~Executing(n)
  BY DEF Quiet, Returned, Executing, Executes
<1>4. Waiting(n) = <<>>
  BY <1>1, <1>3, WaitingIdle DEF Quiet, Queue
<1>5. Settling(n, T, <<>>, Book(n, T), asked[n][T]) /\ IsSeq(asked[n][T])
  BY <1>1, <1>2, <1>4 DEF SettleInv, Settled, DataTypes
<1>6. IsSeq(Book(n, T))
  BY <1>1, <1>2, SeqEmpty DEF BooksOK, Book
<1> QED BY <1>5, <1>6, SettlingDone

\* Whatever a program calls, as long as no thread calls a supervisor under
\* another one's message: once everything sent has been handled, every
\* object knows whom link, sync and add_link asked it to know, in that order, an
\* actor the first of each type (add_link_impl of supervisor_abstract and of actor_abstract).
THEOREM LinksSettleAlone ==
  ASSUME HandlersOnlyCall
  PROVE  Spec /\ []OneCaller => []LinksSettle
<1>1. Init => FormInv
  BY FormInit
<1>2. FormInv /\ [Next]_vars => FormInv'
  BY FormNext
<1>3. Init /\ FormInv => SettleInv
  BY SettleInit
<1>4. FormInv /\ SettleInv /\ OneCaller /\ [Next]_vars => SettleInv'
  BY SettleNext
<1>5. FormInv /\ SettleInv => LinksSettle
  BY SettleQuiet
<1> QED BY <1>1, <1>2, <1>3, <1>4, <1>5, PTL DEF Spec

-----------------------------------------------------------------------------
(* Programs that keep their threads apart                                   *)

\* The executor runs the actors inside execute(), on the thread of main(), or
\* their handlers only send to actors.
KeepsApart(p) ==
  \/ Inline[p]
  \/ \A a \in Actors : \A msg : msg.cmd \in DOMAIN Signature[a] =>
       \A i \in 1 .. Len(App(a, msg)) : App(a, msg)[i].k = "send" /\ App(a, msg)[i].to \in Actors

\* What a worker has on its stack.
ActorOp(op) ==
  /\ op.k \in {"send", "wake", "exec", "run"}
  /\ op.k = "send" => op.to \in Actors
  /\ op.k = "exec" => op.at \in Actors

Apart ==
  KeepsApart(program) =>
    \A a \in Actors : \A i \in 1 .. Len(stack[a]) : ActorOp(stack[a][i])

LEMMA ApartOneCaller ==
  ASSUME ControlInv, Apart, KeepsApart(program)
  PROVE  OneCaller
<1> SUFFICES ASSUME NEW t \in Threads, NEW u \in Threads, NEW s \in Supervisors, t # u,
                    Inside(t, s), Entering(u, s)
             PROVE  FALSE
  BY DEF OneCaller
<1>1. s \notin Actors
  BY NodesAssumption
<1>2. t \notin Actors
  <2> SUFFICES ASSUME t \in Actors PROVE FALSE
    OBVIOUS
  <2>1. PICK i \in 1 .. Len(stack[t]) : stack[t][i].k \in {"exec", "sync"} /\ stack[t][i].at = s
    BY DEF Inside
  <2>2. ActorOp(stack[t][i])
    BY DEF Apart
  <2> QED BY <1>1, <2>1, <2>2 DEF ActorOp
<1>3. u \notin Actors
  <2> SUFFICES ASSUME u \in Actors PROVE FALSE
    OBVIOUS
  <2>1. 1 \in 1 .. Len(stack[u]) /\ stack[u][1] = Op(u)
    BY TopOp DEF Entering
  <2>2. ActorOp(Op(u))
    BY <2>1 DEF Apart
  <2> QED BY <1>1, <2>2 DEF ActorOp, Entering
<1> QED BY <1>2, <1>3 DEF Threads

LEMMA ApartBecomes ==
  ASSUME ControlInv, Apart, NEW t \in Threads, stack[t] # <<>>, UNCHANGED program,
         NEW ops, IsSeq(ops), Becomes(t, ops),
         KeepsApart(program) /\ t \in Actors => \A i \in 1 .. Len(ops) : ActorOp(ops[i])
  PROVE  Apart'
<1> SUFFICES ASSUME KeepsApart(program), NEW a \in Actors, NEW j \in 1 .. Len(stack'[a])
             PROVE  ActorOp(stack'[a][j])
  BY DEF Apart, KeepsApart
<1>1. a \in Threads /\ StackTypes
  BY DEF Threads, ControlInv
<1>2. CASE a # t
  BY <1>1, <1>2 DEF Becomes, Apart
<1>3. CASE a = t
  <2>1. Replaces(t, ops)
    BY DEF Becomes
  <2>2. /\ Len(ops) \in Nat /\ Len(stack[t]) \in Nat \ {0}
        /\ \/ j \in 1 .. Len(ops) /\ stack'[t][j] = ops[j]
           \/ /\ j - Len(ops) + 1 \in 2 .. Len(stack[t])
              /\ stack'[t][j] = stack[t][j - Len(ops) + 1]
    <3>1. IsSeq(stack[t])
      BY <1>1 DEF StackTypes
    <3>2. Len(stack[t]) \in Nat \ {0}
      BY <3>1, SeqTail
    <3> QED BY <1>1, <1>3, <2>1, <3>2, Pushed
  <2>3. CASE j \in 1 .. Len(ops) /\ stack'[t][j] = ops[j]
    BY <1>3, <2>3
  <2>4. CASE /\ j - Len(ops) + 1 \in 2 .. Len(stack[t])
             /\ stack'[t][j] = stack[t][j - Len(ops) + 1]
    <3>1. j - Len(ops) + 1 \in 1 .. Len(stack[t])
      BY <2>2, <2>4
    <3> QED BY <1>3, <2>4, <3>1 DEF Apart
  <2> QED BY <2>2, <2>3, <2>4
<1> QED BY <1>2, <1>3

LEMMA ApartSchedule ==
  ASSUME ControlInv, Apart, NEW t \in Threads, stack[t] # <<>>, UNCHANGED program,
         NEW a \in Actors, DeliverStack(t, a)
  PROVE  Apart'
<1>1. CASE a \in running /\ Becomes(t, <<>>)
  BY <1>1, SeqEmpty, ApartBecomes
<1> DEFINE ops == <<Run(a)>>
<1>2. IsSeq(ops) /\ \A i \in 1 .. Len(ops) : ActorOp(ops[i])
  <2>1. IsSeq(ops) /\ Len(ops) = 1 /\ ops[1] = Run(a)
    BY SeqOne
  <2>2. ActorOp(Run(a))
    BY DEF ActorOp, Run
  <2> HIDE DEF ops
  <2> QED BY <2>1, <2>2
<1>3. CASE a \notin running /\ Inline[program] /\ Becomes(t, ops)
  <2> HIDE DEF ops
  <2> QED BY <1>2, <1>3, ApartBecomes
<1>4. CASE /\ a # t /\ stack[a] = <<>>
           /\ stack'[t] = Tail(stack[t]) /\ stack'[a] = ops
           /\ \A u \in Threads : u \notin {t, a} => stack'[u] = stack[u]
  <2> SUFFICES ASSUME KeepsApart(program), NEW b \in Actors, NEW j \in 1 .. Len(stack'[b])
               PROVE  ActorOp(stack'[b][j])
    BY DEF Apart, KeepsApart
  <2>1. b \in Threads
    BY DEF Threads
  <2> HIDE DEF ops
  <2>2. CASE b \notin {t, a}
    BY <1>4, <2>1, <2>2 DEF Apart
  <2>3. CASE b = a
    BY <1>2, <1>4, <2>3
  <2>4. CASE b = t
    <3>1. /\ Len(stack[t]) \in Nat \ {0} /\ Len(Tail(stack[t])) = Len(stack[t]) - 1
          /\ \A i \in 1 .. Len(stack[t]) - 1 : Tail(stack[t])[i] = stack[t][i + 1]
      BY SeqTail DEF ControlInv, StackTypes
    <3>2. j \in 1 .. Len(stack[t]) - 1
      BY <1>4, <2>4, <3>1
    <3>3. j + 1 \in 1 .. Len(stack[t]) /\ stack'[t][j] = stack[t][j + 1]
      BY <1>4, <3>1, <3>2
    <3> QED BY <2>4, <3>3 DEF Apart
  <2> QED BY <2>2, <2>3, <2>4
<1> QED BY <1>1, <1>3, <1>4 DEF DeliverStack

\* What a worker of such a program can do.
LEMMA ActorSteps ==
  ASSUME ControlInv, BooksOK, NEW t \in Threads, Step(t), stack[t] # <<>>, ActorOp(Op(t))
  PROVE  \/ SendToActor(t) \/ Schedule(t) \/ NoHandler(t) \/ BadCast(t) \/ AddLink(t)
         \/ RemoveLinkActor(t) \/ AppHandler(t) \/ Consume(t) \/ LastLook(t) \/ Rest(t)
<1>1. ASSUME NEW k, At(t, k)
      PROVE  Op(t).k = k
  BY <1>1 DEF At, Op
<1>2. /\ Op(t).k \in {"send", "wake", "exec", "run"}
      /\ Op(t).k = "send" => Op(t).to \notin Supervisors /\ Op(t).to # NoAddress
      /\ Op(t).k = "exec" => Op(t).at \notin Supervisors
  BY NodesAssumption DEF ActorOp, Nodes
<1>3. ~(SendNowhere(t) \/ SendToSupervisor(t) \/ RedirectRobin(t) \/ Advance(t) \/ DropMessage(t))
  BY <1>1, <1>2 DEF SendNowhere, SendToSupervisor, RedirectRobin, Advance, DropMessage
<1>4. ~(RemoveLinkSupervisor(t) \/ Redirect(t))
  BY <1>1, <1>2 DEF RemoveLinkSupervisor, Redirect, Handling
<1>5. ~(TellKnown(t) \/ TellUnknown(t) \/ DoIntroduce(t) \/ DoBroadcast(t) \/ DoBroadcastTo(t))
  BY <1>1, <1>2 DEF TellKnown, TellUnknown, DoIntroduce, DoBroadcast, DoBroadcastTo
<1>6. ~(DoSpawn(t) \/ Know(t) \/ Sync(t))
  BY <1>1, <1>2 DEF DoSpawn, Know, Sync
<1> QED BY <1>3, <1>4, <1>5, <1>6 DEF Step

LEMMA ApartHandler ==
  ASSUME ControlInv, HandlersOnlyCall, NEW t \in Actors, ~Inline[program], KeepsApart(program),
         AppHandler(t), ActorOp(Op(t))
  PROVE  \E ops : /\ IsSeq(ops) /\ Becomes(t, ops)
                  /\ \A i \in 1 .. Len(ops) : ActorOp(ops[i])
<1>1. PICK n : n = Op(t).at
  OBVIOUS
<1>2. PICK msg : msg = current[n]
  OBVIOUS
<1>3. PICK ops : ops = App(n, msg)
  OBVIOUS
<1>4. /\ Op(t).k = "exec" /\ msg.cmd \in DOMAIN Handlers(n) /\ Goto(t, App(n, msg))
      /\ msg.cmd \notin {"add_link", "remove_link", "delegate"}
  BY <1>1, <1>2 DEF AppHandler, At, Op
<1>5. n \in Actors /\ n \in Nodes /\ t \in Threads /\ DOMAIN stack = Threads
  BY <1>1, <1>4 DEF ActorOp, Nodes, Threads, ControlInv, StackTypes
<1>6. msg.cmd \in DOMAIN Signature[n]
  BY <1>4, BaseHandlers
<1>7. Becomes(t, ops)
  BY <1>3, <1>4, <1>5, ThenBecomes DEF Goto
<1>8. IsSeq(ops)
  BY <1>3, <1>5, <1>6 DEF HandlersOnlyCall, OnlyCalls, IsSeq
<1>9. \A i \in 1 .. Len(ops) : ops[i].k = "send" /\ ops[i].to \in Actors
  BY <1>3, <1>5, <1>6 DEF KeepsApart
<1> QED BY <1>7, <1>8, <1>9 DEF ActorOp

\* A worker's step.
LEMMA ApartActor ==
  ASSUME FormInv, Apart, HandlersOnlyCall, NEW t \in Actors, Step(t), KeepsApart(program)
  PROVE  Apart'
<1>1. ControlInv /\ BooksOK /\ RobinInv /\ t \in Threads
  BY DEF FormInv, Threads
<1>2. stack[t] # <<>>
  BY <1>1, StepCases
<1>3. ~Inline[program]
  BY <1>1, <1>2 DEF ControlInv, BottomOK
<1>4. 1 \in 1 .. Len(stack[t]) /\ stack[t][1] = Op(t)
  BY <1>1, <1>2, TopOp
<1>5. ActorOp(Op(t))
  BY <1>4 DEF Apart
<1>6. DOMAIN stack = Threads
  BY <1>1 DEF ControlInv, StackTypes
<1>7. CASE SendToActor(t)
  <2> DEFINE ops == <<Wake(Op(t).to)>>
  <2>1. Becomes(t, ops) /\ UNCHANGED program
    BY <1>1, <1>6, <1>7, ThenBecomes DEF SendToActor
  <2>2. IsSeq(ops) /\ Len(ops) = 1 /\ ops[1] = Wake(Op(t).to)
    BY SeqOne
  <2>3. ActorOp(Wake(Op(t).to))
    BY DEF ActorOp, Wake
  <2> HIDE DEF ops
  <2>4. \A i \in 1 .. Len(ops) : ActorOp(ops[i])
    BY <2>2, <2>3
  <2> QED BY <1>1, <1>2, <2>1, <2>2, <2>4, ApartBecomes
<1>11. CASE Schedule(t)
  <2>1. Op(t).at \in Actors /\ DeliverStack(t, Op(t).at) /\ UNCHANGED program
    BY <1>1, <1>11, ScheduleIsStep DEF ScheduleStep
  <2> QED BY <1>1, <1>2, <2>1, ApartSchedule
<1>12. CASE LastLook(t)
  <2> DEFINE ops == <<RunOver(Op(t).at)>>
  <2>1. Becomes(t, ops) /\ UNCHANGED program
    BY <1>1, <1>6, <1>12, LookIsStep DEF LookStep
  <2>2. IsSeq(ops) /\ Len(ops) = 1 /\ ops[1] = RunOver(Op(t).at)
    BY SeqOne
  <2>3. ActorOp(RunOver(Op(t).at))
    BY DEF ActorOp, RunOver
  <2> HIDE DEF ops
  <2>4. \A i \in 1 .. Len(ops) : ActorOp(ops[i])
    BY <2>2, <2>3
  <2> QED BY <1>1, <1>2, <2>1, <2>2, <2>4, ApartBecomes
<1>8. CASE NoHandler(t) \/ BadCast(t) \/ AddLink(t) \/ RemoveLinkActor(t) \/ Rest(t)
  <2>1. UNCHANGED program /\ (UNCHANGED stack \/ Then(t, <<>>))
    BY <1>8 DEF NoHandler, BadCast, AddLink, RemoveLinkActor, Rest, Meet, Halt, Goto
  <2>2. CASE Then(t, <<>>)
    BY <1>1, <1>2, <1>6, <2>1, <2>2, ThenBecomes, SeqEmpty, ApartBecomes
  <2>3. CASE UNCHANGED stack
    BY <2>1, <2>3 DEF Apart, KeepsApart
  <2> QED BY <2>1, <2>2, <2>3
<1>9. CASE AppHandler(t)
  <2>1. PICK ops : /\ IsSeq(ops) /\ Becomes(t, ops)
                   /\ \A i \in 1 .. Len(ops) : ActorOp(ops[i])
    BY <1>1, <1>3, <1>5, <1>9, ApartHandler
  <2>2. UNCHANGED program
    BY <1>9 DEF AppHandler, Goto
  <2> QED BY <1>1, <1>2, <2>1, <2>2, ApartBecomes
<1>10. CASE Consume(t)
  <2> DEFINE ops == <<Exec(Op(t).at)>>
  <2>1. /\ stack'[t] = ops \o stack[t] /\ IsSeq(stack[t]) /\ Op(t).k = "run"
        /\ \A u \in Threads : u # t => stack'[u] = stack[u]
    BY <1>1, <1>2, <1>10, StackEffects DEF ControlInv, StackTypes
  <2>2. UNCHANGED program
    BY <1>10 DEF Consume
  <2>3. IsSeq(ops) /\ Len(ops) = 1 /\ ops[1] = Exec(Op(t).at)
    BY SeqOne
  <2>4. ActorOp(Exec(Op(t).at))
    BY <1>1, <1>2, <2>1, TopOp DEF ActorOp, Exec
  <2> HIDE DEF ops
  <2>5. /\ Len(stack[t]) \in Nat /\ Len(stack'[t]) = Len(ops) + Len(stack[t])
        /\ \A i \in 1 .. Len(ops) : stack'[t][i] = ops[i]
        /\ \A i \in 1 .. Len(stack[t]) : stack'[t][Len(ops) + i] = stack[t][i]
    <3>1. IsSeq(ops) /\ IsSeq(stack[t])
      BY <2>1, <2>3
    <3>2. stack'[t] = ops \o stack[t]
      BY <2>1
    <3>3. Len(stack[t]) \in Nat
      BY <3>1, SeqLen
    <3> QED BY <3>1, <3>2, <3>3, SeqConcat
  <2> SUFFICES ASSUME NEW b \in Actors, NEW j \in 1 .. Len(stack'[b])
               PROVE  ActorOp(stack'[b][j])
    BY <2>2 DEF Apart, KeepsApart
  <2>6. CASE b # t
    BY <2>1, <2>6 DEF Apart, Threads
  <2>7. CASE b = t /\ j = 1
    BY <2>3, <2>4, <2>5, <2>7
  <2>8. CASE b = t /\ j # 1
    <3>1. j - 1 \in 1 .. Len(stack[t]) /\ Len(ops) + (j - 1) = j
      BY <2>3, <2>5, <2>8
    <3>2. stack'[t][j] = stack[t][j - 1]
      BY <2>5, <3>1
    <3> QED BY <2>8, <3>1, <3>2 DEF Apart
  <2> QED BY <2>6, <2>7, <2>8
<1> QED BY <1>1, <1>2, <1>5, <1>7, <1>8, <1>9, <1>10, <1>11, <1>12, ActorSteps

\* A step of main().
LEMMA ApartMain ==
  ASSUME FormInv, Apart, HandlersOnlyCall, Step(Main), KeepsApart(program)
  PROVE  Apart'
<1>1. ControlInv /\ BooksOK /\ RobinInv /\ Main \in Threads /\ Main \notin Actors
  BY NodesAssumption DEF FormInv, Threads, Nodes
<1>2. stack[Main] # <<>>
  BY <1>1, StepCases
<1>3. ASSUME \A u \in Threads : u # Main => stack'[u] = stack[u], UNCHANGED program
      PROVE  Apart'
  <2>1. \A a \in Actors : stack'[a] = stack[a]
    BY <1>1, <1>3 DEF Threads
  <2> QED BY <1>3, <2>1 DEF Apart, KeepsApart
<1>4. CASE HaltStep
  BY <1>3, <1>4 DEF HaltStep
<1>5. CASE CallStep(Main) \/ SpawnStep(Main)
  BY <1>3, <1>5 DEF CallStep, SpawnStep, Becomes
<1>6. CASE ScheduleStep(Main)
  BY <1>1, <1>2, <1>6, ApartSchedule DEF ScheduleStep
<1>10. CASE PostStep(Main) \/ LookStep(Main)
  BY <1>3, <1>10 DEF PostStep, LookStep, Becomes
<1>7. CASE SendToSupervisor(Main)
  BY <1>1, <1>3, <1>7, SupervisorEffect DEF Becomes
<1>8. CASE FileStep(Main) \/ RemoveStep(Main) \/ KnowStep(Main)
  BY <1>3, <1>8 DEF FileStep, RemoveStep, KnowStep, Becomes
<1>9. CASE Consume(Main) \/ Rest(Main)
  <2>1. UNCHANGED program
    BY <1>9 DEF Consume, Rest
  <2> QED BY <1>1, <1>2, <1>3, <1>9, <2>1, StackEffects
<1> QED BY <1>1, <1>4, <1>5, <1>6, <1>7, <1>8, <1>9, <1>10, StepCases

LEMMA ProgramSame ==
  ASSUME [Next]_vars, FormInv, HandlersOnlyCall
  PROVE  UNCHANGED program
<1>1. CASE UNCHANGED vars \/ Call
  BY <1>1 DEF vars, Call
<1>2. ASSUME NEW t \in Threads, Step(t)
      PROVE  UNCHANGED program
  <2>1. ControlInv /\ BooksOK /\ RobinInv
    BY DEF FormInv
  <2>2. CASE \/ HaltStep \/ CallStep(t) \/ SpawnStep(t) \/ PostStep(t) \/ ScheduleStep(t)
             \/ SendToSupervisor(t)
    BY <2>2 DEF HaltStep, CallStep, SpawnStep, PostStep, ScheduleStep, SendToSupervisor
  <2>3. CASE FileStep(t) \/ KnowStep(t) \/ RemoveStep(t) \/ Consume(t) \/ LookStep(t) \/ Rest(t)
    BY <2>3 DEF FileStep, KnowStep, RemoveStep, Consume, LookStep, Rest
  <2> QED BY <1>2, <2>1, <2>2, <2>3, StepCases
<1> QED BY <1>1, <1>2 DEF Next

LEMMA ApartNext ==
  ASSUME FormInv, Apart, HandlersOnlyCall, [Next]_vars
  PROVE  Apart'
<1>1. UNCHANGED program
  BY ProgramSame
<1>2. CASE ~KeepsApart(program)
  BY <1>1, <1>2 DEF Apart, KeepsApart
<1>3. CASE UNCHANGED vars
  BY <1>3 DEF vars, Apart, KeepsApart
<1>4. CASE Call
  <2>1. DOMAIN stack = Threads /\ Main \notin Actors
    BY NodesAssumption DEF FormInv, ControlInv, StackTypes, Nodes
  <2>2. \A a \in Actors : stack'[a] = stack[a]
    BY <1>4, <2>1 DEF Call, Threads
  <2> QED BY <1>1, <2>2 DEF Apart, KeepsApart
<1>5. ASSUME NEW t \in Threads, Step(t), KeepsApart(program)
      PROVE  Apart'
  BY <1>5, ApartActor, ApartMain DEF Threads
<1> QED BY <1>2, <1>3, <1>4, <1>5 DEF Next

LEMMA ApartInit ==
  ASSUME Init
  PROVE  Apart
<1>1. \A a \in Actors : stack[a] = <<>>
  BY DEF Init, Threads
<1> QED BY <1>1, SeqEmpty DEF Apart

\* No thread calls a supervisor under another's message when the actors run inside
\* execute() on main()'s thread (dummy_executor), whatever their handlers call,
\* or when the actors' handlers only send to actors: although an actor that main()
\* or a supervisor sends to goes on by itself, it never comes back to one.
THEOREM ApartOnlyOneCaller ==
  ASSUME HandlersOnlyCall
  PROVE  Spec => [](KeepsApart(program) => OneCaller)
<1>1. Init => FormInv /\ Apart
  BY FormInit, ApartInit
<1>2. FormInv /\ Apart /\ [Next]_vars => FormInv' /\ Apart'
  BY FormNext, ApartNext
<1>3. FormInv /\ Apart => (KeepsApart(program) => OneCaller)
  BY ApartOneCaller DEF FormInv
<1> QED BY <1>1, <1>2, <1>3, PTL DEF Spec

\* Links settle, without more ado, in every program whose actors run inside
\* execute() on main()'s thread (dummy_executor) or whose actors' handlers only
\* send to actors: no worker is ever inside a supervisor then.
THEOREM LinksSettleApart ==
  ASSUME HandlersOnlyCall
  PROVE  Spec => [](KeepsApart(program) => LinksSettle)
<1> DEFINE Inv == FormInv /\ Apart /\ (KeepsApart(program) => SettleInv)
<1>1. Init => Inv
  BY FormInit, ApartInit, SettleInit
<1>2. Inv /\ [Next]_vars => Inv'
  <2> SUFFICES ASSUME Inv, [Next]_vars PROVE Inv'
    OBVIOUS
  <2>1. FormInv' /\ Apart' /\ UNCHANGED program
    BY FormNext, ApartNext, ProgramSame
  <2>2. ASSUME KeepsApart(program)
        PROVE  SettleInv'
    BY <2>2, ApartOneCaller, SettleNext DEF FormInv
  <2>3. KeepsApart(program)' => KeepsApart(program)
    BY <2>1 DEF KeepsApart
  <2> QED BY <2>1, <2>2, <2>3
<1>3. Inv => (KeepsApart(program) => LinksSettle)
  BY SettleQuiet
<1> QED BY <1>1, <1>2, <1>3, PTL DEF Spec

=============================================================================
