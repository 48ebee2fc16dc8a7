---------------------------- MODULE ControlProofs ----------------------------
(***************************************************************************)
(* Who runs what: the call stacks of Supervision, for every set of         *)
(* supervisors and actors, every program (its script, its handlers) and    *)
(* every executor.  Every step is one of twelve kinds (StepCases), and    *)
(* every state is well formed (FormInv).                                   *)
(***************************************************************************)
EXTENDS SupervisionProofs

-----------------------------------------------------------------------------
(* Sequences of anything                                                    *)

IsSeq(s) == s \in Seq(ToSet(s))

LEMMA IsSeqIntro ==
  ASSUME NEW S, NEW s \in Seq(S)
  PROVE  IsSeq(s)
<1>1. DOMAIN s = 1 .. Len(s) /\ Len(s) \in Nat /\ s = [i \in 1 .. Len(s) |-> s[i]]
  OBVIOUS
<1>2. \A i \in 1 .. Len(s) : s[i] \in ToSet(s)
  BY <1>1 DEF ToSet
<1>3. s \in [1 .. Len(s) -> ToSet(s)]
  BY <1>1, <1>2
<1> QED BY <1>1, <1>3 DEF IsSeq

LEMMA SeqLen ==
  ASSUME NEW s, IsSeq(s)
  PROVE  Len(s) \in Nat /\ DOMAIN s = 1 .. Len(s) /\ (s = <<>> <=> Len(s) = 0)
BY DEF IsSeq

LEMMA SeqEmpty == IsSeq(<<>>) /\ Len(<<>>) = 0
<1>1. <<>> \in Seq({})
  OBVIOUS
<1> QED BY <1>1, IsSeqIntro

LEMMA SeqOne ==
  ASSUME NEW x
  PROVE  IsSeq(<<x>>) /\ Len(<<x>>) = 1 /\ <<x>>[1] = x
<1>1. <<x>> \in Seq({x})
  OBVIOUS
<1> QED BY <1>1, IsSeqIntro

LEMMA SeqTwo ==
  ASSUME NEW x, NEW y
  PROVE  IsSeq(<<x, y>>) /\ Len(<<x, y>>) = 2 /\ <<x, y>>[1] = x /\ <<x, y>>[2] = y
<1>1. <<x, y>> \in Seq({x, y})
  OBVIOUS
<1> QED BY <1>1, IsSeqIntro

LEMMA SeqThree ==
  ASSUME NEW x, NEW y, NEW z
  PROVE  /\ IsSeq(<<x, y, z>>) /\ Len(<<x, y, z>>) = 3
         /\ <<x, y, z>>[1] = x /\ <<x, y, z>>[2] = y /\ <<x, y, z>>[3] = z
<1>1. <<x, y, z>> \in Seq({x, y, z})
  OBVIOUS
<1> QED BY <1>1, IsSeqIntro

LEMMA SeqAppend ==
  ASSUME NEW s, IsSeq(s), NEW x
  PROVE  /\ IsSeq(Append(s, x)) /\ Len(Append(s, x)) = Len(s) + 1
         /\ Append(s, x)[Len(s) + 1] = x
         /\ \A i \in 1 .. Len(s) : Append(s, x)[i] = s[i]
<1>1. s \in Seq(ToSet(s) \cup {x}) /\ x \in ToSet(s) \cup {x}
  BY DEF IsSeq
<1> DEFINE S == ToSet(s) \cup {x}
<1> HIDE DEF S
<1>2. s \in Seq(S) /\ x \in S
  BY <1>1 DEF S
<1>3. Append(s, x) \in Seq(S) /\ Len(Append(s, x)) = Len(s) + 1
  BY <1>2
<1>4. Append(s, x)[Len(s) + 1] = x /\ \A i \in 1 .. Len(s) : Append(s, x)[i] = s[i]
  BY <1>2
<1> QED BY <1>3, <1>4, IsSeqIntro

LEMMA SeqTail ==
  ASSUME NEW s, IsSeq(s), s # <<>>
  PROVE  /\ IsSeq(Tail(s)) /\ Len(s) \in Nat \ {0} /\ Len(Tail(s)) = Len(s) - 1
         /\ \A i \in 1 .. Len(s) - 1 : Tail(s)[i] = s[i + 1]
         /\ Head(s) = s[1]
<1> DEFINE S == ToSet(s)
<1>1. s \in Seq(S)
  BY DEF IsSeq
<1> HIDE DEF S
<1>2. Tail(s) \in Seq(S) /\ Len(s) \in Nat \ {0} /\ Len(Tail(s)) = Len(s) - 1
  BY <1>1
<1>3. Head(s) = s[1] /\ \A i \in 1 .. Len(s) - 1 : Tail(s)[i] = s[i + 1]
  BY <1>1
<1> QED BY <1>2, <1>3, IsSeqIntro

LEMMA SeqConcat ==
  ASSUME NEW r, IsSeq(r), NEW s, IsSeq(s)
  PROVE  /\ IsSeq(r \o s) /\ Len(r \o s) = Len(r) + Len(s)
         /\ \A i \in 1 .. Len(r) : (r \o s)[i] = r[i]
         /\ \A i \in 1 .. Len(s) : (r \o s)[Len(r) + i] = s[i]
<1> DEFINE S == ToSet(r) \cup ToSet(s)
<1>1. r \in Seq(S) /\ s \in Seq(S)
  BY DEF IsSeq
<1>2. r \o s \in Seq(S) /\ Len(r \o s) = Len(r) + Len(s)
  BY <1>1
<1>3. \A i \in 1 .. Len(r) : (r \o s)[i] = r[i]
  BY <1>1
<1>4. \A i \in 1 .. Len(s) : (r \o s)[Len(r) + i] = s[i]
  BY <1>1
<1> QED BY <1>2, <1>3, <1>4, IsSeqIntro

LEMMA SameSeq ==
  ASSUME NEW r, IsSeq(r), NEW s, IsSeq(s), Len(r) = Len(s),
         \A i \in 1 .. Len(r) : r[i] = s[i]
  PROVE  r = s
<1> DEFINE S == ToSet(r) \cup ToSet(s)
<1>1. r \in Seq(S) /\ s \in Seq(S)
  BY DEF IsSeq
<1> HIDE DEF S
<1> QED BY <1>1, SeqEqual

\* The operations that replace the first one of a stack.
LEMMA SeqPush ==
  ASSUME NEW ops, IsSeq(ops), NEW s, IsSeq(s), s # <<>>
  PROVE  /\ IsSeq(ops \o Tail(s)) /\ Len(ops \o Tail(s)) = Len(ops) + Len(s) - 1
         /\ Len(ops) \in Nat /\ Len(s) \in Nat \ {0}
         /\ \A i \in 1 .. Len(ops) : (ops \o Tail(s))[i] = ops[i]
         /\ \A i \in 2 .. Len(s) : (ops \o Tail(s))[Len(ops) + i - 1] = s[i]
         /\ \A j \in 1 .. Len(ops \o Tail(s)) :
              \/ j \in 1 .. Len(ops) /\ (ops \o Tail(s))[j] = ops[j]
              \/ /\ j - Len(ops) + 1 \in 2 .. Len(s)
                 /\ (ops \o Tail(s))[j] = s[j - Len(ops) + 1]
<1>1. /\ IsSeq(Tail(s)) /\ Len(s) \in Nat \ {0} /\ Len(Tail(s)) = Len(s) - 1
      /\ \A i \in 1 .. Len(s) - 1 : Tail(s)[i] = s[i + 1]
  BY SeqTail
<1> DEFINE tl == Tail(s)
           r == ops \o tl
<1> HIDE DEF r, tl
<1>a. /\ IsSeq(r) /\ Len(r) = Len(ops) + Len(tl)
      /\ \A i \in 1 .. Len(ops) : r[i] = ops[i]
      /\ \A i \in 1 .. Len(tl) : r[Len(ops) + i] = tl[i]
  <2>1. IsSeq(tl)
    BY <1>1 DEF tl
  <2> QED BY <2>1, SeqConcat DEF r
<1>2. /\ IsSeq(r) /\ Len(r) = Len(ops) + Len(Tail(s)) /\ Len(ops) \in Nat
      /\ \A i \in 1 .. Len(ops) : r[i] = ops[i]
      /\ \A i \in 1 .. Len(Tail(s)) : r[Len(ops) + i] = Tail(s)[i]
  BY <1>a, SeqLen DEF tl
<1>3. \A i \in 2 .. Len(s) : r[Len(ops) + i - 1] = s[i]
  <2> TAKE i \in 2 .. Len(s)
  <2>1. i - 1 \in 1 .. Len(s) - 1 /\ (i - 1) + 1 = i /\ Len(ops) + (i - 1) = Len(ops) + i - 1
    BY <1>1, <1>2
  <2> QED BY <1>1, <1>2, <2>1
<1>4. \A j \in 1 .. Len(r) : \/ j \in 1 .. Len(ops) /\ r[j] = ops[j]
                             \/ /\ j - Len(ops) + 1 \in 2 .. Len(s)
                                /\ r[j] = s[j - Len(ops) + 1]
  <2> TAKE j \in 1 .. Len(r)
  <2>1. j \in 1 .. Len(ops) \/ j - Len(ops) + 1 \in 2 .. Len(s)
    BY <1>1, <1>2
  <2>2. ASSUME j - Len(ops) + 1 \in 2 .. Len(s)
        PROVE  r[j] = s[j - Len(ops) + 1]
    <3>1. Len(ops) + (j - Len(ops) + 1) - 1 = j
      BY <1>2
    <3> QED BY <1>3, <2>2, <3>1
  <2> QED BY <1>2, <2>1, <2>2
<1>5. IsSeq(r) /\ Len(r) = Len(ops) + Len(s) - 1
  BY <1>1, <1>2
<1> QED BY <1>1, <1>2, <1>3, <1>4, <1>5 DEF r, tl

-----------------------------------------------------------------------------
(* Control: the call stacks                                                 *)

StackTypes ==
  /\ program \in Programs /\ running \subseteq Actors
  /\ DOMAIN stack = Threads /\ \A t \in Threads : IsSeq(stack[t])
  /\ IsSeq(script)
  /\ \A i \in 1 .. Len(script) : \A call \in script[i] : OnlyCalls(call)

\* The thread that runs a: the executor's, or main() itself.
Home(a) == IF Inline[program] THEN Main ELSE a

\* A handler is the innermost operation of its thread, and an actor's is called
\* by the actor's run.
ExecOK ==
  \A t \in Threads : \A i \in 1 .. Len(stack[t]) : stack[t][i].k = "exec" =>
    /\ i = 1 /\ stack[t][i].at \in Nodes
    /\ stack[t][i].at \in Actors =>
         \E j \in 1 .. Len(stack[t]) : stack[t][j].k = "run" /\ stack[t][j].at = stack[t][i].at

\* Only an actor that is busy runs, on its own thread ...
RunOK ==
  \A t \in Threads : \A i \in 1 .. Len(stack[t]) : stack[t][i].k = "run" =>
    stack[t][i].at \in running /\ t = Home(stack[t][i].at)

\* ... and once.
RunOnce ==
  \A t \in Threads : \A i, j \in 1 .. Len(stack[t]) :
    stack[t][i].k = "run" /\ stack[t][j].k = "run" /\ stack[t][i].at = stack[t][j].at => i = j

\* A worker does what it does inside run.
BottomOK ==
  \A a \in Actors : stack[a] # <<>> =>
    /\ ~Inline[program]
    /\ stack[a][Len(stack[a])].k = "run" /\ stack[a][Len(stack[a])].at = a

\* The operations that only supervisors have, and the one that only actors have;
\* what sync files is an object.
SupervisorKinds == {"spawn", "know", "sync", "cast", "each", "castto", "turn"}
Placed(op) ==
  /\ op.k \in SupervisorKinds => op.at \in Supervisors
  /\ op.k = "wake" => op.at \in Actors
  /\ op.k = "know" => op.new \in Nodes
PlacedOK == \A t \in Threads : \A i \in 1 .. Len(stack[t]) : Placed(stack[t][i])

ControlInv == StackTypes /\ ExecOK /\ RunOK /\ RunOnce /\ BottomOK /\ PlacedOK

\* t replaces its innermost operation by ops ...
Replaces(t, ops) == stack'[t] = ops \o Tail(stack[t])

\* ... and no other stack changes.
Becomes(t, ops) ==
  /\ DOMAIN stack' = Threads /\ Replaces(t, ops)
  /\ \A u \in Threads : u # t => stack'[u] = stack[u]

\* Operations that start no run, and no handler but a supervisor's.
PlainOps(ops) ==
  /\ IsSeq(ops)
  /\ \A i \in 1 .. Len(ops) :
       /\ ops[i].k # "run"
       /\ ops[i].k = "exec" => i = 1 /\ ops[i].at \in Supervisors
       /\ Placed(ops[i])

\* Neither run nor a handler is one of them.
LEMMA PlacedAnywhere ==
  ASSUME NEW op, op.k \in {"run", "exec", "send", "tell", "introduce"}
  PROVE  Placed(op)
BY DEF Placed, SupervisorKinds

LEMMA ThenBecomes ==
  ASSUME DOMAIN stack = Threads, NEW t \in Threads, NEW ops, Then(t, ops)
  PROVE  Becomes(t, ops)
BY DEF Then, Becomes, Replaces

\* Where the operations of the new stack come from, and where those of the old
\* one go.
LEMMA Pushed ==
  ASSUME StackTypes, NEW t \in Threads, stack[t] # <<>>, NEW ops, IsSeq(ops), Replaces(t, ops)
  PROVE  /\ IsSeq(stack'[t]) /\ Len(stack'[t]) = Len(ops) + Len(stack[t]) - 1
         /\ Len(ops) \in Nat /\ Len(stack[t]) \in Nat \ {0}
         /\ \A i \in 1 .. Len(ops) : i \in 1 .. Len(stack'[t]) /\ stack'[t][i] = ops[i]
         /\ \A i \in 2 .. Len(stack[t]) : /\ Len(ops) + i - 1 \in 1 .. Len(stack'[t])
                                          /\ stack'[t][Len(ops) + i - 1] = stack[t][i]
         /\ \A j \in 1 .. Len(stack'[t]) :
              \/ j \in 1 .. Len(ops) /\ stack'[t][j] = ops[j]
              \/ /\ j - Len(ops) + 1 \in 2 .. Len(stack[t])
                 /\ stack'[t][j] = stack[t][j - Len(ops) + 1]
<1> DEFINE s == stack[t]
           r == ops \o Tail(s)
<1>1. IsSeq(s) /\ s # <<>> /\ stack'[t] = r
  BY DEF StackTypes, Replaces
<1>2. /\ IsSeq(r) /\ Len(r) = Len(ops) + Len(s) - 1
      /\ Len(ops) \in Nat /\ Len(s) \in Nat \ {0}
      /\ \A i \in 1 .. Len(ops) : r[i] = ops[i]
      /\ \A i \in 2 .. Len(s) : r[Len(ops) + i - 1] = s[i]
      /\ \A j \in 1 .. Len(r) : \/ j \in 1 .. Len(ops) /\ r[j] = ops[j]
                                \/ /\ j - Len(ops) + 1 \in 2 .. Len(s)
                                   /\ r[j] = s[j - Len(ops) + 1]
  <2> HIDE DEF s
  <2> QED BY <1>1, SeqPush
<1> HIDE DEF s, r
<1>3. /\ \A i \in 1 .. Len(ops) : i \in 1 .. Len(r)
      /\ \A i \in 2 .. Len(s) : Len(ops) + i - 1 \in 1 .. Len(r)
  BY <1>2
<1> QED BY <1>1, <1>2, <1>3 DEF s

LEMMA StackTypesStep ==
  ASSUME StackTypes, NEW t \in Threads, IsSeq(stack'[t]), DOMAIN stack' = Threads,
         \A u \in Threads : u # t => stack'[u] = stack[u],
         UNCHANGED <<program, script>>, running' \subseteq Actors
  PROVE  StackTypes'
<1>1. \A u \in Threads : IsSeq(stack'[u])
  BY DEF StackTypes
<1> QED BY <1>1 DEF StackTypes

LEMMA ControlPlain ==
  ASSUME ControlInv, NEW t \in Threads, stack[t] # <<>>, Op(t).k # "run",
         NEW ops, PlainOps(ops), Becomes(t, ops), UNCHANGED <<program, script, running>>
  PROVE  ControlInv'
<1> DEFINE s == stack[t]
           r == stack'[t]
           L == Len(ops)
<1>1. StackTypes /\ ExecOK /\ RunOK /\ RunOnce /\ BottomOK /\ PlacedOK
  BY DEF ControlInv
<1>2. /\ IsSeq(r) /\ Len(r) = L + Len(s) - 1
      /\ L \in Nat /\ Len(s) \in Nat \ {0}
      /\ \A i \in 2 .. Len(s) : L + i - 1 \in 1 .. Len(r) /\ r[L + i - 1] = s[i]
      /\ \A j \in 1 .. Len(r) : \/ j \in 1 .. L /\ r[j] = ops[j]
                                \/ /\ j - L + 1 \in 2 .. Len(s)
                                   /\ r[j] = s[j - L + 1]
  BY <1>1, Pushed DEF PlainOps, Becomes
<1>3. \A u \in Threads : u # t => stack'[u] = stack[u]
  BY DEF Becomes
<1>4. s[1].k # "run"
  BY <1>1, SeqTail DEF StackTypes, Op
<1>5. StackTypes'
  BY <1>1, <1>2, StackTypesStep DEF StackTypes, Becomes
<1>6. \A i \in 1 .. L : /\ ops[i].k # "run"
                        /\ ops[i].k = "exec" => i = 1 /\ ops[i].at \in Supervisors
                        /\ Placed(ops[i])
  BY DEF PlainOps
<1> HIDE DEF s, r, L
<1>7. \A i \in 2 .. Len(s) : i \in 1 .. Len(s) /\ i # 1
  BY <1>2
<1>8. ExecOK'
  <2> SUFFICES ASSUME NEW u \in Threads, NEW i \in 1 .. Len(stack'[u]),
                      stack'[u][i].k = "exec"
               PROVE  /\ i = 1 /\ stack'[u][i].at \in Nodes
                      /\ stack'[u][i].at \in Actors =>
                           \E j \in 1 .. Len(stack'[u]) : /\ stack'[u][j].k = "run"
                                                         /\ stack'[u][j].at = stack'[u][i].at
    BY DEF ExecOK
  <2>1. CASE u # t
    BY <1>1, <1>3, <2>1 DEF ExecOK
  <2>2. CASE u = t
    <3>1. CASE i \in 1 .. L /\ r[i] = ops[i]
      BY <1>6, <2>2, <3>1, NodesAssumption DEF r, Nodes
    <3>2. ASSUME i - L + 1 \in 2 .. Len(s), r[i] = s[i - L + 1]
          PROVE  FALSE
      BY <1>1, <1>7, <2>2, <3>2 DEF r, s, ExecOK
    <3> QED BY <1>2, <2>2, <3>1, <3>2 DEF r
  <2> QED BY <2>1, <2>2
<1>9. RunOK'
  <2> SUFFICES ASSUME NEW u \in Threads, NEW i \in 1 .. Len(stack'[u]), stack'[u][i].k = "run"
               PROVE  stack'[u][i].at \in running /\ u = Home(stack'[u][i].at)
    BY DEF RunOK, Home
  <2>1. CASE u # t
    BY <1>1, <1>3, <2>1 DEF RunOK
  <2>2. CASE u = t
    <3>1. i - L + 1 \in 2 .. Len(s) /\ r[i] = s[i - L + 1]
      BY <1>2, <1>6, <2>2 DEF r
    <3> QED BY <1>1, <1>7, <2>2, <3>1 DEF r, s, RunOK
  <2> QED BY <2>1, <2>2
<1>10. RunOnce'
  <2> SUFFICES ASSUME NEW u \in Threads, NEW i \in 1 .. Len(stack'[u]),
                      NEW j \in 1 .. Len(stack'[u]),
                      stack'[u][i].k = "run", stack'[u][j].k = "run",
                      stack'[u][i].at = stack'[u][j].at
               PROVE  i = j
    BY DEF RunOnce
  <2>1. CASE u # t
    BY <1>1, <1>3, <2>1 DEF RunOnce
  <2>2. CASE u = t
    <3>1. i - L + 1 \in 2 .. Len(s) /\ r[i] = s[i - L + 1]
      BY <1>2, <1>6, <2>2 DEF r
    <3>2. j - L + 1 \in 2 .. Len(s) /\ r[j] = s[j - L + 1]
      BY <1>2, <1>6, <2>2 DEF r
    <3>3. i - L + 1 = j - L + 1
      BY <1>1, <1>7, <2>2, <3>1, <3>2 DEF r, s, RunOnce
    <3>4. i \in Nat /\ j \in Nat
      BY <1>2, <2>2 DEF r
    <3> QED BY <1>2, <3>3, <3>4
  <2> QED BY <2>1, <2>2
<1>11. BottomOK'
  <2> SUFFICES ASSUME NEW a \in Actors, stack'[a] # <<>>
               PROVE  /\ ~Inline[program] /\ stack'[a][Len(stack'[a])].k = "run"
                      /\ stack'[a][Len(stack'[a])].at = a
    BY DEF BottomOK
  <2>1. CASE a # t
    BY <1>1, <1>3, <2>1 DEF BottomOK, Threads
  <2>2. CASE a = t
    <3>1. s[Len(s)].k = "run" /\ s[Len(s)].at = a /\ ~Inline[program]
      BY <1>1, <2>2 DEF BottomOK, s
    <3>2. Len(s) \in 2 .. Len(s)
      BY <1>2, <1>4, <3>1
    <3>3. r[L + Len(s) - 1] = s[Len(s)]
      BY <1>2, <3>2
    <3> QED BY <1>2, <2>2, <3>1, <3>3 DEF r
  <2> QED BY <2>1, <2>2
<1>12. PlacedOK'
  <2> SUFFICES ASSUME NEW u \in Threads, NEW i \in 1 .. Len(stack'[u])
               PROVE  Placed(stack'[u][i])
    BY DEF PlacedOK
  <2>1. CASE u # t
    BY <1>1, <1>3, <2>1 DEF PlacedOK
  <2>2. CASE u = t
    <3>1. CASE i \in 1 .. L /\ r[i] = ops[i]
      BY <1>6, <2>2, <3>1 DEF r
    <3>2. CASE i - L + 1 \in 2 .. Len(s) /\ r[i] = s[i - L + 1]
      BY <1>1, <1>7, <2>2, <3>2 DEF r, s, PlacedOK
    <3> QED BY <1>2, <2>2, <3>1, <3>2 DEF r
  <2> QED BY <2>1, <2>2
<1> QED BY <1>5, <1>8, <1>9, <1>10, <1>11, <1>12 DEF ControlInv

LEMMA ControlSame ==
  ASSUME ControlInv, UNCHANGED <<program, script, stack, running>>
  PROVE  ControlInv'
BY DEF ControlInv, StackTypes, ExecOK, RunOK, RunOnce, BottomOK, PlacedOK, Home

\* main() makes its next call.
LEMMA ControlCall ==
  ASSUME ControlInv, Call
  PROVE  ControlInv'
<1>1. StackTypes /\ ExecOK /\ RunOK /\ RunOnce /\ BottomOK /\ PlacedOK
  BY DEF ControlInv
<1>2. PICK call \in Head(script) : stack' = [stack EXCEPT ![Main] = call]
  BY DEF Call
<1>3. script # <<>> /\ script' = Tail(script) /\ UNCHANGED <<program, running>>
  BY DEF Call
<1>4. /\ IsSeq(Tail(script)) /\ Len(script) \in Nat \ {0}
      /\ Len(Tail(script)) = Len(script) - 1 /\ Head(script) = script[1]
      /\ \A i \in 1 .. Len(script) - 1 : Tail(script)[i] = script[i + 1]
  BY <1>1, <1>3, SeqTail DEF StackTypes
<1>5. OnlyCalls(call)
  BY <1>1, <1>4 DEF StackTypes
<1>6. IsSeq(call) /\ \A i \in 1 .. Len(call) :
        /\ call[i].k \notin {"run", "exec"}
        /\ Placed(call[i])
  BY <1>5 DEF OnlyCalls, IsSeq, CallKinds, SupervisorKinds, Placed
<1>7. /\ DOMAIN stack' = Threads /\ stack'[Main] = call
      /\ \A u \in Threads : u # Main => stack'[u] = stack[u]
  BY <1>1, <1>2 DEF StackTypes, Threads
<1>8. StackTypes'
  <2>1. \A i \in 1 .. Len(script') : \A c \in script'[i] : OnlyCalls(c)
    <3> TAKE i \in 1 .. Len(script')
    <3>1. script'[i] = script[i + 1] /\ i + 1 \in 1 .. Len(script)
      BY <1>3, <1>4
    <3> QED BY <1>1, <3>1 DEF StackTypes
  <2>2. \A u \in Threads : IsSeq(stack'[u])
    BY <1>1, <1>6, <1>7 DEF StackTypes
  <2> QED BY <1>1, <1>3, <1>4, <1>7, <2>1, <2>2 DEF StackTypes
<1>9. ExecOK' /\ PlacedOK'
  BY <1>1, <1>6, <1>7 DEF ExecOK, PlacedOK
<1>10. RunOK' /\ RunOnce'
  BY <1>1, <1>3, <1>6, <1>7 DEF RunOK, RunOnce, Home
<1>11. BottomOK'
  BY <1>1, <1>3, <1>7, NodesAssumption DEF BottomOK, Threads, Nodes
<1> QED BY <1>8, <1>9, <1>10, <1>11 DEF ControlInv

\* A dummy_executor runs an idle actor inside enqueue.
LEMMA ControlInline ==
  ASSUME ControlInv, NEW t \in Threads, stack[t] # <<>>, Op(t).k # "run",
         NEW a \in Actors, a \notin running, running' = running \cup {a}, Inline[program],
         Becomes(t, <<Run(a)>>), UNCHANGED <<program, script>>
  PROVE  ControlInv'
<1> DEFINE s == stack[t]
           r == stack'[t]
           ops == <<Run(a)>>
<1>1. StackTypes /\ ExecOK /\ RunOK /\ RunOnce /\ BottomOK /\ PlacedOK
  BY DEF ControlInv
<1>2. IsSeq(ops) /\ Len(ops) = 1 /\ ops[1] = Run(a)
  BY SeqOne
<1>3. /\ IsSeq(r) /\ Len(r) = Len(s) /\ Len(s) \in Nat \ {0} /\ r[1] = Run(a)
      /\ \A i \in 2 .. Len(s) : r[i] = s[i]
  <2> HIDE DEF ops
  <2>1. Replaces(t, ops)
    BY DEF Becomes, ops
  <2>2. /\ IsSeq(r) /\ Len(r) = Len(ops) + Len(s) - 1
        /\ Len(s) \in Nat \ {0}
        /\ \A i \in 1 .. Len(ops) : r[i] = ops[i]
        /\ \A i \in 2 .. Len(s) : r[Len(ops) + i - 1] = s[i]
    <3>1. StackTypes /\ IsSeq(ops)
      BY <1>1, <1>2
    <3> QED BY <3>1, <2>1, Pushed
  <2> HIDE DEF s, r
  <2>3. 1 \in 1 .. Len(ops) /\ \A i \in 2 .. Len(s) : Len(ops) + i - 1 = i
    BY <1>2, <2>2
  <2> QED BY <1>2, <2>2, <2>3
<1>4. \A u \in Threads : u # t => stack'[u] = stack[u]
  BY DEF Becomes
<1>5. t = Main
  BY <1>1 DEF BottomOK, Threads
<1>6. Run(a).k = "run" /\ Run(a).at = a
  BY DEF Run
<1> HIDE DEF s, r, ops
<1>7. \A i \in 1 .. Len(r) : i = 1 \/ (i \in 2 .. Len(s) /\ i \in 1 .. Len(s) /\ r[i] = s[i])
  BY <1>3
<1>8. StackTypes'
  BY <1>1, <1>3, StackTypesStep DEF StackTypes, Becomes, r
<1>9. ExecOK'
  <2> SUFFICES ASSUME NEW u \in Threads, NEW i \in 1 .. Len(stack'[u]),
                      stack'[u][i].k = "exec"
               PROVE  /\ i = 1 /\ stack'[u][i].at \in Nodes
                      /\ stack'[u][i].at \in Actors =>
                           \E j \in 1 .. Len(stack'[u]) : /\ stack'[u][j].k = "run"
                                                         /\ stack'[u][j].at = stack'[u][i].at
    BY DEF ExecOK
  <2>1. CASE u # t
    BY <1>1, <1>4, <2>1 DEF ExecOK
  <2>2. CASE u = t
    <3>1. i \in 1 .. Len(s) /\ i # 1 /\ s[i].k = "exec"
      BY <1>3, <1>6, <1>7, <2>2 DEF r
    <3> QED BY <1>1, <3>1 DEF s, ExecOK
  <2> QED BY <2>1, <2>2
<1>10. RunOK'
  <2> SUFFICES ASSUME NEW u \in Threads, NEW i \in 1 .. Len(stack'[u]), stack'[u][i].k = "run"
               PROVE  stack'[u][i].at \in running' /\ u = Home(stack'[u][i].at)
    BY DEF RunOK, Home
  <2>1. CASE u # t
    BY <1>1, <1>4, <2>1 DEF RunOK
  <2>2. CASE u = t
    <3>1. CASE i = 1
      BY <1>3, <1>5, <1>6, <2>2, <3>1 DEF r, Home
    <3>2. CASE i \in 1 .. Len(s) /\ r[i] = s[i]
      BY <1>1, <2>2, <3>2 DEF r, s, RunOK
    <3> QED BY <1>7, <2>2, <3>1, <3>2 DEF r
  <2> QED BY <2>1, <2>2
<1>11. RunOnce'
  <2> SUFFICES ASSUME NEW u \in Threads, NEW i \in 1 .. Len(stack'[u]),
                      NEW j \in 1 .. Len(stack'[u]),
                      stack'[u][i].k = "run", stack'[u][j].k = "run",
                      stack'[u][i].at = stack'[u][j].at
               PROVE  i = j
    BY DEF RunOnce
  <2>1. CASE u # t
    BY <1>1, <1>4, <2>1 DEF RunOnce
  <2>2. CASE u = t
    <3>1. \A h \in 1 .. Len(r) : r[h].k = "run" /\ h # 1 =>
            h \in 1 .. Len(s) /\ r[h] = s[h] /\ r[h].at \in running
      BY <1>1, <1>7 DEF s, RunOK
    <3>2. \A h \in 1 .. Len(r) : r[h].k = "run" /\ h # 1 => r[h].at # a
      BY <3>1
    <3>3. r[1].at = a
      BY <1>3, <1>6
    <3> QED BY <1>1, <2>2, <3>1, <3>2, <3>3 DEF r, s, RunOnce
  <2> QED BY <2>1, <2>2
<1>12. BottomOK'
  BY <1>1, <1>4, <1>5, NodesAssumption DEF BottomOK, Threads, Nodes
<1>13. PlacedOK'
  <2> SUFFICES ASSUME NEW u \in Threads, NEW i \in 1 .. Len(stack'[u])
               PROVE  Placed(stack'[u][i])
    BY DEF PlacedOK
  <2>1. CASE u # t
    BY <1>1, <1>4, <2>1 DEF PlacedOK
  <2>2. CASE u = t
    <3>1. CASE i = 1
      BY <1>3, <1>6, <2>2, <3>1, PlacedAnywhere DEF r
    <3>2. CASE i \in 1 .. Len(s) /\ r[i] = s[i]
      BY <1>1, <2>2, <3>2 DEF r, s, PlacedOK
    <3> QED BY <1>7, <2>2, <3>1, <3>2 DEF r
  <2> QED BY <2>1, <2>2
<1> QED BY <1>8, <1>9, <1>10, <1>11, <1>12, <1>13 DEF ControlInv

\* An executor runs an idle actor on a thread of its own.
LEMMA ControlDispatch ==
  ASSUME ControlInv, NEW t \in Threads, stack[t] # <<>>, Op(t).k # "run",
         NEW a \in Actors, a \notin running, running' = running \cup {a}, ~Inline[program],
         a # t, stack'[t] = Tail(stack[t]), stack'[a] = <<Run(a)>>, DOMAIN stack' = Threads,
         \A u \in Threads : u \notin {t, a} => stack'[u] = stack[u],
         UNCHANGED <<program, script>>
  PROVE  ControlInv'
<1> DEFINE s == stack[t]
           r == stack'[t]
<1>1. StackTypes /\ ExecOK /\ RunOK /\ RunOnce /\ BottomOK /\ PlacedOK
  BY DEF ControlInv
<1>2. /\ IsSeq(stack'[a]) /\ Len(stack'[a]) = 1 /\ stack'[a] # <<>>
      /\ stack'[a][1].k = "run" /\ stack'[a][1].at = a
  BY SeqOne, SeqEmpty DEF Run
<1>3. /\ IsSeq(r) /\ Len(r) = Len(s) - 1 /\ Len(s) \in Nat \ {0}
      /\ \A i \in 1 .. Len(r) : i + 1 \in 2 .. Len(s) /\ r[i] = s[i + 1]
  <2>1. IsSeq(s) /\ s # <<>> /\ r = Tail(s)
    BY <1>1 DEF StackTypes
  <2> HIDE DEF s, r
  <2>2. /\ IsSeq(Tail(s)) /\ Len(s) \in Nat \ {0} /\ Len(Tail(s)) = Len(s) - 1
        /\ \A i \in 1 .. Len(s) - 1 : Tail(s)[i] = s[i + 1]
    BY <2>1, SeqTail
  <2> QED BY <2>1, <2>2
<1>4. s[1].k # "run"
  BY <1>1, SeqTail DEF StackTypes, Op
<1>5. \A u \in Threads : u = t \/ u = a \/ (u \notin {t, a} /\ stack'[u] = stack[u])
  OBVIOUS
<1>6. \A i \in 1 .. Len(stack'[a]) : i = 1
  BY <1>2
<1>7. \A i \in 1 .. Len(r) : i + 1 \in 1 .. Len(s) /\ i + 1 # 1 /\ r[i] = s[i + 1]
  BY <1>3
<1> HIDE DEF s, r
<1>8. StackTypes'
  <2>1. \A u \in Threads : IsSeq(stack'[u])
    BY <1>1, <1>2, <1>3, <1>5 DEF StackTypes, r
  <2> QED BY <1>1, <2>1 DEF StackTypes
<1>9. ExecOK'
  <2> SUFFICES ASSUME NEW u \in Threads, NEW i \in 1 .. Len(stack'[u]),
                      stack'[u][i].k = "exec"
               PROVE  /\ i = 1 /\ stack'[u][i].at \in Nodes
                      /\ stack'[u][i].at \in Actors =>
                           \E j \in 1 .. Len(stack'[u]) : /\ stack'[u][j].k = "run"
                                                         /\ stack'[u][j].at = stack'[u][i].at
    BY DEF ExecOK
  <2>1. CASE u = t
    <3>1. i + 1 \in 1 .. Len(s) /\ i + 1 # 1 /\ s[i + 1].k = "exec"
      BY <1>7, <2>1 DEF r
    <3> QED BY <1>1, <3>1 DEF s, ExecOK
  <2>2. CASE u = a
    BY <1>2, <1>6, <2>2
  <2>3. CASE u \notin {t, a} /\ stack'[u] = stack[u]
    BY <1>1, <2>3 DEF ExecOK
  <2> QED BY <1>5, <2>1, <2>2, <2>3
<1>10. RunOK'
  <2> SUFFICES ASSUME NEW u \in Threads, NEW i \in 1 .. Len(stack'[u]), stack'[u][i].k = "run"
               PROVE  stack'[u][i].at \in running' /\ u = Home(stack'[u][i].at)
    BY DEF RunOK, Home
  <2>1. CASE u = t
    BY <1>1, <1>7, <2>1 DEF r, s, RunOK
  <2>2. CASE u = a
    BY <1>2, <1>6, <2>2 DEF Home
  <2>3. CASE u \notin {t, a} /\ stack'[u] = stack[u]
    BY <1>1, <2>3 DEF RunOK
  <2> QED BY <1>5, <2>1, <2>2, <2>3
<1>11. RunOnce'
  <2> SUFFICES ASSUME NEW u \in Threads, NEW i \in 1 .. Len(stack'[u]),
                      NEW j \in 1 .. Len(stack'[u]),
                      stack'[u][i].k = "run", stack'[u][j].k = "run",
                      stack'[u][i].at = stack'[u][j].at
               PROVE  i = j
    BY DEF RunOnce
  <2>1. CASE u = t
    <3>0. /\ i + 1 \in 1 .. Len(s) /\ s[i + 1].k = "run"
          /\ j + 1 \in 1 .. Len(s) /\ s[j + 1].k = "run" /\ s[i + 1].at = s[j + 1].at
      BY <1>7, <2>1 DEF r
    <3>1. i + 1 = j + 1
      BY <1>1, <3>0 DEF s, RunOnce
    <3>2. i \in Nat /\ j \in Nat
      BY <1>3, <2>1 DEF r
    <3> QED BY <3>1, <3>2
  <2>2. CASE u = a
    BY <1>6, <2>2
  <2>3. CASE u \notin {t, a} /\ stack'[u] = stack[u]
    BY <1>1, <2>3 DEF RunOnce
  <2> QED BY <1>5, <2>1, <2>2, <2>3
<1>12. BottomOK'
  <2> SUFFICES ASSUME NEW b \in Actors, stack'[b] # <<>>
               PROVE  /\ ~Inline[program] /\ stack'[b][Len(stack'[b])].k = "run"
                      /\ stack'[b][Len(stack'[b])].at = b
    BY DEF BottomOK
  <2>1. CASE b = t
    <3>1. s[Len(s)].k = "run" /\ s[Len(s)].at = b
      BY <1>1, <2>1 DEF BottomOK, s
    <3>2. Len(r) \in 1 .. Len(r) /\ Len(r) + 1 = Len(s)
      BY <1>3, <1>4, <3>1
    <3> QED BY <1>7, <2>1, <3>1, <3>2 DEF r
  <2>2. CASE b = a
    BY <1>2, <2>2
  <2>3. CASE b \notin {t, a}
    BY <1>1, <2>3 DEF BottomOK, Threads
  <2> QED BY <2>1, <2>2, <2>3
<1>13. PlacedOK'
  <2> SUFFICES ASSUME NEW u \in Threads, NEW i \in 1 .. Len(stack'[u])
               PROVE  Placed(stack'[u][i])
    BY DEF PlacedOK
  <2>1. CASE u = t
    BY <1>1, <1>7, <2>1 DEF r, s, PlacedOK
  <2>2. CASE u = a
    BY <1>2, <1>6, <2>2, PlacedAnywhere
  <2>3. CASE u \notin {t, a} /\ stack'[u] = stack[u]
    BY <1>1, <2>3 DEF PlacedOK
  <2> QED BY <1>5, <2>1, <2>2, <2>3
<1> QED BY <1>8, <1>9, <1>10, <1>11, <1>12, <1>13 DEF ControlInv

\* run takes a message and calls its handler.
LEMMA ControlConsume ==
  ASSUME ControlInv, NEW t \in Threads, stack[t] # <<>>, Op(t).k = "run",
         stack'[t] = <<Exec(Op(t).at)>> \o stack[t], DOMAIN stack' = Threads,
         \A u \in Threads : u # t => stack'[u] = stack[u],
         UNCHANGED <<program, script, running>>
  PROVE  ControlInv'
<1> DEFINE s == stack[t]
           r == stack'[t]
           a == Op(t).at
           ops == <<Exec(a)>>
<1>1. StackTypes /\ ExecOK /\ RunOK /\ RunOnce /\ BottomOK /\ PlacedOK
  BY DEF ControlInv
<1>2. IsSeq(s) /\ s # <<>> /\ r = ops \o s
  BY <1>1 DEF StackTypes
<1> HIDE DEF s, r, a, ops
<1>3. IsSeq(ops) /\ Len(ops) = 1 /\ ops[1].k = "exec" /\ ops[1].at = a
  BY SeqOne DEF ops, Exec
<1>4. /\ IsSeq(r) /\ Len(r) = Len(s) + 1 /\ Len(s) \in Nat \ {0}
      /\ r[1].k = "exec" /\ r[1].at = a
      /\ \A i \in 1 .. Len(s) : i + 1 \in 1 .. Len(r) /\ r[i + 1] = s[i]
  <2>1. /\ IsSeq(ops \o s) /\ Len(ops \o s) = Len(ops) + Len(s)
        /\ \A i \in 1 .. Len(ops) : (ops \o s)[i] = ops[i]
        /\ \A i \in 1 .. Len(s) : (ops \o s)[Len(ops) + i] = s[i]
    <3>1. IsSeq(ops) /\ IsSeq(s)
      BY <1>2, <1>3
    <3> QED BY <3>1, SeqConcat
  <2>2. Len(s) \in Nat \ {0}
    BY <1>2, SeqLen
  <2>3. 1 \in 1 .. Len(ops)
    BY <1>3
  <2>4. r[1] = ops[1]
    BY <1>2, <2>1, <2>3
  <2>5. \A i \in 1 .. Len(s) : r[i + 1] = s[i]
    <3> TAKE i \in 1 .. Len(s)
    <3>1. Len(ops) + i = i + 1
      BY <1>3, <2>2
    <3> QED BY <1>2, <2>1, <3>1
  <2>6. IsSeq(r) /\ Len(r) = Len(s) + 1
    BY <1>2, <1>3, <2>1, <2>2
  <2> QED BY <1>3, <2>2, <2>4, <2>5, <2>6
<1>5. \A i \in 1 .. Len(r) : i = 1 \/ (i - 1 \in 1 .. Len(s) /\ r[i] = s[i - 1])
  <2> TAKE i \in 1 .. Len(r)
  <2>1. i = 1 \/ (i - 1 \in 1 .. Len(s) /\ (i - 1) + 1 = i)
    BY <1>4
  <2> QED BY <1>4, <2>1
<1>6. 1 \in 1 .. Len(s) /\ s[1].k = "run" /\ s[1].at = a
  <2>1. Head(s) = s[1]
    BY <1>2, SeqTail
  <2> QED BY <1>4, <2>1 DEF s, a, Op
<1>7. a \in Actors
  BY <1>1, <1>6 DEF s, RunOK, StackTypes
<1>8. \A i \in 1 .. Len(s) : s[i].k # "exec"
  <2> TAKE i \in 1 .. Len(s)
  <2>1. s[i].k = "exec" => i = 1
    BY <1>1 DEF s, ExecOK
  <2> QED BY <1>6, <2>1
<1>9. StackTypes'
  BY <1>1, <1>4, StackTypesStep DEF StackTypes, r
<1>10. ExecOK'
  <2> SUFFICES ASSUME NEW u \in Threads, NEW i \in 1 .. Len(stack'[u]),
                      stack'[u][i].k = "exec"
               PROVE  /\ i = 1 /\ stack'[u][i].at \in Nodes
                      /\ stack'[u][i].at \in Actors =>
                           \E j \in 1 .. Len(stack'[u]) : /\ stack'[u][j].k = "run"
                                                         /\ stack'[u][j].at = stack'[u][i].at
    BY DEF ExecOK
  <2>1. CASE u # t
    BY <1>1, <2>1 DEF ExecOK
  <2>2. CASE u = t
    <3>1. i = 1
      BY <1>5, <1>8, <2>2 DEF r
    <3>2. 1 + 1 \in 1 .. Len(r) /\ r[1 + 1] = s[1]
      BY <1>4, <1>6
    <3> QED BY <1>4, <1>6, <1>7, <2>2, <3>1, <3>2 DEF r, Nodes
  <2> QED BY <2>1, <2>2
<1>11. RunOK'
  <2> SUFFICES ASSUME NEW u \in Threads, NEW i \in 1 .. Len(stack'[u]), stack'[u][i].k = "run"
               PROVE  stack'[u][i].at \in running' /\ u = Home(stack'[u][i].at)
    BY DEF RunOK, Home
  <2>1. CASE u # t
    BY <1>1, <2>1 DEF RunOK
  <2>2. CASE u = t
    <3>1. i - 1 \in 1 .. Len(s) /\ r[i] = s[i - 1]
      BY <1>4, <1>5, <2>2 DEF r
    <3> QED BY <1>1, <2>2, <3>1 DEF r, s, RunOK
  <2> QED BY <2>1, <2>2
<1>12. RunOnce'
  <2> SUFFICES ASSUME NEW u \in Threads, NEW i \in 1 .. Len(stack'[u]),
                      NEW j \in 1 .. Len(stack'[u]),
                      stack'[u][i].k = "run", stack'[u][j].k = "run",
                      stack'[u][i].at = stack'[u][j].at
               PROVE  i = j
    BY DEF RunOnce
  <2>1. CASE u # t
    BY <1>1, <2>1 DEF RunOnce
  <2>2. CASE u = t
    <3>1. /\ i - 1 \in 1 .. Len(s) /\ r[i] = s[i - 1]
          /\ j - 1 \in 1 .. Len(s) /\ r[j] = s[j - 1]
      BY <1>4, <1>5, <2>2 DEF r
    <3>2. i - 1 = j - 1
      BY <1>1, <2>2, <3>1 DEF r, s, RunOnce
    <3>3. i \in Nat /\ j \in Nat
      BY <1>4, <2>2 DEF r
    <3> QED BY <3>2, <3>3
  <2> QED BY <2>1, <2>2
<1>13. BottomOK'
  <2> SUFFICES ASSUME NEW b \in Actors, stack'[b] # <<>>
               PROVE  /\ ~Inline[program] /\ stack'[b][Len(stack'[b])].k = "run"
                      /\ stack'[b][Len(stack'[b])].at = b
    BY DEF BottomOK
  <2>1. CASE b # t
    BY <1>1, <2>1 DEF BottomOK, Threads
  <2>2. CASE b = t
    <3>1. s[Len(s)].k = "run" /\ s[Len(s)].at = b /\ ~Inline[program]
      BY <1>1, <1>2, <2>2 DEF BottomOK, s
    <3>2. Len(s) \in 1 .. Len(s) /\ Len(s) + 1 = Len(r)
      BY <1>4
    <3> QED BY <1>4, <2>2, <3>1, <3>2 DEF r
  <2> QED BY <2>1, <2>2
<1>14. PlacedOK'
  <2> SUFFICES ASSUME NEW u \in Threads, NEW i \in 1 .. Len(stack'[u])
               PROVE  Placed(stack'[u][i])
    BY DEF PlacedOK
  <2>1. CASE u # t
    BY <1>1, <2>1 DEF PlacedOK
  <2>2. CASE u = t
    <3>1. CASE i = 1
      BY <1>4, <2>2, <3>1, PlacedAnywhere DEF r
    <3>2. CASE i - 1 \in 1 .. Len(s) /\ r[i] = s[i - 1]
      BY <1>1, <2>2, <3>2 DEF r, s, PlacedOK
    <3> QED BY <1>5, <2>2, <3>1, <3>2 DEF r
  <2> QED BY <2>1, <2>2
<1> QED BY <1>9, <1>10, <1>11, <1>12, <1>13, <1>14 DEF ControlInv

\* run's last look: its operation stays where it is.
LEMMA ControlLook ==
  ASSUME ControlInv, NEW t \in Threads, stack[t] # <<>>, Op(t).k = "run", NEW op,
         op.k = "run", op.at = Op(t).at, Becomes(t, <<op>>),
         UNCHANGED <<program, script, running>>
  PROVE  ControlInv'
<1> DEFINE s == stack[t]
           r == stack'[t]
           ops == <<op>>
<1>1. StackTypes /\ ExecOK /\ RunOK /\ RunOnce /\ BottomOK /\ PlacedOK
  BY DEF ControlInv
<1>2. IsSeq(ops) /\ Len(ops) = 1 /\ ops[1] = op
  BY SeqOne
<1>3. IsSeq(s) /\ s[1] = Op(t)
  BY <1>1, SeqTail DEF StackTypes, Op
<1>4. /\ IsSeq(r) /\ Len(r) = Len(s) /\ Len(s) \in Nat \ {0} /\ r[1] = op
      /\ \A i \in 2 .. Len(s) : r[i] = s[i]
  <2> HIDE DEF ops
  <2>1. Replaces(t, ops)
    BY DEF Becomes, ops
  <2>2. /\ IsSeq(r) /\ Len(r) = Len(ops) + Len(s) - 1
        /\ Len(s) \in Nat \ {0}
        /\ \A i \in 1 .. Len(ops) : r[i] = ops[i]
        /\ \A i \in 2 .. Len(s) : r[Len(ops) + i - 1] = s[i]
    <3>1. StackTypes /\ IsSeq(ops)
      BY <1>1, <1>2
    <3> QED BY <3>1, <2>1, Pushed
  <2> HIDE DEF s, r
  <2>3. 1 \in 1 .. Len(ops) /\ \A i \in 2 .. Len(s) : Len(ops) + i - 1 = i
    BY <1>2, <2>2
  <2> QED BY <1>2, <2>2, <2>3
<1> HIDE DEF ops
<1>5. \A i \in 1 .. Len(r) : i = 1 \/ i \in 2 .. Len(s)
  <2> HIDE DEF s, r
  <2> QED BY <1>4
<1>6. \A u \in Threads :
        /\ IsSeq(stack'[u]) /\ Len(stack'[u]) = Len(stack[u])
        /\ \A i \in 1 .. Len(stack[u]) :
             /\ stack'[u][i].k = stack[u][i].k /\ stack'[u][i].at = stack[u][i].at
             /\ stack[u][i].k = "know" => stack'[u][i] = stack[u][i]
  <2> TAKE u \in Threads
  <2>1. CASE u = t
    BY <1>3, <1>4, <1>5, <2>1
  <2>2. CASE u # t
    BY <1>1, <2>2 DEF Becomes, StackTypes
  <2> QED BY <2>1, <2>2
<1> HIDE DEF s, r
<1>7. StackTypes'
  BY <1>1, <1>6 DEF StackTypes, Becomes
<1>8. RunOK' /\ RunOnce' /\ ExecOK'
  <2>1. RunOK' /\ RunOnce'
    <3>1. ASSUME NEW u \in Threads, NEW i \in 1 .. Len(stack'[u]), stack'[u][i].k = "run"
          PROVE  stack'[u][i].at \in running' /\ u = Home(stack'[u][i].at)
      BY <1>1, <1>6, <3>1 DEF RunOK
    <3>2. ASSUME NEW u \in Threads, NEW i \in 1 .. Len(stack'[u]), NEW j \in 1 .. Len(stack'[u]),
                 stack'[u][i].k = "run", stack'[u][j].k = "run",
                 stack'[u][i].at = stack'[u][j].at
          PROVE  i = j
      BY <1>1, <1>6, <3>2 DEF RunOnce
    <3> QED BY <3>1, <3>2 DEF RunOK, RunOnce, Home
  <2>2. ASSUME NEW u \in Threads, NEW i \in 1 .. Len(stack'[u]), stack'[u][i].k = "exec"
        PROVE  /\ i = 1 /\ stack'[u][i].at \in Nodes
               /\ stack'[u][i].at \in Actors =>
                    \E j \in 1 .. Len(stack'[u]) : /\ stack'[u][j].k = "run"
                                                  /\ stack'[u][j].at = stack'[u][i].at
    <3>1. i \in 1 .. Len(stack[u]) /\ stack[u][i].k = "exec" /\ stack'[u][i].at = stack[u][i].at
      BY <1>6, <2>2
    <3>2. CASE stack[u][i].at \in Actors
      <4>1. PICK j \in 1 .. Len(stack[u]) : stack[u][j].k = "run" /\ stack[u][j].at = stack[u][i].at
        BY <1>1, <3>1, <3>2 DEF ExecOK
      <4>2. j \in 1 .. Len(stack'[u]) /\ stack'[u][j].k = "run" /\ stack'[u][j].at = stack'[u][i].at
        BY <1>6, <3>1, <4>1
      <4> QED BY <1>1, <3>1, <4>2 DEF ExecOK
    <3> QED BY <1>1, <3>1, <3>2 DEF ExecOK
  <2>3. ExecOK'
    BY <2>2 DEF ExecOK
  <2> QED BY <2>1, <2>3
<1>9. PlacedOK'
  BY <1>1, <1>6 DEF PlacedOK, Placed
<1>10. BottomOK'
  <2> SUFFICES ASSUME NEW a \in Actors, stack'[a] # <<>>
               PROVE  /\ ~Inline[program] /\ stack'[a][Len(stack'[a])].k = "run"
                      /\ stack'[a][Len(stack'[a])].at = a
    BY DEF BottomOK
  <2>1. IsSeq(stack[a]) /\ IsSeq(stack'[a]) /\ Len(stack'[a]) = Len(stack[a])
    BY <1>1, <1>6 DEF StackTypes, Threads
  <2>2. stack[a] # <<>> /\ Len(stack[a]) \in 1 .. Len(stack[a])
    BY <2>1, SeqLen
  <2> QED BY <1>1, <1>6, <2>1, <2>2 DEF BottomOK, Threads
<1> QED BY <1>7, <1>8, <1>9, <1>10 DEF ControlInv

\* run returns.
LEMMA ControlRest ==
  ASSUME ControlInv, NEW t \in Threads, stack[t] # <<>>, Op(t).k = "run",
         stack'[t] = Tail(stack[t]), DOMAIN stack' = Threads,
         \A u \in Threads : u # t => stack'[u] = stack[u],
         running' = running \ {Op(t).at}, UNCHANGED <<program, script>>
  PROVE  ControlInv'
<1> DEFINE s == stack[t]
           r == stack'[t]
           a == Op(t).at
<1>1. StackTypes /\ ExecOK /\ RunOK /\ RunOnce /\ BottomOK /\ PlacedOK
  BY DEF ControlInv
<1>3. /\ IsSeq(r) /\ Len(r) = Len(s) - 1 /\ Len(s) \in Nat \ {0}
      /\ \A i \in 1 .. Len(r) : i + 1 \in 2 .. Len(s) /\ r[i] = s[i + 1]
  <2>1. IsSeq(s) /\ s # <<>> /\ r = Tail(s)
    BY <1>1 DEF StackTypes
  <2> HIDE DEF s, r
  <2>2. /\ IsSeq(Tail(s)) /\ Len(s) \in Nat \ {0} /\ Len(Tail(s)) = Len(s) - 1
        /\ \A i \in 1 .. Len(s) - 1 : Tail(s)[i] = s[i + 1]
    BY <2>1, SeqTail
  <2> QED BY <2>1, <2>2
<1>4. 1 \in 1 .. Len(s) /\ s[1].k = "run" /\ s[1].at = a
  <2>1. IsSeq(s) /\ s # <<>>
    BY <1>1 DEF StackTypes
  <2>2. Head(s) = s[1]
    BY <2>1, SeqTail
  <2> QED BY <1>3, <2>2 DEF Op
<1>5. t = Home(a)
  BY <1>1, <1>4 DEF RunOK
<1>7. \A i \in 1 .. Len(r) : i + 1 \in 1 .. Len(s) /\ i + 1 # 1 /\ r[i] = s[i + 1]
  BY <1>3
<1> HIDE DEF s, r, a
<1>8. StackTypes'
  <2>1. IsSeq(stack'[t])
    BY <1>3 DEF r
  <2>2. running' \subseteq Actors
    BY <1>1 DEF StackTypes
  <2> QED BY <1>1, <2>1, <2>2, StackTypesStep
<1>9. ExecOK'
  <2> SUFFICES ASSUME NEW u \in Threads, NEW i \in 1 .. Len(stack'[u]),
                      stack'[u][i].k = "exec"
               PROVE  /\ i = 1 /\ stack'[u][i].at \in Nodes
                      /\ stack'[u][i].at \in Actors =>
                           \E j \in 1 .. Len(stack'[u]) : /\ stack'[u][j].k = "run"
                                                         /\ stack'[u][j].at = stack'[u][i].at
    BY DEF ExecOK
  <2>1. CASE u # t
    BY <1>1, <2>1 DEF ExecOK
  <2>2. CASE u = t
    <3>1. i + 1 \in 1 .. Len(s) /\ i + 1 # 1 /\ s[i + 1].k = "exec"
      BY <1>7, <2>2 DEF r
    <3> QED BY <1>1, <3>1 DEF s, ExecOK
  <2> QED BY <2>1, <2>2
<1>10. RunOK'
  <2> SUFFICES ASSUME NEW u \in Threads, NEW i \in 1 .. Len(stack'[u]), stack'[u][i].k = "run"
               PROVE  stack'[u][i].at \in running' /\ u = Home(stack'[u][i].at)
    BY DEF RunOK, Home
  <2>1. CASE u # t
    <3>1. stack[u][i].at \in running /\ u = Home(stack[u][i].at) /\ stack'[u] = stack[u]
      BY <1>1, <2>1 DEF RunOK
    <3>2. stack[u][i].at # a
      BY <1>5, <2>1, <3>1
    <3> QED BY <3>1, <3>2 DEF a
  <2>2. CASE u = t
    <3>1. i + 1 \in 1 .. Len(s) /\ i + 1 # 1 /\ r[i] = s[i + 1] /\ s[i + 1].k = "run"
      BY <1>7, <2>2 DEF r
    <3>2. s[i + 1].at # a
      BY <1>1, <1>4, <3>1 DEF RunOnce, s
    <3>3. s[i + 1].at \in running /\ t = Home(s[i + 1].at)
      BY <1>1, <3>1 DEF RunOK, s
    <3> QED BY <2>2, <3>1, <3>2, <3>3 DEF r, a
  <2> QED BY <2>1, <2>2
<1>11. RunOnce'
  <2> SUFFICES ASSUME NEW u \in Threads, NEW i \in 1 .. Len(stack'[u]),
                      NEW j \in 1 .. Len(stack'[u]),
                      stack'[u][i].k = "run", stack'[u][j].k = "run",
                      stack'[u][i].at = stack'[u][j].at
               PROVE  i = j
    BY DEF RunOnce
  <2>1. CASE u # t
    BY <1>1, <2>1 DEF RunOnce
  <2>2. CASE u = t
    <3>1. i + 1 = j + 1
      BY <1>1, <1>7, <2>2 DEF r, s, RunOnce
    <3>2. i \in Nat /\ j \in Nat
      BY <1>3, <2>2 DEF r
    <3> QED BY <3>1, <3>2
  <2> QED BY <2>1, <2>2
<1>12. BottomOK'
  <2> SUFFICES ASSUME NEW b \in Actors, stack'[b] # <<>>
               PROVE  /\ ~Inline[program] /\ stack'[b][Len(stack'[b])].k = "run"
                      /\ stack'[b][Len(stack'[b])].at = b
    BY DEF BottomOK
  <2>1. CASE b # t
    BY <1>1, <2>1 DEF BottomOK, Threads
  <2>2. CASE b = t
    <3>1. s[Len(s)].k = "run" /\ s[Len(s)].at = b /\ ~Inline[program]
      BY <1>1, <2>2 DEF BottomOK, s
    <3>2. Len(r) # 0
      BY <1>3, <2>2, SeqLen DEF r
    <3>3. Len(r) \in 1 .. Len(r) /\ Len(r) + 1 = Len(s)
      BY <1>3, <3>2
    <3> QED BY <1>7, <2>2, <3>1, <3>3 DEF r
  <2> QED BY <2>1, <2>2
<1>13. PlacedOK'
  <2> SUFFICES ASSUME NEW u \in Threads, NEW i \in 1 .. Len(stack'[u])
               PROVE  Placed(stack'[u][i])
    BY DEF PlacedOK
  <2>1. CASE u # t
    BY <1>1, <2>1 DEF PlacedOK
  <2>2. CASE u = t
    BY <1>1, <1>7, <2>2 DEF r, s, PlacedOK
  <2> QED BY <2>1, <2>2
<1> QED BY <1>8, <1>9, <1>10, <1>11, <1>12, <1>13 DEF ControlInv

-----------------------------------------------------------------------------
(* Steps                                                                    *)

\* What a handler of the program does is call send, link, spawn_actor,
\* spawn_supervisor, broadcast and address_book.
HandlersOnlyCall ==
  \A n \in Nodes : \A msg : msg.cmd \in DOMAIN Signature[n] => OnlyCalls(App(n, msg))

DataTypes ==
  /\ created \subseteq Nodes /\ DOMAIN current = Nodes
  /\ DOMAIN inbox = Actors /\ \A a \in Actors : IsSeq(inbox[a])
  /\ DOMAIN asked = Nodes
  /\ \A n \in Nodes : DOMAIN asked[n] = Types /\ \A T \in Types : IsSeq(asked[n][T])

\* Contacts are lists, and an actor has no empty one.
BooksOK ==
  /\ DOMAIN contacts = Nodes
  /\ \A n \in Nodes : \A T \in DOMAIN contacts[n] :
       IsSeq(contacts[n][T]) /\ (n \in Actors => contacts[n][T] # <<>>)

FormInv == ControlInv /\ DataTypes /\ BooksOK /\ RobinInv

\* Calls of the framework: no handler, no run, no part of a spawn or an enqueue.
CallOp(op) ==
  /\ op.k \notin {"run", "exec", "know", "sync", "wake", "turn"}
  /\ Placed(op)
CallOps(ops) == IsSeq(ops) /\ \A i \in 1 .. Len(ops) : CallOp(ops[i])

LEMMA CallsNone == CallOps(<<>>)
BY SeqEmpty DEF CallOps

LEMMA CallsOne ==
  ASSUME NEW op, CallOp(op)
  PROVE  CallOps(<<op>>)
<1>1. IsSeq(<<op>>) /\ Len(<<op>>) = 1 /\ <<op>>[1] = op
  BY SeqOne
<1>2. \A i \in 1 .. Len(<<op>>) : <<op>>[i] = op
  BY <1>1
<1> QED BY <1>1, <1>2 DEF CallOps

LEMMA CallsConcat ==
  ASSUME NEW r, CallOps(r), NEW s, CallOps(s)
  PROVE  CallOps(r \o s)
<1>1. IsSeq(r) /\ IsSeq(s) /\ Len(r) \in Nat /\ Len(s) \in Nat
  BY SeqLen DEF CallOps
<1> DEFINE q == r \o s
<1>2. /\ IsSeq(q) /\ Len(q) = Len(r) + Len(s)
      /\ \A i \in 1 .. Len(r) : q[i] = r[i]
      /\ \A i \in 1 .. Len(s) : q[Len(r) + i] = s[i]
  BY <1>1, SeqConcat
<1> HIDE DEF q
<1>3. \A i \in 1 .. Len(q) : CallOp(q[i])
  <2> TAKE i \in 1 .. Len(q)
  <2>1. CASE i \in 1 .. Len(r)
    BY <1>2, <2>1 DEF CallOps
  <2>2. CASE i - Len(r) \in 1 .. Len(s)
    <3>1. Len(r) + (i - Len(r)) = i
      BY <1>1, <1>2
    <3>2. q[i] = s[i - Len(r)]
      BY <1>2, <2>2, <3>1
    <3> QED BY <2>2, <3>2 DEF CallOps
  <2>3. i \in 1 .. Len(r) \/ i - Len(r) \in 1 .. Len(s)
    BY <1>1, <1>2
  <2> QED BY <2>1, <2>2, <2>3
<1> QED BY <1>2, <1>3 DEF CallOps, q

LEMMA CallsElement ==
  ASSUME NEW op, CallOps(<<op>>)
  PROVE  CallOp(op)
<1>1. Len(<<op>>) = 1 /\ <<op>>[1] = op /\ 1 \in 1 .. 1
  BY SeqOne
<1> QED BY <1>1 DEF CallOps

LEMMA CallsTwo ==
  ASSUME NEW op1, NEW op2, CallOps(<<op1>>), CallOps(<<op2>>)
  PROVE  CallOps(<<op1, op2>>)
<1> DEFINE s == <<op1, op2>>
<1>1. IsSeq(s) /\ Len(s) = 2 /\ s[1] = op1 /\ s[2] = op2
  BY SeqTwo
<1> HIDE DEF s
<1>2. \A i \in 1 .. Len(s) : s[i] = op1 \/ s[i] = op2
  BY <1>1
<1>3. CallOps(s)
  BY <1>1, <1>2, CallsElement DEF CallOps
<1> QED BY <1>3 DEF s

LEMMA SendCalls ==
  ASSUME NEW to, NEW msg
  PROVE  CallOps(<<Send(to, msg)>>)
<1>1. Send(to, msg).k = "send"
  BY DEF Send
<1>2. CallOp(Send(to, msg))
  BY <1>1 DEF CallOp, Placed, SupervisorKinds
<1> QED BY <1>2, CallsOne

LEMMA LinkCalls ==
  ASSUME NEW a, NEW b
  PROVE  CallOps(Link(a, b))
BY SendCalls, CallsTwo DEF Link

LEMMA OnlyCallsCalls ==
  ASSUME NEW ops, OnlyCalls(ops)
  PROVE  CallOps(ops)
BY DEF OnlyCalls, CallOps, CallOp, Placed, CallKinds, SupervisorKinds, IsSeq

LEMMA CopiesCalls ==
  ASSUME BooksOK, NEW s \in Supervisors, NEW type, NEW msg
  PROVE  CallOps(Copies(s, type, msg))
<1> DEFINE b == Book(s, type)
           c == Copies(s, type, msg)
           N == Len(b)
           op(i) == [Send(b[i], msg) EXCEPT !.via = s]
<1>1. IsSeq(b)
  BY SeqEmpty DEF BooksOK, Book, Nodes
<1>2. N \in Nat /\ DOMAIN b = 1 .. N
  BY <1>1, SeqLen
<1>3. c = [i \in 1 .. N |-> op(i)]
  BY <1>2 DEF Copies
<1>4. \A i \in 1 .. N : op(i).k = "send"
  BY DEF Send
<1> HIDE DEF op, b, N
<1>5. c \in Seq({op(i) : i \in 1 .. N}) /\ Len(c) = N
  BY <1>2, <1>3
<1>6. \A i \in 1 .. N : c[i] = op(i)
  BY <1>3
<1>7. \A i \in 1 .. N : CallOp(c[i])
  BY <1>4, <1>6 DEF CallOp, Placed, SupervisorKinds
<1>8. IsSeq(c)
  BY <1>5, IsSeqIntro
<1> QED BY <1>5, <1>7, <1>8 DEF CallOps

\* The process dies, and nothing else changes.
HaltStep ==
  UNCHANGED <<program, script, stack, books, current, inbox, running, cursor, past>>

\* What t calls instead of its innermost operation.
Makes(t, ops) ==
  \/ ops = <<>> /\ (Op(t).k = "send" =>
                      Op(t).to \in Supervisors /\ ~Local(Op(t).to, Op(t).msg.cmd))
  \/ /\ Op(t).k = "exec"
     /\ LET msg == current[Op(t).at]
        IN  \/ /\ msg.cmd = "delegate"
               /\ \E type : ops = <<Tell(Op(t).at, type, Msg(Op(t).at, msg.body[2][2].cmd,
                                                          msg.body[2][2].body))>>
            \/ msg.cmd \in DOMAIN Signature[Op(t).at] /\ ops = App(Op(t).at, msg)
  \/ /\ Op(t).k = "tell"
     /\ \E a : /\ ops = <<Send(a, Op(t).msg)>>
               /\ a = NoAddress \/ \E type : LET book == Book(Op(t).at, type)
                                             IN  book # <<>> /\ a = Head(book)
  \/ Op(t).k \in {"introduce", "sync"} /\ \E a, b : ops = Link(a, b)
  \/ /\ Op(t).k \in {"cast", "each"}
     /\ \E type, done : ops = Copies(Op(t).at, type, Op(t).msg) \o
                                  <<Each(Op(t).at, done, Op(t).msg)>>
  \/ Op(t).k = "castto" /\ \E type : ops = Copies(Op(t).at, type, Op(t).msg)

\* t makes calls: it starts no handler, files nothing, and if it comes from a
\* handler then not from one of add_link or remove_link.
CallStep(t) ==
  /\ Op(t).k \notin {"run", "wake", "spawn", "know"}
  /\ Op(t).k = "exec" => current[Op(t).at].cmd \notin {"add_link", "remove_link"}
  /\ \E ops : CallOps(ops) /\ Makes(t, ops) /\ Becomes(t, ops)
  /\ UNCHANGED <<program, script, created, contacts, owned, current, inbox, running,
                 halted, asked, unlinked, handled, turns>>

LEMMA HaltIsStep ==
  ASSUME NEW why, NEW at, NEW type, Halt(why, at, type)
  PROVE  HaltStep
BY DEF Halt, HaltStep

LEMMA GotoIsCall ==
  ASSUME DOMAIN stack = Threads, NEW t \in Threads, NEW ops, CallOps(ops), Makes(t, ops), Goto(t, ops),
         Op(t).k \notin {"run", "wake", "spawn", "know"},
         Op(t).k = "exec" => current[Op(t).at].cmd \notin {"add_link", "remove_link"}
  PROVE  CallStep(t)
<1>1. Becomes(t, ops)
  BY ThenBecomes DEF Goto
<1> QED BY <1>1 DEF CallStep, Goto, books, past

LEMMA BaseHandlers ==
  ASSUME NEW n
  PROVE  /\ "add_link" \in DOMAIN Handlers(n) /\ "remove_link" \in DOMAIN Handlers(n)
         /\ n \notin Actors => "delegate" \in DOMAIN Handlers(n)
         /\ \A c \in DOMAIN Handlers(n) :
              c \in {"add_link", "remove_link", "delegate"} \/ c \in DOMAIN Signature[n]
<1> DEFINE base == IF n \in Actors THEN [add_link |-> <<>>, remove_link |-> <<>>]
                   ELSE [add_link |-> <<>>, remove_link |-> <<>>,
                         delegate |-> <<"string", "message">>]
<1>1. DOMAIN Handlers(n) = DOMAIN base \cup DOMAIN Signature[n]
  BY DEF Handlers, Merge
<1>2. CASE n \in Actors
  <2>1. DOMAIN base = {"add_link", "remove_link"}
    BY <1>2
  <2> QED BY <1>1, <1>2, <2>1
<1>3. CASE n \notin Actors
  <2>1. DOMAIN base = {"add_link", "remove_link", "delegate"}
    BY <1>3
  <2> QED BY <1>1, <1>3, <2>1
<1> QED BY <1>2, <1>3

LEMMA TopOp ==
  ASSUME ControlInv, NEW t \in Threads, stack[t] # <<>>
  PROVE  /\ 1 \in 1 .. Len(stack[t]) /\ stack[t][1] = Op(t)
         /\ Op(t).k = "exec" => Op(t).at \in Nodes
         /\ Op(t).k \in SupervisorKinds => Op(t).at \in Supervisors
         /\ Op(t).k \in {"run", "wake"} => Op(t).at \in Actors
         /\ Op(t).k = "know" => Op(t).new \in Nodes
<1>1. IsSeq(stack[t])
  BY DEF ControlInv, StackTypes
<1>2. Len(stack[t]) \in Nat \ {0} /\ Head(stack[t]) = stack[t][1]
  BY <1>1, SeqTail
<1>3. 1 \in 1 .. Len(stack[t]) /\ stack[t][1] = Op(t)
  BY <1>2 DEF Op
<1> QED BY <1>3 DEF ControlInv, ExecOK, PlacedOK, Placed, RunOK, StackTypes

LEMMA CallCases ==
  ASSUME ControlInv, BooksOK, HandlersOnlyCall, NEW t \in Threads,
         \/ SendNowhere(t) \/ DropMessage(t) \/ NoHandler(t) \/ BadCast(t) \/ Redirect(t)
         \/ AppHandler(t) \/ TellKnown(t) \/ TellUnknown(t) \/ DoIntroduce(t)
         \/ DoBroadcast(t) \/ DoBroadcastTo(t) \/ Sync(t) \/ Advance(t)
  PROVE  HaltStep \/ CallStep(t)
<1>1. DOMAIN stack = Threads
  BY DEF ControlInv, StackTypes
<1>2. ASSUME NEW k, At(t, k)
      PROVE  stack[t] # <<>> /\ Op(t).k = k
  BY <1>2 DEF At, Op
<1>3. CASE SendNowhere(t)
  BY <1>3, HaltIsStep DEF SendNowhere
<1>4. CASE DropMessage(t)
  <2>1. Op(t).k = "send" /\ Goto(t, <<>>) /\ Makes(t, <<>>)
    BY <1>2, <1>4 DEF DropMessage, Makes
  <2> QED BY <1>1, <2>1, CallsNone, GotoIsCall
<1>5. CASE NoHandler(t)
  <2>1. /\ Op(t).k = "exec" /\ current[Op(t).at].cmd \notin DOMAIN Handlers(Op(t).at)
        /\ HaltStep \/ Goto(t, <<>>)
    BY <1>2, <1>5, HaltIsStep DEF NoHandler
  <2>2. current[Op(t).at].cmd \notin {"add_link", "remove_link"}
    BY <2>1, BaseHandlers
  <2>3. Makes(t, <<>>)
    BY <2>1 DEF Makes
  <2> QED BY <1>1, <2>1, <2>2, <2>3, CallsNone, GotoIsCall
<1>6. CASE BadCast(t)
  BY <1>6, HaltIsStep DEF BadCast
<1>7. CASE Redirect(t)
  <2> DEFINE body == current[Op(t).at].body
             tell == Tell(Op(t).at, body[1][2], Msg(Op(t).at, body[2][2].cmd, body[2][2].body))
  <2>1. /\ Op(t).k = "exec" /\ current[Op(t).at].cmd = "delegate"
        /\ Goto(t, <<tell>>)
    BY <1>2, <1>7 DEF Redirect, Handling
  <2>2. tell.k = "tell"
    BY DEF Tell
  <2>3. Makes(t, <<tell>>)
    BY <2>1 DEF Makes
  <2> HIDE DEF tell
  <2>4. CallOps(<<tell>>)
    BY <2>2, CallsOne DEF CallOp, Placed, SupervisorKinds
  <2> QED BY <1>1, <2>1, <2>3, <2>4, GotoIsCall
<1>8. CASE AppHandler(t)
  <2> DEFINE n == Op(t).at
             msg == current[n]
  <2>1. /\ Op(t).k = "exec" /\ stack[t] # <<>>
        /\ msg.cmd \in DOMAIN Handlers(n)
        /\ msg.cmd \notin {"add_link", "remove_link", "delegate"}
        /\ Goto(t, App(n, msg))
    BY <1>2, <1>8 DEF AppHandler
  <2>2. n \in Nodes
    BY <2>1, TopOp
  <2>3. msg.cmd \in DOMAIN Signature[n]
    BY <2>1, BaseHandlers
  <2>4. Makes(t, App(n, msg))
    BY <2>1, <2>3 DEF Makes
  <2> HIDE DEF n, msg
  <2>5. CallOps(App(n, msg))
    BY <2>2, <2>3, OnlyCallsCalls DEF HandlersOnlyCall
  <2> QED BY <1>1, <2>1, <2>4, <2>5, GotoIsCall DEF n, msg
<1>9. CASE TellKnown(t)
  <2>1. PICK a : /\ Op(t).k = "tell" /\ Goto(t, <<Send(a, Op(t).msg)>>)
                 /\ Book(Op(t).at, Op(t).type) # <<>> /\ a = Head(Book(Op(t).at, Op(t).type))
    BY <1>2, <1>9 DEF TellKnown
  <2>2. Makes(t, <<Send(a, Op(t).msg)>>)
    BY <2>1 DEF Makes
  <2> QED BY <1>1, <2>1, <2>2, SendCalls, GotoIsCall
<1>10. CASE TellUnknown(t)
  <2>1. Op(t).k = "tell" /\ (HaltStep \/ Goto(t, <<Send(NoAddress, Op(t).msg)>>))
    BY <1>2, <1>10, HaltIsStep DEF TellUnknown
  <2>2. Makes(t, <<Send(NoAddress, Op(t).msg)>>)
    BY <2>1 DEF Makes
  <2> QED BY <1>1, <2>1, <2>2, SendCalls, GotoIsCall
<1>11. CASE DoIntroduce(t)
  <2>1. PICK a : Op(t).k = "introduce" /\ Goto(t, Link(a, Op(t).to))
    BY <1>2, <1>11 DEF DoIntroduce
  <2>2. Makes(t, Link(a, Op(t).to))
    BY <2>1 DEF Makes
  <2> QED BY <1>1, <2>1, <2>2, LinkCalls, GotoIsCall
<1>12. CASE DoBroadcast(t)
  <2> DEFINE b == Op(t).at
  <2>1. Op(t).k \in {"cast", "each"} /\ stack[t] # <<>>
    BY <1>2, <1>12 DEF DoBroadcast
  <2>2. b \in Supervisors
    BY <2>1, TopOp DEF SupervisorKinds
  <2>3. CASE Goto(t, <<>>)
    <3>1. Makes(t, <<>>)
      BY <2>1 DEF Makes
    <3> QED BY <1>1, <2>1, <2>3, <3>1, CallsNone, GotoIsCall
  <2>4. ASSUME NEW type,
               Goto(t, Copies(b, type, Op(t).msg) \o <<Each(b, Op(t).done \cup {type}, Op(t).msg)>>)
        PROVE  CallStep(t)
    <3> DEFINE each == Each(b, Op(t).done \cup {type}, Op(t).msg)
    <3>1. each.k = "each" /\ each.at = b
      BY DEF Each
    <3>a. Makes(t, Copies(b, type, Op(t).msg) \o <<each>>)
      BY <2>1 DEF Makes
    <3> HIDE DEF each, b
    <3>2. CallOps(<<each>>)
      BY <2>2, <3>1, CallsOne DEF CallOp, Placed
    <3>3. CallOps(Copies(b, type, Op(t).msg))
      BY <2>2, CopiesCalls
    <3>4. CallOps(Copies(b, type, Op(t).msg) \o <<each>>)
      BY <3>2, <3>3, CallsConcat
    <3> QED BY <1>1, <2>1, <2>4, <3>a, <3>4, GotoIsCall DEF each
  <2> QED BY <1>12, <2>3, <2>4 DEF DoBroadcast
<1>13. CASE DoBroadcastTo(t)
  <2>1. /\ Op(t).k = "castto" /\ stack[t] # <<>>
        /\ HaltStep \/ Goto(t, Copies(Op(t).at, Op(t).type, Op(t).msg))
    BY <1>2, <1>13, HaltIsStep DEF DoBroadcastTo
  <2>2. Op(t).at \in Supervisors
    BY <2>1, TopOp DEF SupervisorKinds
  <2>3. CallOps(Copies(Op(t).at, Op(t).type, Op(t).msg))
    BY <2>2, CopiesCalls
  <2>4. Makes(t, Copies(Op(t).at, Op(t).type, Op(t).msg))
    BY <2>1 DEF Makes
  <2> QED BY <1>1, <2>1, <2>3, <2>4, GotoIsCall
<1>14. CASE Sync(t)
  <2>1. /\ Op(t).k = "sync"
        /\ Goto(t, <<>>) \/ Goto(t, Link(current[Op(t).at].sender, Op(t).new))
    BY <1>2, <1>14 DEF Sync
  <2>2. Makes(t, <<>>) /\ Makes(t, Link(current[Op(t).at].sender, Op(t).new))
    BY <2>1 DEF Makes
  <2> QED BY <1>1, <2>1, <2>2, CallsNone, LinkCalls, GotoIsCall
<1>15. CASE Advance(t)
  <2>1. Op(t).k = "turn" /\ Becomes(t, <<>>)
    BY <1>1, <1>2, <1>15, ThenBecomes DEF Advance
  <2>2. Makes(t, <<>>)
    BY <2>1 DEF Makes
  <2> QED BY <1>15, <2>1, <2>2, CallsNone DEF CallStep, Advance, books, past
<1> QED BY <1>3, <1>4, <1>5, <1>6, <1>7, <1>8, <1>9, <1>10, <1>11, <1>12, <1>13, <1>14, <1>15

\* t creates an object.
SpawnStep(t) ==
  /\ Op(t).k = "spawn"
  /\ \E new \in Nodes \ created :
       /\ TypeOf[new] = Op(t).type /\ created' = created \cup {new}
       /\ owned' = IF new \in Actors THEN [owned EXCEPT ![Op(t).at] = Append(@, new)] ELSE owned
       /\ Becomes(t, SpawnOps(Op(t).at, new))
  /\ UNCHANGED <<program, script, contacts, current, inbox, running, cursor, halted, asked,
                 unlinked, handled>>

LEMMA FreshNode ==
  ASSUME NEW type, \E n \in Nodes \ created : TypeOf[n] = type
  PROVE  Fresh(type) \in Nodes \ created /\ TypeOf[Fresh(type)] = type
BY DEF Fresh

LEMMA SpawnIsStep ==
  ASSUME DOMAIN stack = Threads, NEW t \in Threads, DoSpawn(t)
  PROVE  SpawnStep(t)
<1>1. PICK new : new = Fresh(Op(t).type)
  OBVIOUS
<1>2. new \in Nodes \ created /\ TypeOf[new] = Op(t).type
  BY <1>1, FreshNode DEF DoSpawn
<1>3. /\ Op(t).k = "spawn" /\ created' = created \cup {new} /\ Then(t, SpawnOps(Op(t).at, new))
      /\ owned' = IF new \in Actors THEN [owned EXCEPT ![Op(t).at] = Append(@, new)] ELSE owned
      /\ UNCHANGED <<program, script, contacts, current, inbox, running, cursor, halted, asked,
                     unlinked, handled>>
  BY <1>1 DEF DoSpawn, At, Op
<1>4. Becomes(t, SpawnOps(Op(t).at, new))
  BY <1>3, ThenBecomes
<1> QED BY <1>2, <1>3, <1>4 DEF SpawnStep

\* What a spawn calls: perhaps a broadcast, add_link_impl, enqueue and sync.
LEMMA SpawnForm ==
  ASSUME NEW s \in Supervisors, NEW new
  PROVE  LET ops == SpawnOps(s, new)
             N == Len(ops)
         IN  /\ IsSeq(ops) /\ N \in {3, 4} /\ (N = 4 <=> Routing[s] = "lite")
             /\ N = 4 => ops[1].k = "cast" /\ ops[1].at = s /\ ops[1].msg.cmd = "spawn_broadcast"
             /\ ops[N - 2] = [k |-> "know", at |-> s, new |-> new]
             /\ ops[N - 1] = Send(new, Msg(s, "add_link", <<>>))
             /\ ops[N] = [k |-> "sync", at |-> s, new |-> new, cause |-> current[s]]
<1> DEFINE msg == Msg(s, "spawn_broadcast", << <<"address", s>>, <<"address", new>> >>)
           bc == Broadcast(s, TypeOf[s], msg)
           know == [k |-> "know", at |-> s, new |-> new]
           send == Send(new, Msg(s, "add_link", <<>>))
           sync == [k |-> "sync", at |-> s, new |-> new, cause |-> current[s]]
           A == Announce(s, new)
           B == <<know, send, sync>>
<1>1. SpawnOps(s, new) = A \o B
  BY DEF SpawnOps
<1>2. A = IF Routing[s] = "lite" THEN <<bc>> ELSE <<>>
  BY DEF Announce
<1>3. bc.k = "cast" /\ bc.at = s /\ bc.msg.cmd = "spawn_broadcast"
  BY DEF Broadcast, Msg
<1> HIDE DEF bc, know, send, sync
<1>4. IsSeq(B) /\ Len(B) = 3 /\ B[1] = know /\ B[2] = send /\ B[3] = sync
  BY SeqThree
<1>5. /\ IsSeq(A) /\ Len(A) = (IF Routing[s] = "lite" THEN 1 ELSE 0)
      /\ Routing[s] = "lite" => A[1] = bc
  BY <1>2, SeqOne, SeqEmpty
<1> HIDE DEF A, B
<1> DEFINE ops == A \o B
<1>6. /\ IsSeq(ops) /\ Len(ops) = Len(A) + Len(B)
      /\ \A i \in 1 .. Len(A) : ops[i] = A[i]
      /\ \A i \in 1 .. Len(B) : ops[Len(A) + i] = B[i]
  <2>1. IsSeq(A) /\ IsSeq(B)
    BY <1>4, <1>5
  <2> QED BY <2>1, SeqConcat
<1> HIDE DEF ops
<1>7. CASE Routing[s] = "lite"
  <2>1. Len(A) = 1 /\ Len(ops) = 4
    BY <1>4, <1>5, <1>6, <1>7
  <2>2. ops[1] = bc /\ ops[2] = know /\ ops[3] = send /\ ops[4] = sync
    BY <1>4, <1>5, <1>6, <1>7, <2>1
  <2> QED BY <1>1, <1>3, <1>6, <1>7, <2>1, <2>2 DEF ops, know, send, sync
<1>8. CASE Routing[s] # "lite"
  <2>1. Len(A) = 0 /\ Len(ops) = 3
    BY <1>4, <1>5, <1>6, <1>8
  <2>2. ops[1] = know /\ ops[2] = send /\ ops[3] = sync
    BY <1>4, <1>6, <2>1
  <2>3. Len(ops) - 2 = 1 /\ Len(ops) - 1 = 2 /\ Len(ops) # 4
    BY <2>1
  <2> QED BY <1>1, <1>6, <1>8, <2>1, <2>2, <2>3 DEF ops, know, send, sync
<1> QED BY <1>7, <1>8

LEMMA SpawnKinds ==
  ASSUME NEW s \in Supervisors, NEW new
  PROVE  LET ops == SpawnOps(s, new)
         IN  /\ IsSeq(ops)
             /\ \A i \in 1 .. Len(ops) : /\ ops[i].k \in {"know", "send", "sync", "cast"}
                                         /\ ops[i].k # "send" => ops[i].at = s
                                         /\ ops[i].k = "know" => ops[i].new = new
<1> DEFINE ops == SpawnOps(s, new)
           N == Len(ops)
<1>1. /\ IsSeq(ops) /\ N \in {3, 4}
      /\ N = 4 => ops[1].k = "cast" /\ ops[1].at = s
      /\ ops[N - 2] = [k |-> "know", at |-> s, new |-> new]
      /\ ops[N - 1] = Send(new, Msg(s, "add_link", <<>>))
      /\ ops[N] = [k |-> "sync", at |-> s, new |-> new, cause |-> current[s]]
  BY SpawnForm
<1>2. /\ ops[N - 2].k = "know" /\ ops[N - 2].at = s /\ ops[N - 2].new = new
      /\ ops[N - 1].k = "send"
      /\ ops[N].k = "sync" /\ ops[N].at = s
  BY <1>1 DEF Send
<1> HIDE DEF ops
<1>3. \A i \in 1 .. N : i = N - 2 \/ i = N - 1 \/ i = N \/ (i = 1 /\ N = 4)
  BY <1>1
<1> HIDE DEF N
<1>4. \A i \in 1 .. N : /\ ops[i].k \in {"know", "send", "sync", "cast"}
                        /\ ops[i].k # "send" => ops[i].at = s
                        /\ ops[i].k = "know" => ops[i].new = new
  BY <1>1, <1>2, <1>3
<1> QED BY <1>1, <1>4 DEF ops, N

LEMMA SpawnPlain ==
  ASSUME NEW s \in Supervisors, NEW new \in Nodes
  PROVE  PlainOps(SpawnOps(s, new))
<1> DEFINE ops == SpawnOps(s, new)
<1>1. /\ IsSeq(ops)
      /\ \A i \in 1 .. Len(ops) : /\ ops[i].k \in {"know", "send", "sync", "cast"}
                                  /\ ops[i].k # "send" => ops[i].at = s
                                  /\ ops[i].k = "know" => ops[i].new = new
  BY SpawnKinds
<1> HIDE DEF ops
<1>2. PlainOps(ops)
  BY <1>1 DEF PlainOps, Placed, SupervisorKinds
<1> QED BY <1>2 DEF ops

LEMMA CallsArePlain ==
  ASSUME NEW ops, CallOps(ops)
  PROVE  PlainOps(ops)
BY DEF CallOps, CallOp, PlainOps

LEMMA EmptyConcat ==
  ASSUME NEW s, IsSeq(s)
  PROVE  <<>> \o s = s /\ s \o <<>> = s
<1>1. s \in Seq(ToSet(s))
  BY DEF IsSeq
<1> QED BY <1>1, ConcatEmptySeq

\* Where an actor that has got a message runs.
DeliverStack(t, a) ==
  \/ a \in running /\ Becomes(t, <<>>)
  \/ a \notin running /\ Inline[program] /\ Becomes(t, <<Run(a)>>)
  \/ /\ a \notin running /\ ~Inline[program] /\ a # t /\ stack[a] = <<>>
     /\ stack'[t] = Tail(stack[t]) /\ stack'[a] = <<Run(a)>> /\ DOMAIN stack' = Threads
     /\ \A u \in Threads : u \notin {t, a} => stack'[u] = stack[u]

LEMMA DeliverCases ==
  ASSUME ControlInv, NEW t \in Threads, stack[t] # <<>>, NEW a \in Actors, Op(t).at = a,
         Schedule(t)
  PROVE  DeliverStack(t, a)
<1>1. /\ DOMAIN stack = Threads /\ a \in Threads /\ IsSeq(stack[t]) /\ IsSeq(stack[a])
      /\ Inline[program] \in BOOLEAN
  BY TablesAssumption DEF ControlInv, StackTypes, Threads
<1>2. IsSeq(Tail(stack[t]))
  BY <1>1, SeqTail
<1> DEFINE rest == [stack EXCEPT ![t] = Tail(@)]
           on == IF Inline[program] THEN t ELSE a
<1>3. stack' = IF a \in running THEN rest ELSE [rest EXCEPT ![on] = <<Run(a)>> \o @]
  BY DEF Schedule
<1>4. DOMAIN rest = Threads /\ rest[t] = Tail(stack[t])
      /\ \A u \in Threads : u # t => rest[u] = stack[u]
  BY <1>1
<1> HIDE DEF rest
<1>5. CASE a \in running
  <2>1. stack' = rest
    BY <1>3, <1>5
  <2>2. <<>> \o Tail(stack[t]) = Tail(stack[t])
    BY <1>2, EmptyConcat
  <2>3. Becomes(t, <<>>)
    BY <1>4, <2>1, <2>2 DEF Becomes, Replaces
  <2> QED BY <1>5, <2>3 DEF DeliverStack
<1>6. CASE a \notin running /\ Inline[program]
  <2>1. stack' = [rest EXCEPT ![t] = <<Run(a)>> \o @]
    BY <1>3, <1>6
  <2>2. Becomes(t, <<Run(a)>>)
    BY <1>4, <2>1 DEF Becomes, Replaces
  <2> QED BY <1>6, <2>2 DEF DeliverStack
<1>7. CASE a \notin running /\ ~Inline[program]
  <2>1. stack' = [rest EXCEPT ![a] = <<Run(a)>> \o @]
    BY <1>3, <1>7
  <2>2. stack[a] = <<>>
    <3> SUFFICES ASSUME stack[a] # <<>> PROVE FALSE
      OBVIOUS
    <3>1. Len(stack[a]) \in Nat \ {0}
      BY <1>1, SeqLen
    <3>2. Len(stack[a]) \in 1 .. Len(stack[a])
      BY <3>1
    <3>3. stack[a][Len(stack[a])].k = "run" /\ stack[a][Len(stack[a])].at = a
      BY DEF ControlInv, BottomOK
    <3>4. a \in running
      BY <1>1, <3>2, <3>3 DEF ControlInv, RunOK
    <3> QED BY <1>7, <3>4
  <2>3. a # t
    BY <2>2
  <2>4. /\ DOMAIN stack' = Threads /\ stack'[a] = <<Run(a)>> \o rest[a]
        /\ \A u \in Threads : u # a => stack'[u] = rest[u]
    BY <1>1, <1>4, <2>1
  <2>5. rest[a] = <<>>
    BY <1>1, <1>4, <2>2, <2>3
  <2>6. stack'[a] = <<Run(a)>>
    BY <2>4, <2>5, SeqOne, EmptyConcat
  <2> QED BY <1>4, <1>7, <2>2, <2>3, <2>4, <2>6 DEF DeliverStack
<1> QED BY <1>1, <1>5, <1>6, <1>7

LEMMA ControlDeliver ==
  ASSUME ControlInv, NEW t \in Threads, stack[t] # <<>>, Op(t).k # "run", NEW a \in Actors,
         DeliverStack(t, a), running' = running \cup {a}, UNCHANGED <<program, script>>
  PROVE  ControlInv'
<1>1. CASE a \in running /\ Becomes(t, <<>>)
  <2>1. running' = running
    BY <1>1
  <2> QED BY <1>1, <2>1, CallsNone, CallsArePlain, ControlPlain
<1>2. CASE a \notin running /\ Inline[program] /\ Becomes(t, <<Run(a)>>)
  BY <1>2, ControlInline
<1>3. CASE /\ a \notin running /\ ~Inline[program] /\ a # t /\ stack[a] = <<>>
           /\ stack'[t] = Tail(stack[t]) /\ stack'[a] = <<Run(a)>> /\ DOMAIN stack' = Threads
           /\ \A u \in Threads : u \notin {t, a} => stack'[u] = stack[u]
  BY <1>3, ControlDispatch
<1> QED BY <1>1, <1>2, <1>3 DEF DeliverStack

\* redirect_robin's actor is one of the supervisor's.
LEMMA RobinActor ==
  ASSUME RobinInv, NEW s \in Supervisors, owned[s] # <<>>
  PROVE  owned[s][cursor[s] + 1] \in Actors \cap created
<1>1. owned[s] \in Seq(Actors) /\ cursor[s] \in Nat
  BY DEF RobinInv, TurnTypes
<1>2. Len(owned[s]) # 0 /\ Len(owned[s]) \in Nat
  BY <1>1
<1>3. cursor[s] < Len(owned[s])
  BY <1>2 DEF RobinInv, CursorOK
<1>4. cursor[s] + 1 \in 1 .. Len(owned[s])
  BY <1>1, <1>2, <1>3
<1> QED BY <1>1, <1>4 DEF RobinInv, TeamsOK

\* The actor that t sends to, or one a supervisor redirects to.
Receives(t, a) ==
  \/ a = Op(t).to
  \/ /\ Op(t).to \in Supervisors /\ ~Local(Op(t).to, Op(t).msg.cmd)
     /\ owned[Op(t).to] # <<>> /\ a \in created

\* What is left of the enqueue then.
PostOps(t, a, ops) ==
  \/ ops = <<Wake(a)>>
  \/ RedirectRobin(t) /\ ops = <<Wake(a), Turn(Op(t).to)>>

LEMMA PostForm ==
  ASSUME NEW t, NEW a \in Actors, NEW ops, PostOps(t, a, ops)
  PROVE  /\ PlainOps(ops) /\ Len(ops) \in {1, 2} /\ ops[1] = Wake(a)
         /\ Len(ops) = 2 => Op(t).to \in Supervisors /\ ops[2] = Turn(Op(t).to)
         /\ \A i \in 1 .. Len(ops) : \/ i = 1 /\ ops[i].k = "wake" /\ ops[i].at = a
                                     \/ i = 2 /\ ops[i].k = "turn" /\ ops[i].at = Op(t).to
<1>1. /\ IsSeq(ops) /\ Len(ops) \in {1, 2} /\ ops[1] = Wake(a)
      /\ Len(ops) = 2 => Op(t).to \in Supervisors /\ ops[2] = Turn(Op(t).to)
  BY SeqOne, SeqTwo DEF PostOps, RedirectRobin
<1>2. \A i \in 1 .. Len(ops) : i = 1 \/ (i = 2 /\ Len(ops) = 2)
  <2> DEFINE N == Len(ops)
  <2>1. N \in {1, 2}
    BY <1>1
  <2> HIDE DEF N
  <2>2. \A i \in 1 .. N : i = 1 \/ (i = 2 /\ N = 2)
    BY <2>1
  <2> QED BY <2>2 DEF N
<1>3. /\ Wake(a).k = "wake" /\ Wake(a).at = a
      /\ Turn(Op(t).to).k = "turn" /\ Turn(Op(t).to).at = Op(t).to
  BY DEF Wake, Turn
<1>4. \A i \in 1 .. Len(ops) :
        \/ i = 1 /\ ops[i].k = "wake" /\ ops[i].at = a
        \/ /\ i = 2 /\ ops[i].k = "turn" /\ ops[i].at = Op(t).to
           /\ Op(t).to \in Supervisors
  BY <1>1, <1>2, <1>3
<1>5. PlainOps(ops)
  BY <1>1, <1>4 DEF PlainOps, Placed, SupervisorKinds
<1> QED BY <1>1, <1>4, <1>5

\* t pushes a message into an actor's mailbox ...
PostStep(t) ==
  \E a \in Actors :
    /\ Op(t).k = "send" /\ Post(a, Op(t).msg) /\ Receives(t, a)
    /\ \E ops : PostOps(t, a, ops) /\ Becomes(t, ops)
    /\ UNCHANGED <<program, script, books, current, running, cursor, halted, handled>>

\* ... and has it run.
ScheduleStep(t) ==
  /\ Op(t).k = "wake" /\ Op(t).at \in Actors /\ DeliverStack(t, Op(t).at)
  /\ running' = running \cup {Op(t).at}
  /\ UNCHANGED <<program, script, books, current, inbox, cursor, halted, past>>

LEMMA PostIsStep ==
  ASSUME ControlInv, RobinInv, NEW t \in Threads, SendToActor(t) \/ RedirectRobin(t)
  PROVE  PostStep(t)
<1>1. Op(t).k = "send" /\ DOMAIN stack = Threads
  BY DEF SendToActor, RedirectRobin, At, Op, ControlInv, StackTypes
<1>2. CASE SendToActor(t)
  <2>1. /\ Op(t).to \in Actors /\ Post(Op(t).to, Op(t).msg) /\ Then(t, <<Wake(Op(t).to)>>)
        /\ UNCHANGED <<program, script, books, current, running, cursor, halted, handled>>
    BY <1>2 DEF SendToActor
  <2>2. Becomes(t, <<Wake(Op(t).to)>>)
    BY <1>1, <2>1, ThenBecomes
  <2> QED BY <1>1, <2>1, <2>2 DEF PostStep, PostOps, Receives
<1>3. CASE RedirectRobin(t)
  <2> DEFINE a == owned[Op(t).to][cursor[Op(t).to] + 1]
             ops == <<Wake(a), Turn(Op(t).to)>>
  <2>1. /\ Op(t).to \in Supervisors /\ owned[Op(t).to] # <<>> /\ Post(a, Op(t).msg)
        /\ Then(t, ops) /\ ~Local(Op(t).to, Op(t).msg.cmd)
        /\ UNCHANGED <<program, script, books, current, running, cursor, halted, handled>>
    BY <1>3 DEF RedirectRobin
  <2>2. a \in Actors /\ a \in created
    BY <2>1, RobinActor
  <2>3. Becomes(t, ops)
    BY <1>1, <2>1, ThenBecomes
  <2>4. PostOps(t, a, ops)
    BY <1>3 DEF PostOps
  <2> HIDE DEF a, ops
  <2> QED BY <1>1, <2>1, <2>2, <2>3, <2>4 DEF PostStep, Receives
<1> QED BY <1>2, <1>3

LEMMA ScheduleIsStep ==
  ASSUME ControlInv, NEW t \in Threads, Schedule(t)
  PROVE  ScheduleStep(t)
<1>1. Op(t).k = "wake" /\ stack[t] # <<>>
  BY DEF Schedule, At, Op
<1>2. Op(t).at \in Actors
  BY <1>1, TopOp
<1>3. DeliverStack(t, Op(t).at)
  BY <1>1, <1>2, DeliverCases
<1> QED BY <1>1, <1>2, <1>3 DEF Schedule, ScheduleStep

\* n files a.
Files(n, a) ==
  contacts' = IF a = n THEN contacts ELSE [contacts EXCEPT ![n] = Acquainted(n, a)]

\* The message n handles has lost its sender.
Emptied(n) == [current EXCEPT ![n] = Msg(NoAddress, current[n].cmd, current[n].body)]

FileStep(t) ==
  /\ Op(t).k = "exec" /\ current[Op(t).at].cmd = "add_link"
  /\ current[Op(t).at].sender # NoAddress
  /\ Files(Op(t).at, current[Op(t).at].sender) /\ Becomes(t, <<>>)
  /\ current' \in {current, Emptied(Op(t).at)}
  /\ UNCHANGED <<program, script, created, owned, inbox, running, cursor, past>>

KnowStep(t) ==
  /\ Op(t).k = "know" /\ Files(Op(t).at, Op(t).new) /\ Ask(Op(t).at, Op(t).new)
  /\ Becomes(t, <<>>)
  /\ UNCHANGED <<program, script, created, owned, current, inbox, running, cursor, unlinked>>

\* c is what n knew, but for some or all it knew under the type of a.
Forgets(n, a, c) ==
  /\ DOMAIN c \subseteq DOMAIN contacts[n]
  /\ \A T \in DOMAIN contacts[n] : T # TypeOf[a] => T \in DOMAIN c /\ c[T] = contacts[n][T]
  /\ TypeOf[a] \in DOMAIN c =>
       /\ n \notin Actors /\ IsSeq(c[TypeOf[a]])
       /\ \A i \in 1 .. Len(c[TypeOf[a]]) : \E j \in 1 .. Len(contacts[n][TypeOf[a]]) :
            c[TypeOf[a]][i] = contacts[n][TypeOf[a]][j]

RemoveStep(t) ==
  /\ Op(t).k = "exec" /\ current[Op(t).at].cmd = "remove_link"
  /\ current[Op(t).at].sender # NoAddress
  /\ \E c : /\ Forgets(Op(t).at, current[Op(t).at].sender, c)
            /\ contacts' = [contacts EXCEPT ![Op(t).at] = c]
  /\ Becomes(t, <<>>)
  /\ UNCHANGED <<program, script, created, owned, current, inbox, running, cursor, past>>

\* run's last look.
LookStep(t) ==
  /\ Op(t).k = "run" /\ Becomes(t, <<RunOver(Op(t).at)>>)
  /\ UNCHANGED <<program, script, books, current, inbox, running, cursor, halted, past>>

LEMMA LookIsStep ==
  ASSUME DOMAIN stack = Threads, NEW t \in Threads, LastLook(t)
  PROVE  LookStep(t)
<1>1. Op(t).k = "run" /\ Goto(t, <<RunOver(Op(t).at)>>)
  BY DEF LastLook, At, Op
<1>2. Becomes(t, <<RunOver(Op(t).at)>>)
  BY <1>1, ThenBecomes DEF Goto
<1> QED BY <1>1, <1>2 DEF LookStep, Goto

LEMMA MeetFiles ==
  ASSUME DOMAIN stack = Threads, NEW t \in Threads, NEW n, NEW a, Meet(t, n, a)
  PROVE  /\ Files(n, a) /\ Becomes(t, <<>>)
         /\ UNCHANGED <<program, script, created, owned, inbox, running,
                        cursor, halted, unlinked, handled, turns>>
<1>1. Then(t, <<>>)
  BY DEF Meet
<1>2. Becomes(t, <<>>)
  BY <1>1, ThenBecomes
<1> QED BY <1>2 DEF Meet, Files

LEMMA AddLinkCases ==
  ASSUME DOMAIN stack = Threads, NEW t \in Threads, AddLink(t)
  PROVE  HaltStep \/ FileStep(t)
<1> DEFINE n == Op(t).at
           a == current[n].sender
<1>1. /\ Op(t).k = "exec" /\ current[n].cmd = "add_link"
      /\ \/ Halt("null", n, "add_link")
         \/ /\ a # NoAddress /\ Meet(t, n, a) /\ current' \in {current, Emptied(n)}
            /\ UNCHANGED asked
  BY DEF AddLink, Handling, At, Op, Emptied
<1> HIDE DEF n, a
<1>2. Meet(t, n, a) =>
        /\ Files(n, a) /\ Becomes(t, <<>>)
        /\ UNCHANGED <<program, script, created, owned, inbox, running,
                       cursor, halted, unlinked, handled, turns>>
  BY MeetFiles
<1> QED BY <1>1, <1>2, HaltIsStep DEF FileStep, n, a, past

LEMMA KnowIsStep ==
  ASSUME DOMAIN stack = Threads, NEW t \in Threads, Know(t)
  PROVE  KnowStep(t)
<1> DEFINE n == Op(t).at
           a == Op(t).new
<1>1. Op(t).k = "know" /\ Meet(t, n, a) /\ Ask(n, a) /\ UNCHANGED current
  BY DEF Know, At, Op
<1> HIDE DEF n, a
<1>2. /\ Files(n, a) /\ Becomes(t, <<>>)
      /\ UNCHANGED <<program, script, created, owned, inbox, running,
                     cursor, halted, unlinked, handled, turns>>
  BY <1>1, MeetFiles
<1> QED BY <1>1, <1>2 DEF KnowStep, n, a

LEMMA RemoveActorCases ==
  ASSUME ControlInv, BooksOK, NEW t \in Threads, RemoveLinkActor(t)
  PROVE  HaltStep \/ RemoveStep(t)
<1> DEFINE n == Op(t).at
           a == current[n].sender
           c == [x \in DOMAIN contacts[n] \ {TypeOf[a]} |-> contacts[n][x]]
<1>1. Op(t).k = "exec" /\ current[n].cmd = "remove_link" /\ n \in Actors
  BY DEF RemoveLinkActor, Handling, At, Op
<1>2. n \in DOMAIN contacts
  BY <1>1 DEF BooksOK, Nodes
<1>3. \/ HaltStep
      \/ /\ a # NoAddress /\ contacts' = [contacts EXCEPT ![n] = c] /\ Then(t, <<>>)
         /\ UNCHANGED <<program, script, created, owned, current, inbox, running, cursor, past>>
  BY HaltIsStep DEF RemoveLinkActor
<1>4. Forgets(n, a, c)
  BY DEF Forgets
<1>5. Then(t, <<>>) => Becomes(t, <<>>)
  BY ThenBecomes DEF ControlInv, StackTypes
<1> QED BY <1>1, <1>3, <1>4, <1>5 DEF RemoveStep

LEMMA RemoveSupervisorCases ==
  ASSUME ControlInv, BooksOK, NEW t \in Threads, RemoveLinkSupervisor(t)
  PROVE  HaltStep \/ RemoveStep(t)
<1> DEFINE n == Op(t).at
           a == current[n].sender
           list == Book(n, TypeOf[a])
           kept == {i \in DOMAIN list : list[i] # a}
           c(f) == [x \in DOMAIN contacts[n] |->
                      IF x = TypeOf[a] THEN [i \in DOMAIN f |-> list[f[i]]] ELSE contacts[n][x]]
<1>1. Op(t).k = "exec" /\ current[n].cmd = "remove_link" /\ n \in Supervisors
  BY DEF RemoveLinkSupervisor, Handling, At, Op
<1>2. n \in Nodes /\ n \notin Actors /\ n \in DOMAIN contacts
  BY <1>1, NodesAssumption DEF BooksOK, Nodes
<1>3. \/ HaltStep
      \/ /\ a # NoAddress /\ Then(t, <<>>)
         /\ \E f \in Ascending(kept) : contacts' = [contacts EXCEPT ![n] = c(f)]
         /\ UNCHANGED <<program, script, created, owned, current, inbox, running, cursor, past>>
  BY HaltIsStep DEF RemoveLinkSupervisor
<1>4. IsSeq(list)
  BY <1>2, SeqEmpty DEF BooksOK, Book
<1>5. DOMAIN list = 1 .. Len(list) /\ Len(list) \in Nat
  BY <1>4, SeqLen
<1>6. ASSUME NEW f \in Ascending(kept)
      PROVE  Forgets(n, a, c(f))
  <2>1. IsFiniteSet(1 .. Len(list)) /\ kept \subseteq 1 .. Len(list)
    BY <1>5, FS_Interval
  <2>2. IsFiniteSet(kept) /\ Cardinality(kept) \in Nat
    BY <2>1, FS_Subset, FS_CardinalityType
  <2> DEFINE N == Cardinality(kept)
             d == [i \in DOMAIN f |-> list[f[i]]]
  <2>3. f \in [1 .. N -> kept]
    BY DEF Ascending
  <2> HIDE DEF N
  <2>4. d = [i \in 1 .. N |-> list[f[i]]] /\ N \in Nat
    BY <2>2, <2>3 DEF N
  <2>5. d \in Seq({list[f[i]] : i \in 1 .. N}) /\ Len(d) = N
    BY <2>4
  <2>6. IsSeq(d)
    BY <2>5, IsSeqIntro
  <2>7. \A i \in 1 .. Len(d) : \E j \in 1 .. Len(list) : d[i] = list[j]
    <3> TAKE i \in 1 .. Len(d)
    <3>1. f[i] \in 1 .. Len(list) /\ d[i] = list[f[i]]
      BY <2>1, <2>3, <2>4, <2>5
    <3> QED BY <3>1
  <2> HIDE DEF d, kept
  <2>8. c(f) = [x \in DOMAIN contacts[n] |-> IF x = TypeOf[a] THEN d ELSE contacts[n][x]]
    BY DEF d
  <2>9. TypeOf[a] \in DOMAIN contacts[n] => list = contacts[n][TypeOf[a]]
    BY DEF Book
  <2> HIDE DEF list, c
  <2>10. DOMAIN c(f) = DOMAIN contacts[n]
    BY <2>8
  <2>11. \A T \in DOMAIN contacts[n] : T # TypeOf[a] => T \in DOMAIN c(f) /\ c(f)[T] = contacts[n][T]
    BY <2>8
  <2>12. ASSUME TypeOf[a] \in DOMAIN c(f)
         PROVE  c(f)[TypeOf[a]] = d /\ list = contacts[n][TypeOf[a]]
    BY <2>8, <2>9, <2>10, <2>12
  <2> HIDE DEF n, a
  <2>13. TypeOf[a] \in DOMAIN c(f) =>
           /\ n \notin Actors /\ IsSeq(c(f)[TypeOf[a]])
           /\ \A i \in 1 .. Len(c(f)[TypeOf[a]]) : \E j \in 1 .. Len(contacts[n][TypeOf[a]]) :
                c(f)[TypeOf[a]][i] = contacts[n][TypeOf[a]][j]
    BY <1>2, <2>6, <2>7, <2>12
  <2> QED BY <2>10, <2>11, <2>13 DEF Forgets
<1>7. Then(t, <<>>) => Becomes(t, <<>>)
  BY ThenBecomes DEF ControlInv, StackTypes
<1> HIDE DEF kept, c
<1> QED BY <1>1, <1>3, <1>6, <1>7 DEF RemoveStep

LEMMA StepCases ==
  ASSUME ControlInv, BooksOK, RobinInv, HandlersOnlyCall, NEW t \in Threads, Step(t)
  PROVE  /\ stack[t] # <<>> /\ halted = Alive
         /\ \/ HaltStep \/ CallStep(t) \/ SpawnStep(t) \/ PostStep(t) \/ ScheduleStep(t)
            \/ SendToSupervisor(t) \/ FileStep(t) \/ KnowStep(t) \/ RemoveStep(t)
            \/ Consume(t) \/ LookStep(t) \/ Rest(t)
<1>0. DOMAIN stack = Threads
  BY DEF ControlInv, StackTypes
<1>1. stack[t] # <<>> /\ halted = Alive
  <2>1. ASSUME NEW k, At(t, k)
        PROVE  stack[t] # <<>> /\ halted = Alive
    BY <2>1 DEF At
  <2>2. CASE SendToActor(t) \/ Schedule(t) \/ SendNowhere(t) \/ SendToSupervisor(t)
             \/ DropMessage(t) \/ RedirectRobin(t) \/ Advance(t)
    BY <2>1, <2>2 DEF SendToActor, Schedule, SendNowhere, SendToSupervisor, RedirectRobin,
                      Advance, DropMessage
  <2>3. CASE NoHandler(t) \/ BadCast(t) \/ AddLink(t) \/ RemoveLinkActor(t)
             \/ RemoveLinkSupervisor(t) \/ Redirect(t) \/ AppHandler(t)
    BY <2>1, <2>3 DEF NoHandler, BadCast, AddLink, RemoveLinkActor, RemoveLinkSupervisor,
                      Redirect, AppHandler, Handling
  <2>4. CASE TellKnown(t) \/ TellUnknown(t) \/ DoIntroduce(t) \/ DoBroadcast(t)
             \/ DoBroadcastTo(t)
    BY <2>1, <2>4 DEF TellKnown, TellUnknown, DoIntroduce, DoBroadcast, DoBroadcastTo
  <2>5. CASE DoSpawn(t) \/ Know(t) \/ Sync(t) \/ Consume(t) \/ LastLook(t) \/ Rest(t)
    BY <2>1, <2>5 DEF DoSpawn, Know, Sync, Consume, LastLook, Rest
  <2> QED BY <2>2, <2>3, <2>4, <2>5 DEF Step
<1>2. CASE SendToActor(t) \/ RedirectRobin(t)
  BY <1>1, <1>2, PostIsStep
<1>3. CASE AddLink(t)
  BY <1>0, <1>1, <1>3, AddLinkCases
<1>4. CASE RemoveLinkActor(t)
  BY <1>1, <1>4, RemoveActorCases
<1>5. CASE RemoveLinkSupervisor(t)
  BY <1>1, <1>5, RemoveSupervisorCases
<1>6. CASE Know(t)
  BY <1>0, <1>1, <1>6, KnowIsStep
<1>7. CASE SendToSupervisor(t) \/ Consume(t) \/ Rest(t)
  BY <1>1, <1>7
<1>8. CASE \/ SendNowhere(t) \/ DropMessage(t) \/ NoHandler(t) \/ BadCast(t) \/ Redirect(t)
           \/ AppHandler(t) \/ TellKnown(t) \/ TellUnknown(t) \/ DoIntroduce(t)
           \/ DoBroadcast(t) \/ DoBroadcastTo(t) \/ Sync(t) \/ Advance(t)
  BY <1>1, <1>8, CallCases
<1>9. CASE DoSpawn(t)
  BY <1>0, <1>1, <1>9, SpawnIsStep
<1>10. CASE Schedule(t)
  BY <1>1, <1>10, ScheduleIsStep
<1>11. CASE LastLook(t)
  BY <1>0, <1>1, <1>11, LookIsStep
<1> QED BY <1>2, <1>3, <1>4, <1>5, <1>6, <1>7, <1>8, <1>9, <1>10, <1>11 DEF Step

-----------------------------------------------------------------------------
(* Every state is well formed                                               *)

LEMMA StackEffects ==
  ASSUME ControlInv, NEW t \in Threads, stack[t] # <<>>, Consume(t) \/ Rest(t)
  PROVE  /\ Op(t).k = "run" /\ DOMAIN stack' = Threads
         /\ \A u \in Threads : u # t => stack'[u] = stack[u]
         /\ Consume(t) => stack'[t] = <<Exec(Op(t).at)>> \o stack[t]
         /\ Rest(t) => stack'[t] = Tail(stack[t])
<1>1. DOMAIN stack = Threads /\ IsSeq(Tail(stack[t]))
  BY SeqTail DEF ControlInv, StackTypes
<1>2. Op(t).k = "run"
  BY DEF Consume, Rest, At, Op
<1>3. CASE Consume(t)
  <2>1. stack' = [stack EXCEPT ![t] = <<Exec(Op(t).at)>> \o @]
    BY <1>3 DEF Consume
  <2>2. ~Rest(t)
    BY <1>3 DEF Consume, Rest
  <2> QED BY <1>1, <1>2, <2>1, <2>2
<1>4. CASE Rest(t)
  <2>1. Becomes(t, <<>>)
    BY <1>1, <1>4, ThenBecomes DEF Rest
  <2>2. stack'[t] = Tail(stack[t])
    BY <1>1, <2>1, EmptyConcat DEF Becomes, Replaces
  <2>3. ~Consume(t)
    BY <1>4 DEF Consume, Rest
  <2> QED BY <1>2, <2>1, <2>2, <2>3 DEF Becomes
<1> QED BY <1>3, <1>4

LEMMA SupervisorEffect ==
  ASSUME ControlInv, NEW t \in Threads, SendToSupervisor(t)
  PROVE  /\ Becomes(t, <<Exec(Op(t).to)>>) /\ Op(t).k = "send" /\ stack[t] # <<>>
         /\ Op(t).to \in Supervisors /\ Note(Op(t).to, Op(t).msg)
         /\ current' = [current EXCEPT ![Op(t).to] = Op(t).msg]
         /\ UNCHANGED <<program, script, books, inbox, running, cursor, halted, handled, turns>>
<1>1. Then(t, <<Exec(Op(t).to)>>)
  BY DEF SendToSupervisor
<1>2. Becomes(t, <<Exec(Op(t).to)>>)
  BY <1>1, ThenBecomes DEF ControlInv, StackTypes
<1> QED BY <1>2 DEF SendToSupervisor, At, Op

LEMMA ControlStep ==
  ASSUME FormInv, HandlersOnlyCall, NEW t \in Threads, Step(t)
  PROVE  ControlInv'
<1>1. ControlInv /\ BooksOK /\ RobinInv
  BY DEF FormInv
<1>2. stack[t] # <<>>
  BY <1>1, StepCases
<1>3. CASE HaltStep
  BY <1>1, <1>3, ControlSame DEF HaltStep
<1>4. CASE CallStep(t)
  BY <1>1, <1>2, <1>4, CallsArePlain, ControlPlain DEF CallStep
<1>5. CASE PostStep(t)
  <2>3. PICK a \in Actors : \E ops : PostOps(t, a, ops) /\ Becomes(t, ops)
    BY <1>5 DEF PostStep
  <2>1. PICK ops : PostOps(t, a, ops) /\ Becomes(t, ops)
    BY <2>3
  <2>2. Op(t).k # "run" /\ UNCHANGED <<program, script, running>>
    BY <1>5 DEF PostStep
  <2> QED BY <1>1, <1>2, <2>1, <2>2, PostForm, ControlPlain
<1>6. CASE SendToSupervisor(t)
  <2> DEFINE ops == <<Exec(Op(t).to)>>
  <2>1. /\ Becomes(t, ops) /\ Op(t).k # "run" /\ Op(t).to \in Supervisors
        /\ UNCHANGED <<program, script, running>>
    BY <1>1, <1>6, SupervisorEffect
  <2>2. IsSeq(ops) /\ Len(ops) = 1 /\ ops[1].k = "exec" /\ ops[1].at = Op(t).to
    BY SeqOne DEF Exec
  <2> HIDE DEF ops
  <2>3. \A i \in 1 .. Len(ops) : i = 1
    BY <2>2
  <2>4. PlainOps(ops)
    BY <2>1, <2>2, <2>3, PlacedAnywhere DEF PlainOps
  <2> QED BY <1>1, <1>2, <2>1, <2>4, ControlPlain
<1>7. CASE FileStep(t) \/ RemoveStep(t) \/ KnowStep(t)
  <2>1. Op(t).k # "run" /\ Becomes(t, <<>>) /\ UNCHANGED <<program, script, running>>
    BY <1>7 DEF FileStep, RemoveStep, KnowStep
  <2> QED BY <1>1, <1>2, <2>1, CallsNone, CallsArePlain, ControlPlain
<1>8. CASE Consume(t)
  <2>1. UNCHANGED <<program, script, running>>
    BY <1>8 DEF Consume
  <2> QED BY <1>1, <1>2, <1>8, <2>1, StackEffects, ControlConsume
<1>9. CASE Rest(t)
  <2>1. UNCHANGED <<program, script>> /\ running' = running \ {Op(t).at}
    BY <1>9 DEF Rest
  <2> QED BY <1>1, <1>2, <1>9, <2>1, StackEffects, ControlRest
<1>10. CASE SpawnStep(t)
  <2>1. PICK new \in Nodes : Becomes(t, SpawnOps(Op(t).at, new))
    BY <1>10 DEF SpawnStep
  <2>2. Op(t).k = "spawn" /\ UNCHANGED <<program, script, running>>
    BY <1>10 DEF SpawnStep
  <2>3. Op(t).at \in Supervisors
    BY <1>1, <1>2, <2>2, TopOp DEF SupervisorKinds
  <2>4. PlainOps(SpawnOps(Op(t).at, new))
    BY <2>3, SpawnPlain
  <2> QED BY <1>1, <1>2, <2>1, <2>2, <2>4, ControlPlain
<1>11. CASE ScheduleStep(t)
  <2>1. Op(t).k # "run"
    BY <1>11 DEF ScheduleStep
  <2> QED BY <1>1, <1>2, <1>11, <2>1, ControlDeliver DEF ScheduleStep
<1>12. CASE LookStep(t)
  <2> DEFINE op == RunOver(Op(t).at)
  <2>1. Op(t).k = "run" /\ Becomes(t, <<op>>) /\ UNCHANGED <<program, script, running>>
    BY <1>12 DEF LookStep
  <2>2. op.k = "run" /\ op.at = Op(t).at
    BY DEF RunOver
  <2> HIDE DEF op
  <2> QED BY <1>1, <1>2, <2>1, <2>2, ControlLook
<1> QED BY <1>1, <1>3, <1>4, <1>5, <1>6, <1>7, <1>8, <1>9, <1>10, <1>11, <1>12,
           StepCases

\* What n holds under T in c.
BookIn(c, T) == IF T \in DOMAIN c THEN c[T] ELSE <<>>

LEMMA AcquaintedBooks ==
  ASSUME BooksOK, NEW n \in Nodes, NEW a
  PROVE  /\ \A T : T # TypeOf[a] => BookIn(Acquainted(n, a), T) = Book(n, T)
         /\ BookIn(Acquainted(n, a), TypeOf[a]) =
              IF n \in Actors /\ Book(n, TypeOf[a]) # <<>> THEN Book(n, TypeOf[a])
              ELSE Append(Book(n, TypeOf[a]), a)
         /\ DOMAIN Acquainted(n, a) = DOMAIN contacts[n] \cup {TypeOf[a]}
         /\ \A T \in DOMAIN Acquainted(n, a) :
              IsSeq(Acquainted(n, a)[T]) /\ (n \in Actors => Acquainted(n, a)[T] # <<>>)
<1> DEFINE T0 == TypeOf[a]
           b == Append(Book(n, T0), a)
           c == Merge([x \in {T0} |-> b], contacts[n])
<1> HIDE DEF T0
<1>1. IsSeq(Book(n, T0))
  BY SeqEmpty DEF BooksOK, Book
<1>2. IsSeq(b) /\ Len(b) = Len(Book(n, T0)) + 1 /\ Len(Book(n, T0)) \in Nat
  BY <1>1, SeqAppend, SeqLen
<1>3. b # <<>>
  BY <1>2, SeqEmpty
<1> HIDE DEF b
<1>4. /\ DOMAIN c = DOMAIN contacts[n] \cup {T0} /\ c[T0] = b
      /\ \A T \in DOMAIN contacts[n] : T # T0 => c[T] = contacts[n][T]
  BY DEF Merge
<1> HIDE DEF c
<1>5. CASE n \in Actors /\ T0 \in DOMAIN contacts[n]
  <2>1. Acquainted(n, a) = contacts[n]
    BY <1>5 DEF Acquainted, T0
  <2>2. Book(n, T0) # <<>>
    BY <1>5 DEF BooksOK, Book
  <2>3. \A T : BookIn(contacts[n], T) = Book(n, T)
    BY DEF BookIn, Book
  <2>4. DOMAIN contacts[n] = DOMAIN contacts[n] \cup {T0}
    BY <1>5
  <2>5. \A T \in DOMAIN contacts[n] : IsSeq(contacts[n][T]) /\ (n \in Actors => contacts[n][T] # <<>>)
    BY DEF BooksOK
  <2> QED BY <1>5, <2>1, <2>2, <2>3, <2>4, <2>5 DEF T0
<1>6. CASE ~(n \in Actors /\ T0 \in DOMAIN contacts[n])
  <2>1. Acquainted(n, a) = c
    BY <1>6 DEF Acquainted, T0, c, b
  <2>2. n \in Actors => Book(n, T0) = <<>>
    BY <1>6 DEF Book
  <2>3. \A T : T # T0 => BookIn(c, T) = Book(n, T)
    BY <1>4 DEF BookIn, Book
  <2>4. BookIn(c, T0) = b
    BY <1>4 DEF BookIn
  <2>5. \A T \in DOMAIN c : IsSeq(c[T]) /\ (n \in Actors => c[T] # <<>>)
    BY <1>2, <1>3, <1>4 DEF BooksOK
  <2> QED BY <1>4, <2>1, <2>2, <2>3, <2>4, <2>5 DEF T0, b
<1> QED BY <1>5, <1>6

LEMMA BooksFile ==
  ASSUME BooksOK, NEW n \in Nodes, NEW a, Files(n, a)
  PROVE  BooksOK'
<1>1. CASE a = n
  BY <1>1 DEF Files, BooksOK
<1>2. CASE a # n
  <2> DEFINE c == Acquainted(n, a)
  <2>1. \A T \in DOMAIN c : IsSeq(c[T]) /\ (n \in Actors => c[T] # <<>>)
    BY AcquaintedBooks
  <2> HIDE DEF c
  <2>2. contacts' = [contacts EXCEPT ![n] = c]
    BY <1>2 DEF Files, c
  <2>3. /\ DOMAIN contacts' = Nodes /\ contacts'[n] = c
        /\ \A m \in Nodes : m # n => contacts'[m] = contacts[m]
    BY <2>2 DEF BooksOK
  <2> QED BY <2>1, <2>3 DEF BooksOK
<1> QED BY <1>1, <1>2

LEMMA BooksRemove ==
  ASSUME BooksOK, NEW n \in Nodes, NEW a, NEW c, Forgets(n, a, c),
         contacts' = [contacts EXCEPT ![n] = c]
  PROVE  BooksOK'
<1>1. /\ DOMAIN contacts' = Nodes /\ contacts'[n] = c
      /\ \A m \in Nodes : m # n => contacts'[m] = contacts[m]
  BY DEF BooksOK
<1>2. \A T \in DOMAIN c : IsSeq(c[T]) /\ (n \in Actors => c[T] # <<>>)
  BY DEF Forgets, BooksOK
<1> QED BY <1>1, <1>2 DEF BooksOK

LEMMA BooksStep ==
  ASSUME FormInv, HandlersOnlyCall, NEW t \in Threads, Step(t)
  PROVE  BooksOK'
<1>1. ControlInv /\ BooksOK /\ RobinInv
  BY DEF FormInv
<1>2. stack[t] # <<>>
  BY <1>1, StepCases
<1>3. UNCHANGED contacts => BooksOK'
  BY <1>1 DEF BooksOK
<1>4. CASE FileStep(t)
  <2>1. Op(t).at \in Nodes
    BY <1>1, <1>2, <1>4, TopOp DEF FileStep
  <2> QED BY <1>1, <1>4, <2>1, BooksFile DEF FileStep
<1>5. CASE KnowStep(t)
  <2>1. Op(t).at \in Nodes
    BY <1>1, <1>2, <1>5, TopOp DEF KnowStep, SupervisorKinds, Nodes
  <2> QED BY <1>1, <1>5, <2>1, BooksFile DEF KnowStep
<1>6. CASE RemoveStep(t)
  <2>1. Op(t).at \in Nodes
    BY <1>1, <1>2, <1>6, TopOp DEF RemoveStep
  <2> QED BY <1>1, <1>6, <2>1, BooksRemove DEF RemoveStep
<1>7. \/ HaltStep \/ CallStep(t) \/ SpawnStep(t) \/ PostStep(t) \/ ScheduleStep(t)
      \/ SendToSupervisor(t) \/ Consume(t) \/ LookStep(t) \/ Rest(t)
      => UNCHANGED contacts
  BY DEF HaltStep, CallStep, SpawnStep, PostStep, ScheduleStep, SendToSupervisor, Consume,
         LookStep, Rest, books
<1> QED BY <1>1, <1>3, <1>4, <1>5, <1>6, <1>7, StepCases

\* A message that asks n to know an address of type T.
Asks(msg, n, T) ==
  msg.cmd = "add_link" /\ msg.sender \notin {NoAddress, n} /\ TypeOf[msg.sender] = T

\* n is asked for the T in x, or not for a T.
AskedFor(n, T, x, yes) ==
  asked'[n][T] = IF yes THEN Append(asked[n][T], x) ELSE asked[n][T]

LEMMA AskEffect ==
  ASSUME DataTypes, NEW n \in Nodes, NEW a, Ask(n, a)
  PROVE  /\ DOMAIN asked' = Nodes /\ \A m \in Nodes : m # n => asked'[m] = asked[m]
         /\ DOMAIN asked'[n] = Types
         /\ \A T \in Types : AskedFor(n, T, a, a \notin {NoAddress, n} /\ TypeOf[a] = T)
<1>1. CASE a \in {NoAddress, n}
  <2>1. asked' = asked
    BY <1>1 DEF Ask
  <2> QED BY <1>1, <2>1 DEF DataTypes, AskedFor
<1>2. CASE a \notin {NoAddress, n}
  <2>1. asked' = [asked EXCEPT ![n][TypeOf[a]] = Append(@, a)]
    BY <1>2 DEF Ask
  <2>2. DOMAIN asked = Nodes /\ DOMAIN asked[n] = Types
    BY DEF DataTypes
  <2>3. /\ DOMAIN asked' = Nodes /\ \A m \in Nodes : m # n => asked'[m] = asked[m]
        /\ asked'[n] = [asked[n] EXCEPT ![TypeOf[a]] = Append(@, a)]
    BY <2>1, <2>2
  <2>4. /\ DOMAIN asked'[n] = Types
        /\ \A T \in Types : asked'[n][T] = IF TypeOf[a] = T THEN Append(asked[n][T], a)
                                            ELSE asked[n][T]
    BY <2>2, <2>3
  <2> QED BY <1>2, <2>3, <2>4 DEF AskedFor
<1> QED BY <1>1, <1>2

LEMMA NoteEffect ==
  ASSUME DataTypes, NEW n \in Nodes, NEW msg, Note(n, msg)
  PROVE  /\ DOMAIN asked' = Nodes /\ \A m \in Nodes : m # n => asked'[m] = asked[m]
         /\ DOMAIN asked'[n] = Types
         /\ \A T \in Types : AskedFor(n, T, msg.sender, Asks(msg, n, T))
         /\ unlinked \subseteq unlinked'
         /\ msg.cmd = "remove_link" /\ msg.sender # NoAddress =>
              <<n, TypeOf[msg.sender]>> \in unlinked'
<1>1. /\ unlinked \subseteq unlinked'
      /\ msg.cmd = "remove_link" /\ msg.sender # NoAddress =>
           <<n, TypeOf[msg.sender]>> \in unlinked'
  BY DEF Note
<1>2. CASE msg.cmd = "add_link"
  <2>1. Ask(n, msg.sender)
    BY <1>2 DEF Note
  <2>2. /\ DOMAIN asked' = Nodes /\ \A m \in Nodes : m # n => asked'[m] = asked[m]
        /\ DOMAIN asked'[n] = Types
        /\ \A T \in Types :
             AskedFor(n, T, msg.sender, msg.sender \notin {NoAddress, n} /\ TypeOf[msg.sender] = T)
    BY <2>1, AskEffect
  <2> QED BY <1>1, <1>2, <2>2 DEF Asks, AskedFor
<1>3. CASE msg.cmd # "add_link"
  <2>1. asked' = asked
    BY <1>3 DEF Note
  <2> QED BY <1>1, <1>3, <2>1 DEF Asks, AskedFor, DataTypes
<1> QED BY <1>2, <1>3

\* The types of asked survive.
AskedTypes ==
  /\ DOMAIN asked = Nodes
  /\ \A n \in Nodes : DOMAIN asked[n] = Types /\ \A T \in Types : IsSeq(asked[n][T])

LEMMA AskedStep ==
  ASSUME DataTypes, NEW n \in Nodes, DOMAIN asked' = Nodes,
         \A m \in Nodes : m # n => asked'[m] = asked[m], DOMAIN asked'[n] = Types,
         \A T \in Types : \E x, yes : yes \in BOOLEAN /\ AskedFor(n, T, x, yes)
  PROVE  AskedTypes'
<1>1. \A T \in Types : IsSeq(asked'[n][T])
  <2> TAKE T \in Types
  <2>1. PICK x, yes : AskedFor(n, T, x, yes)
    OBVIOUS
  <2>2. IsSeq(asked[n][T])
    BY DEF DataTypes
  <2>3. IsSeq(Append(asked[n][T], x))
    BY <2>2, SeqAppend
  <2> QED BY <2>1, <2>2, <2>3 DEF AskedFor
<1> QED BY <1>1 DEF DataTypes, AskedTypes

LEMMA CreatedStep ==
  ASSUME DataTypes, NEW t \in Threads, Step(t)
  PROVE  created \subseteq created' /\ created' \subseteq Nodes
<1>1. CASE DoSpawn(t)
  BY <1>1, FreshNode DEF DoSpawn, DataTypes
<1>2. CASE ~DoSpawn(t)
  <2>1. UNCHANGED created
    <3>1. CASE SendToActor(t) \/ Schedule(t) \/ SendNowhere(t) \/ SendToSupervisor(t)
               \/ RedirectRobin(t) \/ Advance(t) \/ DropMessage(t)
      BY <3>1 DEF SendToActor, Schedule, SendNowhere, SendToSupervisor, RedirectRobin, Advance,
                  DropMessage, Halt, Goto, books
    <3>2. CASE NoHandler(t) \/ BadCast(t) \/ Redirect(t) \/ AppHandler(t)
      BY <3>2 DEF NoHandler, BadCast, Redirect, AppHandler, Halt, Goto, books
    <3>3. CASE AddLink(t) \/ RemoveLinkActor(t) \/ RemoveLinkSupervisor(t) \/ Know(t)
      BY <3>3 DEF AddLink, RemoveLinkActor, RemoveLinkSupervisor, Know, Meet, Halt, books
    <3>4. CASE TellKnown(t) \/ TellUnknown(t) \/ DoIntroduce(t) \/ DoBroadcast(t)
               \/ DoBroadcastTo(t) \/ Sync(t) \/ Consume(t) \/ LastLook(t) \/ Rest(t)
      BY <3>4 DEF TellKnown, TellUnknown, DoIntroduce, DoBroadcast, DoBroadcastTo, Sync,
                  Consume, LastLook, Rest, Halt, Goto, books
    <3> QED BY <1>2, <3>1, <3>2, <3>3, <3>4 DEF Step
  <2> QED BY <2>1 DEF DataTypes
<1> QED BY <1>1, <1>2

LEMMA DataStep ==
  ASSUME FormInv, HandlersOnlyCall, NEW t \in Threads, Step(t)
  PROVE  DataTypes'
<1>1. ControlInv /\ BooksOK /\ RobinInv /\ DataTypes
  BY DEF FormInv
<1>2. stack[t] # <<>>
  BY <1>1, StepCases
<1>3. created' \subseteq Nodes
  BY <1>1, CreatedStep
<1>4. UNCHANGED asked => AskedTypes'
  BY <1>1 DEF AskedTypes, DataTypes
<1> DEFINE InboxTypes == DOMAIN inbox = Actors /\ \A a \in Actors : IsSeq(inbox[a])
<1>5. UNCHANGED inbox => InboxTypes'
  BY <1>1 DEF DataTypes
<1>6. DOMAIN current' = Nodes /\ InboxTypes' /\ AskedTypes' => DataTypes'
  BY <1>3 DEF DataTypes, AskedTypes
<1>7. UNCHANGED current => DOMAIN current' = Nodes
  BY <1>1 DEF DataTypes
<1>8. CASE HaltStep \/ CallStep(t) \/ SpawnStep(t) \/ ScheduleStep(t) \/ RemoveStep(t)
  <2>1. UNCHANGED <<current, inbox, asked>>
    BY <1>8 DEF HaltStep, CallStep, SpawnStep, ScheduleStep, RemoveStep, past
  <2> QED BY <1>4, <1>5, <1>6, <1>7, <2>1
<1>9. CASE LookStep(t) \/ Rest(t)
  <2>1. UNCHANGED <<current, inbox, asked>>
    BY <1>9 DEF LookStep, Rest, past
  <2> QED BY <1>4, <1>5, <1>6, <1>7, <2>1
<1>10. CASE KnowStep(t)
  <2>1. UNCHANGED <<current, inbox>> /\ Ask(Op(t).at, Op(t).new) /\ Op(t).k = "know"
    BY <1>10 DEF KnowStep
  <2>2. Op(t).at \in Nodes
    BY <1>1, <1>2, <2>1, TopOp DEF SupervisorKinds, Nodes
  <2>3. AskedTypes'
    BY <1>1, <2>1, <2>2, AskEffect, AskedStep
  <2> QED BY <1>5, <1>6, <1>7, <2>1, <2>3
<1>11. CASE SendToSupervisor(t)
  <2> DEFINE n == Op(t).to
             msg == Op(t).msg
  <2>1. /\ n \in Nodes /\ Note(n, msg) /\ UNCHANGED inbox
        /\ current' = [current EXCEPT ![n] = msg]
    BY <1>1, <1>11, SupervisorEffect DEF Nodes
  <2> HIDE DEF n, msg
  <2>2. DOMAIN current' = Nodes
    BY <1>1, <2>1 DEF DataTypes
  <2>3. AskedTypes'
    <3>1. /\ DOMAIN asked' = Nodes /\ \A m \in Nodes : m # n => asked'[m] = asked[m]
          /\ DOMAIN asked'[n] = Types
          /\ \A T \in Types : AskedFor(n, T, msg.sender, Asks(msg, n, T))
      BY <1>1, <2>1, NoteEffect
    <3>2. \A T \in Types : Asks(msg, n, T) \in BOOLEAN
      BY DEF Asks
    <3> QED BY <1>1, <2>1, <3>1, <3>2, AskedStep
  <2> QED BY <1>5, <1>6, <2>1, <2>2, <2>3
<1>12. CASE PostStep(t)
  <2>1. PICK a \in Actors : Post(a, Op(t).msg)
    BY <1>12 DEF PostStep
  <2> DEFINE msg == Op(t).msg
  <2>2. /\ a \in Nodes /\ Note(a, msg) /\ UNCHANGED current
        /\ inbox' = [inbox EXCEPT ![a] = Append(@, msg)]
    BY <1>12, <2>1 DEF PostStep, Post, Nodes
  <2> HIDE DEF msg
  <2>3. InboxTypes'
    <3>1. IsSeq(Append(inbox[a], msg))
      BY <1>1, SeqAppend DEF DataTypes
    <3>2. /\ DOMAIN inbox' = Actors /\ inbox'[a] = Append(inbox[a], msg)
          /\ \A b \in Actors : b # a => inbox'[b] = inbox[b]
      BY <1>1, <2>2 DEF DataTypes
    <3> QED BY <1>1, <3>1, <3>2 DEF DataTypes
  <2>4. AskedTypes'
    <3>1. /\ DOMAIN asked' = Nodes /\ \A m \in Nodes : m # a => asked'[m] = asked[m]
          /\ DOMAIN asked'[a] = Types
          /\ \A T \in Types : AskedFor(a, T, msg.sender, Asks(msg, a, T))
      BY <1>1, <2>2, NoteEffect
    <3>2. \A T \in Types : Asks(msg, a, T) \in BOOLEAN
      BY DEF Asks
    <3> QED BY <1>1, <2>2, <3>1, <3>2, AskedStep
  <2> QED BY <1>6, <1>7, <2>2, <2>3, <2>4
<1>13. CASE Consume(t)
  <2> DEFINE a == Op(t).at
  <2>1. /\ Op(t).k = "run" /\ inbox[a] # <<>> /\ UNCHANGED asked
        /\ current' = [current EXCEPT ![a] = Head(inbox[a])]
        /\ inbox' = [inbox EXCEPT ![a] = Tail(@)]
    BY <1>13 DEF Consume, At, Op
  <2>2. a \in Actors
    BY <1>1, <1>2, <2>1, TopOp
  <2> HIDE DEF a
  <2>3. DOMAIN current' = Nodes
    BY <1>1, <2>1 DEF DataTypes
  <2>4. InboxTypes'
    <3>1. IsSeq(Tail(inbox[a]))
      BY <1>1, <2>1, <2>2, SeqTail DEF DataTypes
    <3>2. /\ DOMAIN inbox' = Actors /\ inbox'[a] = Tail(inbox[a])
          /\ \A b \in Actors : b # a => inbox'[b] = inbox[b]
      BY <1>1, <2>1, <2>2 DEF DataTypes
    <3> QED BY <1>1, <3>1, <3>2 DEF DataTypes
  <2> QED BY <1>4, <1>6, <2>1, <2>3, <2>4
<1>14. CASE FileStep(t)
  <2>1. UNCHANGED <<inbox, asked>> /\ current' \in {current, Emptied(Op(t).at)}
    BY <1>14 DEF FileStep, past
  <2>2. DOMAIN current' = Nodes
    BY <1>1, <2>1 DEF DataTypes, Emptied
  <2> QED BY <1>4, <1>5, <1>6, <2>1, <2>2
<1> QED BY <1>1, <1>8, <1>9, <1>10, <1>11, <1>12, <1>13, <1>14, StepCases

LEMMA FormInit == Init => FormInv
<1> SUFFICES ASSUME Init PROVE FormInv
  OBVIOUS
<1>1. RobinInv
  BY RobinInit
<1>2. /\ program \in Programs /\ script = Script[program] /\ running = {}
      /\ stack = [t \in Threads |-> <<>>] /\ created = Roots[program]
      /\ contacts = [n \in Nodes |-> <<>>] /\ DOMAIN current = Nodes
      /\ inbox = [a \in Actors |-> <<>>]
      /\ asked = [n \in Nodes |-> [type \in Types |-> <<>>]]
  BY DEF Init
<1>3. IsSeq(<<>>) /\ Len(<<>>) = 0 /\ DOMAIN <<>> = {}
  BY SeqEmpty, SeqLen
<1>4. \A t \in Threads : stack[t] = <<>>
  BY <1>2
<1>5. StackTypes
  BY <1>2, <1>3, <1>4, ScriptsAssumption DEF StackTypes, IsSeq
<1>6. \A t \in Threads : \A i : i \notin 1 .. Len(stack[t])
  BY <1>3, <1>4
<1>7. ControlInv
  BY <1>4, <1>5, <1>6 DEF ControlInv, ExecOK, RunOK, RunOnce, BottomOK, PlacedOK, Threads
<1>8. DataTypes
  BY <1>2, <1>3, TablesAssumption DEF DataTypes, Nodes
<1>9. BooksOK
  BY <1>2, <1>3 DEF BooksOK
<1> QED BY <1>1, <1>7, <1>8, <1>9 DEF FormInv

LEMMA FormNext ==
  ASSUME FormInv, HandlersOnlyCall, [Next]_vars
  PROVE  FormInv'
<1>1. ControlInv /\ DataTypes /\ BooksOK /\ RobinInv
  BY DEF FormInv
<1>2. RobinInv'
  BY <1>1, RobinNext
<1>3. CASE UNCHANGED vars
  <2>1. ControlInv'
    BY <1>1, <1>3, ControlSame DEF vars
  <2>2. DataTypes' /\ BooksOK'
    BY <1>1, <1>3 DEF DataTypes, BooksOK, vars, books, past
  <2> QED BY <1>2, <2>1, <2>2 DEF FormInv
<1>4. CASE Call
  <2>1. ControlInv'
    BY <1>1, <1>4, ControlCall
  <2>2. DataTypes' /\ BooksOK'
    BY <1>1, <1>4 DEF DataTypes, BooksOK, Call, books, past
  <2> QED BY <1>2, <2>1, <2>2 DEF FormInv
<1>5. CASE \E t \in Threads : Step(t)
  BY <1>2, <1>5, ControlStep, DataStep, BooksStep DEF FormInv
<1> QED BY <1>3, <1>4, <1>5 DEF Next

\* Calls nest as they should: whatever a program calls, in whatever order its
\* threads run, a handler is the innermost operation of its thread, an actor's
\* is called by the actor's run, and run is entered once at a time, by the one
\* thread the executor gave the actor to (cooperative_actor::run,
\* communication_module::execute).
THEOREM CallsNest ==
  ASSUME HandlersOnlyCall
  PROVE  Spec => [](ExecOK /\ RunOK /\ RunOnce /\ BottomOK)
<1>1. Init => FormInv
  BY FormInit
<1>2. FormInv /\ [Next]_vars => FormInv'
  BY FormNext
<1>3. FormInv => ExecOK /\ RunOK /\ RunOnce /\ BottomOK
  BY DEF FormInv, ControlInv
<1> QED BY <1>1, <1>2, <1>3, PTL DEF Spec

-----------------------------------------------------------------------------
(* The turns of redirect_robin                                              *)

\* The i-th operation of t is the ++cursor of s that a task still owes.
TurnAt(t, i, s) == i \in 1 .. Len(stack[t]) /\ stack[t][i].k = "turn" /\ stack[t][i].at = s
Owes(s) == \E t \in Threads : \E i \in 1 .. Len(stack[t]) : TurnAt(t, i, s)

OwesOnce ==
  \A s \in Supervisors : \A t, u \in Threads :
    \A i \in 1 .. Len(stack[t]), j \in 1 .. Len(stack[u]) :
      TurnAt(t, i, s) /\ TurnAt(u, j, s) => t = u /\ i = j

\* How far each round has got.
Reach == [s \in Supervisors |-> IF Owes(s) THEN cursor[s] + 1 ELSE cursor[s]]

WaitInv == OwesOnce /\ Waits(turns, owned, Reach)

\* Nobody sends a supervisor a task that it is to redirect before the cursor
\* shows the one before.
OneTask ==
  \A t \in Threads :
    /\ stack[t] # <<>> /\ Op(t).k = "send" /\ Op(t).to \in Supervisors
    /\ Routing[Op(t).to] = "robin" /\ ~Local(Op(t).to, Op(t).msg.cmd)
    => ~Owes(Op(t).to)

LEMMA ReachReached == Reached(Reach)
BY DEF Reached, Reach

\* t's turns only change their place.
Keeps(t) ==
  \E d \in Int : \A s \in Supervisors :
    /\ \A i \in 1 .. Len(stack[t]) : TurnAt(t, i, s) => TurnAt(t, i + d, s)'
    /\ \A j \in 1 .. Len(stack'[t]) : TurnAt(t, j, s)' => TurnAt(t, j - d, s)

LEMMA KeepsAll ==
  ASSUME StackTypes, \A t \in Threads : IsSeq(stack'[t]), \A t \in Threads : Keeps(t)
  PROVE  /\ \A s \in Supervisors : Owes(s)' <=> Owes(s)
         /\ OwesOnce => OwesOnce'
<1>1. \A t \in Threads : Len(stack[t]) \in Nat /\ Len(stack'[t]) \in Nat
  BY SeqLen DEF StackTypes
<1>2. \A t \in Threads : \A i, s :
        /\ TurnAt(t, i, s) => i \in 1 .. Len(stack[t])
        /\ TurnAt(t, i, s)' => i \in 1 .. Len(stack'[t])
  BY DEF TurnAt
<1>3. ASSUME NEW s \in Supervisors
      PROVE  Owes(s)' <=> Owes(s)
  <2>1. ASSUME NEW t \in Threads, NEW i \in 1 .. Len(stack[t]), TurnAt(t, i, s) PROVE Owes(s)'
    <3>1. PICK d \in Int : TurnAt(t, i + d, s)'
      BY <2>1 DEF Keeps
    <3> QED BY <1>2, <3>1 DEF Owes
  <2>2. ASSUME NEW t \in Threads, NEW j \in 1 .. Len(stack'[t]), TurnAt(t, j, s)' PROVE Owes(s)
    <3>1. PICK d \in Int : TurnAt(t, j - d, s)
      BY <2>2 DEF Keeps
    <3> QED BY <1>2, <3>1 DEF Owes
  <2> QED BY <2>1, <2>2 DEF Owes
<1>4. ASSUME OwesOnce, NEW s \in Supervisors, NEW t \in Threads, NEW u \in Threads,
             NEW i \in 1 .. Len(stack'[t]), NEW j \in 1 .. Len(stack'[u]),
             TurnAt(t, i, s)', TurnAt(u, j, s)'
      PROVE  t = u /\ i = j
  <2>1. PICK d \in Int : \A k \in 1 .. Len(stack'[t]) : TurnAt(t, k, s)' => TurnAt(t, k - d, s)
    BY DEF Keeps
  <2>2. PICK e \in Int : \A k \in 1 .. Len(stack'[u]) : TurnAt(u, k, s)' => TurnAt(u, k - e, s)
    BY DEF Keeps
  <2>3. TurnAt(t, i - d, s) /\ TurnAt(u, j - e, s)
    BY <1>4, <2>1, <2>2
  <2>4. t = u
    BY <1>2, <1>4, <2>3 DEF OwesOnce
  <2>5. TurnAt(t, j - d, s)
    BY <1>4, <2>1, <2>4
  <2>6. i - d = j - d
    BY <1>2, <1>4, <2>3, <2>5 DEF OwesOnce
  <2>7. i \in Int /\ j \in Int
    BY <1>1
  <2> QED BY <2>4, <2>6, <2>7
<1> QED BY <1>3, <1>4 DEF OwesOnce

\* Where turns go to and come from when t replaces its innermost operation.
LEMMA TurnsMove ==
  ASSUME StackTypes, NEW t \in Threads, stack[t] # <<>>, NEW ops, IsSeq(ops), Replaces(t, ops),
         NEW s
  PROVE  /\ Len(ops) \in Nat /\ Len(stack[t]) \in Nat
         /\ \A i \in 2 .. Len(stack[t]) : TurnAt(t, i, s) => TurnAt(t, Len(ops) + i - 1, s)'
         /\ \A j \in 1 .. Len(stack'[t]) : TurnAt(t, j, s)' =>
              \/ j \in 1 .. Len(ops) /\ ops[j].k = "turn" /\ ops[j].at = s
              \/ /\ j - Len(ops) + 1 \in 2 .. Len(stack[t])
                 /\ TurnAt(t, j - Len(ops) + 1, s)
<1> DEFINE r == stack'[t]
           L == Len(ops)
           N == Len(stack[t])
<1>1. /\ L \in Nat /\ N \in Nat \ {0}
      /\ \A i \in 2 .. N : L + i - 1 \in 1 .. Len(r) /\ r[L + i - 1] = stack[t][i]
      /\ \A j \in 1 .. Len(r) : \/ j \in 1 .. L /\ r[j] = ops[j]
                                \/ j - L + 1 \in 2 .. N /\ r[j] = stack[t][j - L + 1]
  BY Pushed
<1>2. \A i \in 2 .. N : i \in 1 .. N
  BY <1>1
<1> HIDE DEF L
<1>3. \A i \in 2 .. N : TurnAt(t, i, s) => TurnAt(t, L + i - 1, s)'
  BY <1>1 DEF TurnAt
<1>4. \A j \in 1 .. Len(stack'[t]) : TurnAt(t, j, s)' =>
        \/ j \in 1 .. L /\ ops[j].k = "turn" /\ ops[j].at = s
        \/ j - L + 1 \in 2 .. N /\ TurnAt(t, j - L + 1, s)
  BY <1>1, <1>2 DEF TurnAt
<1> QED BY <1>1, <1>3, <1>4 DEF L

LEMMA KeepsReplaced ==
  ASSUME StackTypes, NEW t \in Threads, stack[t] # <<>>, Op(t).k # "turn",
         NEW ops, IsSeq(ops), Replaces(t, ops), \A i \in 1 .. Len(ops) : ops[i].k # "turn"
  PROVE  Keeps(t)
<1>1. IsSeq(stack[t])
  BY DEF StackTypes
<1>2. stack[t][1].k # "turn" /\ Len(stack[t]) \in Nat /\ Len(ops) \in Nat
  BY <1>1, SeqTail, SeqLen DEF Op
<1> DEFINE d == Len(ops) - 1
<1>3. d \in Int
  BY <1>2
<1>4. ASSUME NEW s \in Supervisors
      PROVE  /\ \A i \in 1 .. Len(stack[t]) : TurnAt(t, i, s) => TurnAt(t, i + d, s)'
             /\ \A j \in 1 .. Len(stack'[t]) : TurnAt(t, j, s)' => TurnAt(t, j - d, s)
  <2>1. /\ \A i \in 2 .. Len(stack[t]) : TurnAt(t, i, s) => TurnAt(t, Len(ops) + i - 1, s)'
        /\ \A j \in 1 .. Len(stack'[t]) : TurnAt(t, j, s)' =>
             \/ j \in 1 .. Len(ops) /\ ops[j].k = "turn" /\ ops[j].at = s
             \/ /\ j - Len(ops) + 1 \in 2 .. Len(stack[t])
                /\ TurnAt(t, j - Len(ops) + 1, s)
    BY TurnsMove
  <2>2. ASSUME NEW i \in 1 .. Len(stack[t]), TurnAt(t, i, s) PROVE TurnAt(t, i + d, s)'
    <3>1. i # 1
      BY <1>2, <2>2 DEF TurnAt
    <3>2. i \in 2 .. Len(stack[t]) /\ Len(ops) + i - 1 = i + d
      BY <1>2, <3>1
    <3>3. TurnAt(t, Len(ops) + i - 1, s)'
      BY <2>1, <2>2, <3>2
    <3> QED BY <3>2, <3>3
  <2>3. ASSUME NEW j \in 1 .. Len(stack'[t]), TurnAt(t, j, s)' PROVE TurnAt(t, j - d, s)
    <3>1. TurnAt(t, j - Len(ops) + 1, s)
      BY <2>1, <2>3
    <3>2. j \in Int
      OBVIOUS
    <3>3. j - Len(ops) + 1 = j - d
      BY <1>2, <3>2
    <3> QED BY <3>1, <3>3
  <2> QED BY <2>2, <2>3
<1> HIDE DEF d
<1> QED BY <1>3, <1>4 DEF Keeps

LEMMA KeepsSame ==
  ASSUME StackTypes, NEW t \in Threads, stack'[t] = stack[t]
  PROVE  Keeps(t)
<1>1. Len(stack[t]) \in Nat
  BY SeqLen DEF StackTypes
<1>2. ASSUME NEW s \in Supervisors, NEW i \in 1 .. Len(stack[t])
      PROVE  i + 0 = i /\ i - 0 = i /\ (TurnAt(t, i, s)' <=> TurnAt(t, i, s))
  BY <1>1 DEF TurnAt
<1>3. \A s \in Supervisors :
        /\ \A i \in 1 .. Len(stack[t]) : TurnAt(t, i, s) => TurnAt(t, i + 0, s)'
        /\ \A j \in 1 .. Len(stack'[t]) : TurnAt(t, j, s)' => TurnAt(t, j - 0, s)
  BY <1>2
<1> QED BY <1>3 DEF Keeps

LEMMA KeepsNone ==
  ASSUME NEW t \in Threads, stack[t] = <<>>, \A i \in 1 .. Len(stack'[t]) : stack'[t][i].k # "turn"
  PROVE  Keeps(t)
<1>1. \A i : i \notin 1 .. Len(stack[t])
  BY SeqEmpty
<1>2. \A s \in Supervisors :
        /\ \A i \in 1 .. Len(stack[t]) : TurnAt(t, i, s) => TurnAt(t, i + 0, s)'
        /\ \A j \in 1 .. Len(stack'[t]) : TurnAt(t, j, s)' => TurnAt(t, j - 0, s)
  BY <1>1 DEF TurnAt
<1> QED BY <1>2 DEF Keeps

LEMMA KeepsBecomes ==
  ASSUME StackTypes, NEW t \in Threads, stack[t] # <<>>, Op(t).k # "turn",
         NEW ops, IsSeq(ops), Becomes(t, ops), \A i \in 1 .. Len(ops) : ops[i].k # "turn"
  PROVE  \A u \in Threads : Keeps(u)
BY KeepsReplaced, KeepsSame DEF Becomes

\* run takes a message: everything below moves down.
LEMMA KeepsConsume ==
  ASSUME ControlInv, NEW t \in Threads, stack[t] # <<>>, Consume(t)
  PROVE  \A u \in Threads : Keeps(u)
<1>1. /\ IsSeq(stack[t]) /\ stack'[t] = <<Exec(Op(t).at)>> \o stack[t]
      /\ \A u \in Threads : u # t => stack'[u] = stack[u]
  BY StackEffects DEF ControlInv, StackTypes
<1> DEFINE s == stack[t]
           r == stack'[t]
           ops == <<Exec(Op(t).at)>>
<1>2. IsSeq(ops) /\ Len(ops) = 1 /\ ops[1].k = "exec"
  BY SeqOne DEF Exec
<1>9. IsSeq(s) /\ r = ops \o s
  BY <1>1
<1> HIDE DEF ops, s, r
<1>3. /\ Len(r) = Len(ops) + Len(s)
      /\ \A i \in 1 .. Len(ops) : r[i] = ops[i]
      /\ \A i \in 1 .. Len(s) : r[Len(ops) + i] = s[i]
  <2>1. /\ Len(ops \o s) = Len(ops) + Len(s)
        /\ \A i \in 1 .. Len(ops) : (ops \o s)[i] = ops[i]
        /\ \A i \in 1 .. Len(s) : (ops \o s)[Len(ops) + i] = s[i]
    <3>1. IsSeq(ops) /\ IsSeq(s)
      BY <1>2, <1>9
    <3> QED BY <3>1, SeqConcat
  <2> QED BY <1>9, <2>1
<1>4. Len(s) \in Nat /\ Len(r) = Len(s) + 1 /\ r[1].k = "exec"
  <2>1. 1 \in 1 .. Len(ops)
    BY <1>2
  <2> QED BY <1>2, <1>3, <1>9, <2>1, SeqLen
<1>5. \A i \in 1 .. Len(s) : i + 1 \in 1 .. Len(r) /\ r[i + 1] = s[i]
  <2> TAKE i \in 1 .. Len(s)
  <2>1. Len(ops) + i = i + 1 /\ i + 1 \in 1 .. Len(r)
    BY <1>2, <1>4
  <2> QED BY <1>3, <2>1
<1>6. \A j \in 1 .. Len(r) : j = 1 \/ (j - 1 \in 1 .. Len(s) /\ r[j] = s[j - 1])
  <2> TAKE j \in 1 .. Len(r)
  <2>1. j = 1 \/ (j - 1 \in 1 .. Len(s) /\ (j - 1) + 1 = j)
    BY <1>4
  <2> QED BY <1>5, <2>1
<1>7. \A S \in Supervisors :
        /\ \A i \in 1 .. Len(stack[t]) : TurnAt(t, i, S) => TurnAt(t, i + 1, S)'
        /\ \A j \in 1 .. Len(stack'[t]) : TurnAt(t, j, S)' => TurnAt(t, j - 1, S)
  BY <1>4, <1>5, <1>6 DEF TurnAt, r, s
<1>8. Keeps(t)
  <2> DEFINE d == 1
  <2>1. \A S \in Supervisors :
          /\ \A i \in 1 .. Len(stack[t]) : TurnAt(t, i, S) => TurnAt(t, i + d, S)'
          /\ \A j \in 1 .. Len(stack'[t]) : TurnAt(t, j, S)' => TurnAt(t, j - d, S)
    BY <1>7
  <2>2. d \in Int
    OBVIOUS
  <2> HIDE DEF d
  <2> QED BY <2>1, <2>2 DEF Keeps
<1> QED BY <1>1, <1>8, KeepsSame DEF ControlInv

LEMMA OnlyAdvance ==
  ASSUME NEW t \in Threads, Step(t), Op(t).k = "turn"
  PROVE  Advance(t)
<1>1. ASSUME NEW k, At(t, k) PROVE k = "turn"
  BY <1>1 DEF At, Op
<1>2. /\ ~At(t, "send") /\ ~At(t, "wake") /\ ~At(t, "exec") /\ ~At(t, "tell")
      /\ ~At(t, "introduce") /\ ~At(t, "cast") /\ ~At(t, "each") /\ ~At(t, "castto")
      /\ ~At(t, "spawn") /\ ~At(t, "know") /\ ~At(t, "sync") /\ ~At(t, "run")
  BY <1>1
<1>3. /\ ~SendToActor(t) /\ ~Schedule(t) /\ ~SendNowhere(t) /\ ~SendToSupervisor(t)
      /\ ~RedirectRobin(t) /\ ~DropMessage(t)
  BY <1>2 DEF SendToActor, Schedule, SendNowhere, SendToSupervisor, RedirectRobin, DropMessage
<1>4. /\ ~NoHandler(t) /\ ~BadCast(t) /\ ~AddLink(t) /\ ~RemoveLinkActor(t)
      /\ ~RemoveLinkSupervisor(t) /\ ~Redirect(t) /\ ~AppHandler(t)
  BY <1>2 DEF NoHandler, BadCast, AddLink, RemoveLinkActor, RemoveLinkSupervisor, Redirect,
              AppHandler, Handling
<1>5. /\ ~TellKnown(t) /\ ~TellUnknown(t) /\ ~DoIntroduce(t) /\ ~DoBroadcast(t)
      /\ ~DoBroadcastTo(t)
  BY <1>2 DEF TellKnown, TellUnknown, DoIntroduce, DoBroadcast, DoBroadcastTo
<1>6. ~DoSpawn(t) /\ ~Know(t) /\ ~Sync(t) /\ ~Consume(t) /\ ~LastLook(t) /\ ~Rest(t)
  BY <1>2 DEF DoSpawn, Know, Sync, Consume, LastLook, Rest
<1> QED BY <1>3, <1>4, <1>5, <1>6 DEF Step

\* Only redirect_robin adds a turn, and only ++cursor takes one away.
LEMMA KeepsStep ==
  ASSUME FormInv, HandlersOnlyCall, NEW t \in Threads, Step(t), ~RedirectRobin(t), ~Advance(t)
  PROVE  \A u \in Threads : Keeps(u)
<1>1. ControlInv /\ BooksOK /\ RobinInv /\ StackTypes
  BY DEF FormInv, ControlInv
<1>2. stack[t] # <<>> /\ Op(t).k # "turn" /\ DOMAIN stack = Threads
  BY <1>1, StepCases, OnlyAdvance DEF StackTypes
<1>3. IsSeq(<<>>) /\ \A i : i \notin 1 .. Len(<<>>)
  BY SeqEmpty
<1>4. CASE HaltStep
  BY <1>1, <1>4, KeepsSame DEF HaltStep
<1>5. CASE CallStep(t)
  <2>1. PICK ops : CallOps(ops) /\ Becomes(t, ops)
    BY <1>5 DEF CallStep
  <2> QED BY <1>1, <1>2, <2>1, KeepsBecomes DEF CallOps, CallOp
<1>6. CASE SpawnStep(t)
  <2>1. PICK new : Becomes(t, SpawnOps(Op(t).at, new))
    BY <1>6 DEF SpawnStep
  <2>2. Op(t).at \in Supervisors
    BY <1>1, <1>2, <1>6, TopOp DEF SpawnStep, SupervisorKinds
  <2> DEFINE ops == SpawnOps(Op(t).at, new)
  <2>3. IsSeq(ops) /\ \A i \in 1 .. Len(ops) : ops[i].k \in {"know", "send", "sync", "cast"}
    BY <2>2, SpawnKinds
  <2> HIDE DEF ops
  <2> QED BY <1>1, <1>2, <2>1, <2>3, KeepsBecomes DEF ops
<1>7. CASE PostStep(t)
  <2>5. PICK a \in Actors : \E ops : PostOps(t, a, ops) /\ Becomes(t, ops)
    BY <1>7 DEF PostStep
  <2>1. PICK ops : PostOps(t, a, ops) /\ Becomes(t, ops)
    BY <2>5
  <2>2. ops = <<Wake(a)>>
    BY <2>1 DEF PostOps
  <2>3. IsSeq(ops) /\ Len(ops) = 1 /\ ops[1].k = "wake"
    BY <2>2, SeqOne DEF Wake
  <2>4. \A i \in 1 .. Len(ops) : ops[i].k # "turn"
    <3>1. \A i \in 1 .. Len(ops) : i = 1
      BY <2>3
    <3> QED BY <2>3, <3>1
  <2> QED BY <1>1, <1>2, <2>1, <2>3, <2>4, KeepsBecomes
<1>8. CASE ScheduleStep(t)
  <2> DEFINE a == Op(t).at
             ops == <<Run(a)>>
  <2>1. a \in Actors /\ DeliverStack(t, a)
    BY <1>8 DEF ScheduleStep
  <2>2. IsSeq(ops) /\ Len(ops) = 1 /\ ops[1].k = "run"
    BY SeqOne DEF Run
  <2>3. ops = <<Run(a)>>
    OBVIOUS
  <2> HIDE DEF a, ops
  <2>4. \A i \in 1 .. Len(ops) : ops[i].k # "turn"
    <3>1. \A i \in 1 .. Len(ops) : i = 1
      BY <2>2
    <3> QED BY <2>2, <3>1
  <2>5. CASE Becomes(t, <<>>)
    BY <1>1, <1>2, <1>3, <2>5, KeepsBecomes
  <2>6. CASE Becomes(t, ops)
    BY <1>1, <1>2, <2>2, <2>4, <2>6, KeepsBecomes
  <2>7. CASE /\ a # t /\ stack[a] = <<>> /\ stack'[t] = Tail(stack[t]) /\ stack'[a] = ops
             /\ \A u \in Threads : u \notin {t, a} => stack'[u] = stack[u]
    <3>1. Replaces(t, <<>>)
      <4>1. IsSeq(Tail(stack[t]))
        BY <1>1, <1>2, SeqTail DEF StackTypes
      <4> QED BY <2>7, <4>1, EmptyConcat DEF Replaces
    <3>2. Keeps(t)
      BY <1>1, <1>2, <1>3, <3>1, KeepsReplaced
    <3>3. a \in Threads /\ Keeps(a)
      BY <2>1, <2>4, <2>7, KeepsNone DEF Threads
    <3> QED BY <1>1, <2>7, <3>2, <3>3, KeepsSame
  <2> QED BY <2>1, <2>3, <2>5, <2>6, <2>7 DEF DeliverStack
<1>9. CASE SendToSupervisor(t)
  <2> DEFINE ops == <<Exec(Op(t).to)>>
  <2>1. Becomes(t, ops)
    BY <1>1, <1>9, SupervisorEffect
  <2>2. IsSeq(ops) /\ Len(ops) = 1 /\ ops[1].k = "exec"
    BY SeqOne DEF Exec
  <2> HIDE DEF ops
  <2>3. \A i \in 1 .. Len(ops) : ops[i].k # "turn"
    <3>1. \A i \in 1 .. Len(ops) : i = 1
      BY <2>2
    <3> QED BY <2>2, <3>1
  <2> QED BY <1>1, <1>2, <2>1, <2>2, <2>3, KeepsBecomes
<1>10. CASE FileStep(t) \/ KnowStep(t) \/ RemoveStep(t)
  <2>1. Becomes(t, <<>>)
    BY <1>10 DEF FileStep, KnowStep, RemoveStep
  <2> QED BY <1>1, <1>2, <1>3, <2>1, KeepsBecomes
<1>11. CASE Consume(t)
  BY <1>1, <1>2, <1>11, KeepsConsume
<1>12. CASE LookStep(t)
  <2> DEFINE ops == <<RunOver(Op(t).at)>>
  <2>1. Becomes(t, ops)
    BY <1>12 DEF LookStep
  <2>2. IsSeq(ops) /\ Len(ops) = 1 /\ ops[1].k = "run"
    BY SeqOne DEF RunOver
  <2> HIDE DEF ops
  <2>3. \A i \in 1 .. Len(ops) : ops[i].k # "turn"
    <3>1. \A i \in 1 .. Len(ops) : i = 1
      BY <2>2
    <3> QED BY <2>2, <3>1
  <2> QED BY <1>1, <1>2, <2>1, <2>2, <2>3, KeepsBecomes
<1>13. CASE Rest(t)
  <2>1. Becomes(t, <<>>)
    BY <1>2, <1>13, ThenBecomes DEF Rest
  <2> QED BY <1>1, <1>2, <1>3, <2>1, KeepsBecomes
<1> QED BY <1>1, <1>4, <1>5, <1>6, <1>7, <1>8, <1>9, <1>10, <1>11, <1>12, <1>13, StepCases

LEMMA ReachSame ==
  ASSUME cursor' = cursor, \A s \in Supervisors : Owes(s)' <=> Owes(s)
  PROVE  Reach' = Reach
BY DEF Reach

LEMMA WaitSame ==
  ASSUME StackTypes, \A t \in Threads : IsSeq(stack'[t]), \A t \in Threads : Keeps(t),
         UNCHANGED <<owned, cursor, turns>>, WaitInv
  PROVE  WaitInv'
<1>1. OwesOnce' /\ Reach' = Reach
  BY KeepsAll, ReachSame DEF WaitInv
<1>2. Waits(turns', owned', Reach')
  BY <1>1 DEF WaitInv
<1> QED BY <1>1, <1>2 DEF WaitInv

\* A turn stands for a task that was sent when none was owed, and is the only
\* one then.
LEMMA WaitTask ==
  ASSUME FormInv, WaitInv, OneTask, NEW t \in Threads, RedirectRobin(t)
  PROVE  WaitInv'
<1>0. PICK s \in Supervisors : s = Op(t).to
  BY DEF RedirectRobin
<1>1. stack[t] # <<>> /\ Op(t).k = "send"
  BY DEF RedirectRobin, At, Op
<1>2. ~Owes(s)
  BY <1>0, <1>1 DEF OneTask, RedirectRobin
<1> DEFINE a == owned[s][cursor[s] + 1]
<1>13. PICK ops : ops = <<Wake(a), Turn(s)>>
  OBVIOUS
<1>3. Becomes(t, ops)
  <2>1. Then(t, ops)
    BY <1>0, <1>13 DEF RedirectRobin
  <2> QED BY <2>1, <1>1, ThenBecomes DEF FormInv, ControlInv, StackTypes
<1>4. /\ IsSeq(ops) /\ Len(ops) = 2 /\ ops[1].k = "wake" /\ ops[2].k = "turn"
      /\ ops[2].at = s
  BY <1>13, SeqTwo DEF Wake, Turn
<1> HIDE DEF a
<1>5. StackTypes
  BY DEF FormInv, ControlInv
<1>6. Replaces(t, ops) /\ \A u \in Threads : u # t => stack'[u] = stack[u]
  BY <1>3 DEF Becomes
<1>7. ASSUME NEW v \in Supervisors
      PROVE  /\ \A i \in 2 .. Len(stack[t]) : TurnAt(t, i, v) => TurnAt(t, Len(ops) + i - 1, v)'
             /\ \A j \in 1 .. Len(stack'[t]) : TurnAt(t, j, v)' =>
                  \/ j \in 1 .. Len(ops) /\ ops[j].k = "turn" /\ ops[j].at = v
                  \/ /\ j - Len(ops) + 1 \in 2 .. Len(stack[t])
                     /\ TurnAt(t, j - Len(ops) + 1, v)
  <2>1. IsSeq(ops)
    BY <1>4
  <2> QED BY <1>1, <1>5, <1>6, <2>1, TurnsMove
<1>8. Len(stack[t]) \in Nat /\ stack[t][1] = Op(t)
  BY <1>1, <1>5, SeqTail, SeqLen DEF StackTypes, Op
<1>9. ASSUME NEW v \in Supervisors
      PROVE  /\ \A i \in 1 .. Len(stack[t]) : TurnAt(t, i, v) => TurnAt(t, i + 1, v)'
             /\ \A j \in 1 .. Len(stack'[t]) : TurnAt(t, j, v)' =>
                  (j = 2 /\ v = s) \/ TurnAt(t, j - 1, v)
  <2>1. ASSUME NEW i \in 1 .. Len(stack[t]), TurnAt(t, i, v) PROVE TurnAt(t, i + 1, v)'
    <3>1. i # 1
      BY <1>1, <1>8, <2>1 DEF TurnAt
    <3>2. i \in 2 .. Len(stack[t]) /\ Len(ops) + i - 1 = i + 1
      BY <1>4, <1>8, <3>1
    <3>3. TurnAt(t, Len(ops) + i - 1, v)'
      BY <1>7, <2>1, <3>2
    <3> QED BY <3>2, <3>3
  <2>2. ASSUME NEW j \in 1 .. Len(stack'[t]), TurnAt(t, j, v)'
        PROVE  (j = 2 /\ v = s) \/ TurnAt(t, j - 1, v)
    <3>1. CASE j \in 1 .. Len(ops) /\ ops[j].k = "turn" /\ ops[j].at = v
      <4>1. j = 1 \/ j = 2
        BY <1>4, <3>1
      <4> QED BY <1>4, <3>1, <4>1
    <3>2. CASE TurnAt(t, j - Len(ops) + 1, v)
      <4>1. j - Len(ops) + 1 = j - 1
        <5>1. j \in Int
          OBVIOUS
        <5> QED BY <1>4, <5>1
      <4> QED BY <3>2, <4>1
    <3> QED BY <1>7, <2>2, <3>1, <3>2
  <2> QED BY <2>1, <2>2
<1>10. Owes(s)'
  <2>1. 2 \in 1 .. Len(stack'[t]) /\ stack'[t][2] = ops[2]
    <3>1. \A i \in 1 .. Len(ops) : i \in 1 .. Len(stack'[t]) /\ stack'[t][i] = ops[i]
      BY <1>1, <1>4, <1>5, <1>6, Pushed
    <3>2. 2 \in 1 .. Len(ops)
      BY <1>4
    <3> QED BY <3>1, <3>2
  <2>2. TurnAt(t, 2, s)'
    BY <1>4, <2>1 DEF TurnAt
  <2> QED BY <2>1, <2>2 DEF Owes
<1>11. ASSUME NEW v \in Supervisors, v # s
       PROVE  Owes(v)' <=> Owes(v)
  <2>1. ASSUME NEW u \in Threads, NEW i \in 1 .. Len(stack[u]), TurnAt(u, i, v) PROVE Owes(v)'
    <3>1. CASE u = t
      <4>1. TurnAt(t, i + 1, v)'
        BY <1>9, <2>1, <3>1
      <4> QED BY <4>1 DEF Owes, TurnAt
    <3>2. CASE u # t
      BY <1>6, <2>1, <3>2 DEF Owes, TurnAt
    <3> QED BY <3>1, <3>2
  <2>2. ASSUME NEW u \in Threads, NEW i \in 1 .. Len(stack'[u]), TurnAt(u, i, v)' PROVE Owes(v)
    <3>1. CASE u = t
      <4>1. TurnAt(t, i - 1, v)
        BY <1>9, <1>11, <2>2, <3>1
      <4> QED BY <4>1 DEF Owes, TurnAt
    <3>2. CASE u # t
      BY <1>6, <2>2, <3>2 DEF Owes, TurnAt
    <3> QED BY <3>1, <3>2
  <2> QED BY <2>1, <2>2 DEF Owes
<1>12. OwesOnce'
  <2> SUFFICES ASSUME NEW v \in Supervisors, NEW u \in Threads, NEW w \in Threads,
                      NEW i \in 1 .. Len(stack'[u]), NEW j \in 1 .. Len(stack'[w]),
                      TurnAt(u, i, v)', TurnAt(w, j, v)'
               PROVE  u = w /\ i = j
    BY DEF OwesOnce
  <2>1. /\ IF u = t THEN (i = 2 /\ v = s) \/ TurnAt(t, i - 1, v) ELSE TurnAt(u, i, v)
        /\ IF w = t THEN (j = 2 /\ v = s) \/ TurnAt(t, j - 1, v) ELSE TurnAt(w, j, v)
    BY <1>6, <1>9 DEF TurnAt
  <2>2. CASE v = s
    <3>1. \A x \in Threads : \A k : ~TurnAt(x, k, s)
      BY <1>2 DEF Owes, TurnAt
    <3> QED BY <2>1, <2>2, <3>1
  <2>3. CASE v # s
    <3>1. \A x, y \in Threads : \A k, l : TurnAt(x, k, v) /\ TurnAt(y, l, v) => x = y /\ k = l
      BY DEF WaitInv, OwesOnce, TurnAt
    <3>2. u = w
      BY <2>1, <2>3, <3>1
    <3>3. i \in Int /\ j \in Int
      OBVIOUS
    <3>4. CASE u = t
      <4>1. i - 1 = j - 1
        BY <2>1, <2>3, <3>1, <3>2, <3>4
      <4> QED BY <3>2, <3>3, <4>1
    <3>5. CASE u # t
      BY <2>1, <2>3, <3>1, <3>2, <3>5
    <3> QED BY <3>4, <3>5
  <2> QED BY <2>2, <2>3
<1>14. Waits(turns', owned', Reach')
  <2>1. cursor' = cursor
    BY DEF RedirectRobin
  <2>2. Reach[s] = cursor[s] /\ Reach'[s] = cursor[s] + 1
    BY <1>2, <1>10, <2>1 DEF Reach
  <2>3. \A v \in Supervisors : v # s => Reach'[v] = Reach[v]
    BY <1>11, <2>1 DEF Reach
  <2> DEFINE c == Reach
             d == Reach'
  <2>4. Reached(c) /\ Waits(turns, owned, c) /\ RobinInv
    BY ReachReached DEF WaitInv, FormInv
  <2>5. c[Op(t).to] = cursor[Op(t).to] /\ d[Op(t).to] = cursor[Op(t).to] + 1
        /\ \A v \in Supervisors : v # Op(t).to => d[v] = c[v]
    BY <1>0, <2>2, <2>3
  <2> HIDE DEF c, d
  <2>6. Waits(turns', owned', d)
    BY <2>4, <2>5, TaskWaits
  <2> QED BY <2>6 DEF d
<1> QED BY <1>12, <1>14 DEF WaitInv

\* ++cursor pays the only turn that was owed.
LEMMA WaitAdvance ==
  ASSUME FormInv, WaitInv, NEW t \in Threads, Advance(t)
  PROVE  WaitInv'
<1>1. stack[t] # <<>> /\ Op(t).k = "turn" /\ StackTypes /\ DOMAIN stack = Threads
  BY DEF Advance, At, Op, FormInv, ControlInv, StackTypes
<1>2. PICK s \in Supervisors : s = Op(t).at
  BY <1>1, TopOp DEF FormInv, SupervisorKinds
<1>3. Len(stack[t]) \in Nat \ {0} /\ stack[t][1] = Op(t)
  BY <1>1, SeqTail DEF StackTypes, Op
<1>4. TurnAt(t, 1, s) /\ 1 \in 1 .. Len(stack[t])
  BY <1>1, <1>2, <1>3 DEF TurnAt
<1>5. \A u \in Threads : \A i : TurnAt(u, i, s) => u = t /\ i = 1
  BY <1>2, <1>4 DEF WaitInv, OwesOnce, TurnAt
<1>6. IsSeq(<<>>) /\ Len(<<>>) = 0 /\ \A i : i \notin 1 .. Len(<<>>)
  BY SeqEmpty
<1>7. Replaces(t, <<>>) /\ \A u \in Threads : u # t => stack'[u] = stack[u]
  <2>1. Becomes(t, <<>>)
    BY <1>1, ThenBecomes DEF Advance
  <2> QED BY <2>1 DEF Becomes
<1>8. ASSUME NEW v \in Supervisors
      PROVE  /\ \A i \in 2 .. Len(stack[t]) : TurnAt(t, i, v) => TurnAt(t, i - 1, v)'
             /\ \A j \in 1 .. Len(stack'[t]) : TurnAt(t, j, v)' =>
                  j + 1 \in 2 .. Len(stack[t]) /\ TurnAt(t, j + 1, v)
  <2>1. /\ \A i \in 2 .. Len(stack[t]) : TurnAt(t, i, v) => TurnAt(t, Len(<<>>) + i - 1, v)'
        /\ \A j \in 1 .. Len(stack'[t]) : TurnAt(t, j, v)' =>
             \/ j \in 1 .. Len(<<>>) /\ (<<>>)[j].k = "turn" /\ (<<>>)[j].at = v
             \/ /\ j - Len(<<>>) + 1 \in 2 .. Len(stack[t])
                /\ TurnAt(t, j - Len(<<>>) + 1, v)
    BY <1>1, <1>6, <1>7, TurnsMove
  <2>2. \A i \in 2 .. Len(stack[t]) : Len(<<>>) + i - 1 = i - 1
    BY <1>6
  <2>3. \A j \in 1 .. Len(stack'[t]) : j - Len(<<>>) + 1 = j + 1
    BY <1>6
  <2> QED BY <1>6, <2>1, <2>2, <2>3
<1>9. ~Owes(s)'
  <2> SUFFICES ASSUME NEW u \in Threads, NEW j \in 1 .. Len(stack'[u]), TurnAt(u, j, s)'
               PROVE  FALSE
    BY DEF Owes
  <2>1. CASE u = t
    <3>1. TurnAt(t, j + 1, s) /\ j + 1 \in 2 .. Len(stack[t])
      BY <1>2, <1>8, <2>1
    <3>2. j + 1 # 1
      BY <1>3, <3>1
    <3> QED BY <1>5, <3>1, <3>2
  <2>2. CASE u # t
    <3>1. TurnAt(u, j, s)
      BY <1>7, <2>2 DEF TurnAt
    <3> QED BY <1>5, <2>2, <3>1
  <2> QED BY <2>1, <2>2
<1>10. ASSUME NEW v \in Supervisors, v # s
       PROVE  Owes(v)' <=> Owes(v)
  <2>1. ASSUME NEW u \in Threads, NEW i \in 1 .. Len(stack[u]), TurnAt(u, i, v) PROVE Owes(v)'
    <3>1. CASE u = t
      <4>1. i # 1
        BY <1>2, <1>3, <1>10, <2>1, <3>1 DEF TurnAt
      <4>2. i \in 2 .. Len(stack[t])
        BY <1>3, <3>1, <4>1
      <4>3. TurnAt(t, i - 1, v)'
        BY <1>8, <2>1, <3>1, <4>2
      <4> QED BY <4>3 DEF Owes, TurnAt
    <3>2. CASE u # t
      BY <1>7, <2>1, <3>2 DEF Owes, TurnAt
    <3> QED BY <3>1, <3>2
  <2>2. ASSUME NEW u \in Threads, NEW j \in 1 .. Len(stack'[u]), TurnAt(u, j, v)' PROVE Owes(v)
    <3>1. CASE u = t
      <4>1. TurnAt(t, j + 1, v)
        BY <1>8, <2>2, <3>1
      <4> QED BY <4>1 DEF Owes, TurnAt
    <3>2. CASE u # t
      BY <1>7, <2>2, <3>2 DEF Owes, TurnAt
    <3> QED BY <3>1, <3>2
  <2> QED BY <2>1, <2>2 DEF Owes
<1>11. OwesOnce'
  <2> SUFFICES ASSUME NEW v \in Supervisors, NEW u \in Threads, NEW w \in Threads,
                      NEW i \in 1 .. Len(stack'[u]), NEW j \in 1 .. Len(stack'[w]),
                      TurnAt(u, i, v)', TurnAt(w, j, v)'
               PROVE  u = w /\ i = j
    BY DEF OwesOnce
  <2>1. /\ IF u = t THEN TurnAt(t, i + 1, v) ELSE TurnAt(u, i, v)
        /\ IF w = t THEN TurnAt(t, j + 1, v) ELSE TurnAt(w, j, v)
    BY <1>7, <1>8 DEF TurnAt
  <2>2. \A x, y \in Threads : \A k, l : TurnAt(x, k, v) /\ TurnAt(y, l, v) => x = y /\ k = l
    BY DEF WaitInv, OwesOnce, TurnAt
  <2>3. u = w
    BY <2>1, <2>2
  <2>4. i \in Int /\ j \in Int
    OBVIOUS
  <2>5. CASE u = t
    <3>1. i + 1 = j + 1
      BY <2>1, <2>2, <2>3, <2>5
    <3> QED BY <2>3, <2>4, <3>1
  <2>6. CASE u # t
    BY <2>1, <2>2, <2>3, <2>6
  <2> QED BY <2>5, <2>6
<1>12. Waits(turns', owned', Reach')
  <2>1. cursor' = [cursor EXCEPT ![s] = NextCursor(s)] /\ DOMAIN cursor = Supervisors
    BY <1>2 DEF Advance, FormInv, RobinInv, TurnTypes
  <2>2. Reach[s] = cursor[s] + 1 /\ Reach'[s] = NextCursor(s)
    BY <1>2, <1>4, <1>9, <2>1 DEF Reach, Owes
  <2>3. \A v \in Supervisors : v # s => Reach'[v] = Reach[v]
    BY <1>10, <2>1 DEF Reach
  <2> DEFINE c == Reach
             d == Reach'
  <2>4. Reached(c) /\ Waits(turns, owned, c) /\ RobinInv
    BY ReachReached DEF WaitInv, FormInv
  <2>5. c[Op(t).at] = cursor[Op(t).at] + 1 /\ d[Op(t).at] = NextCursor(Op(t).at)
        /\ \A v \in Supervisors : v # Op(t).at => d[v] = c[v]
    BY <1>2, <2>2, <2>3
  <2> HIDE DEF c, d
  <2>6. Waits(turns', owned', d)
    BY <2>4, <2>5, AdvanceWaits
  <2> QED BY <2>6 DEF d
<1> QED BY <1>11, <1>12 DEF WaitInv

LEMMA WaitInit == Init => WaitInv
<1> SUFFICES ASSUME Init PROVE WaitInv
  OBVIOUS
<1>1. \A i : i \notin 1 .. Len(<<>>)
  BY SeqEmpty
<1>2. /\ \A t \in Threads : stack[t] = <<>>
      /\ \A s \in Supervisors : owned[s] = <<>>
  BY DEF Init
<1> QED BY <1>1, <1>2 DEF WaitInv, OwesOnce, Waits

LEMMA WaitNext ==
  ASSUME FormInv, WaitInv, OneTask, HandlersOnlyCall, [Next]_vars
  PROVE  WaitInv'
<1>1. StackTypes /\ StackTypes' /\ RobinInv
  BY FormNext DEF FormInv, ControlInv
<1>2. \A t \in Threads : IsSeq(stack'[t])
  BY <1>1 DEF StackTypes
<1>3. CASE UNCHANGED vars
  <2>1. \A t \in Threads : Keeps(t)
    BY <1>1, <1>3, KeepsSame DEF vars
  <2> QED BY <1>1, <1>2, <1>3, <2>1, WaitSame DEF vars, books, past
<1>4. CASE Call
  <2>1. PICK call \in Head(script) : stack' = [stack EXCEPT ![Main] = call]
    BY <1>4 DEF Call
  <2>2. Main \in Threads /\ stack[Main] = <<>> /\ stack'[Main] = call
        /\ \A t \in Threads : t # Main => stack'[t] = stack[t]
    BY <1>1, <1>4, <2>1 DEF Threads, StackTypes, Call
  <2>3. OnlyCalls(call)
    BY <1>4, <2>1 DEF Call, FormInv, ControlInv, StackTypes
  <2>4. Keeps(Main)
    BY <2>2, <2>3, KeepsNone DEF OnlyCalls, CallKinds
  <2>5. \A t \in Threads : Keeps(t)
    BY <1>1, <2>2, <2>4, KeepsSame
  <2> QED BY <1>1, <1>2, <1>4, <2>5, WaitSame DEF Call, books, past
<1>5. ASSUME NEW t \in Threads, Step(t) PROVE WaitInv'
  <2>1. CASE RedirectRobin(t)
    BY <2>1, WaitTask
  <2>2. CASE Advance(t)
    BY <2>2, WaitAdvance
  <2>3. CASE ~RedirectRobin(t) /\ ~Advance(t)
    <3>1. \A u \in Threads : Keeps(u)
      BY <1>5, <2>3, KeepsStep
    <3>2. CASE DoSpawn(t)
      <4>1. OwesOnce' /\ \A s \in Supervisors : Owes(s)' <=> Owes(s)
        BY <1>1, <1>2, <3>1, KeepsAll DEF WaitInv
      <4>2. Reach' = Reach
        BY <3>2, <4>1, ReachSame DEF DoSpawn
      <4> DEFINE c == Reach
      <4>3. Reached(c) /\ Waits(turns, owned, c)
        BY ReachReached DEF WaitInv
      <4> HIDE DEF c
      <4>4. Waits(turns', owned', c)
        BY <1>1, <3>2, <4>3, JoinWaits
      <4>5. Waits(turns', owned', Reach')
        BY <4>2, <4>4 DEF c
      <4> QED BY <4>1, <4>5 DEF WaitInv
    <3>3. CASE ~DoSpawn(t)
      <4>1. UNCHANGED <<owned, cursor, turns>>
        BY <1>5, <2>3, <3>3, RobinUntouched
      <4> QED BY <1>1, <1>2, <3>1, <4>1, WaitSame
    <3> QED BY <3>2, <3>3
  <2> QED BY <2>1, <2>2, <2>3
<1> QED BY <1>3, <1>4, <1>5 DEF Next

\* The round robin passes nobody over (redirect_robin), for every program in
\* which nobody sends a supervisor a task while the one before is still being
\* enqueued: since its last task, or since it joined, an actor has seen fewer
\* tasks go to its team than the team has members, although actors join between
\* any two tasks and between a task and its ++cursor.
THEOREM NobodyIsPassedOver ==
  ASSUME HandlersOnlyCall
  PROVE  Spec /\ []OneTask => []TurnWithinRound
<1>1. Init => FormInv /\ WaitInv
  BY FormInit, WaitInit
<1>2. FormInv /\ WaitInv /\ OneTask /\ [Next]_vars => FormInv' /\ WaitInv'
  BY FormNext, WaitNext
<1>3. FormInv /\ WaitInv => TurnWithinRound
  <2> SUFFICES ASSUME FormInv, WaitInv PROVE TurnWithinRound
    OBVIOUS
  <2> DEFINE c == Reach
  <2>1. RobinInv /\ Reached(c) /\ Waits(turns, owned, c)
    BY ReachReached DEF FormInv, WaitInv
  <2> HIDE DEF c
  <2> QED BY <2>1, WaitsRound
<1> QED BY <1>1, <1>2, <1>3, PTL DEF Spec
=============================================================================
