-------------------------- MODULE SingleReaderQueue --------------------------
(***************************************************************************)
(* detail::single_reader_queue: the lock-free stack that writers push on,   *)
(* the reader that takes the whole stack over, and the mutex and condition  *)
(* variable of its synchronized access.                                     *)
(*                                                                         *)
(* One step per access to stack_ and per critical section of the mutex.     *)
(* Nodes are addresses: a message that was deleted gives its address back   *)
(* and the next message may get it.  The list at head_ is the reader's own  *)
(* and kept as a sequence.                                                  *)
(***************************************************************************)
EXTENDS Naturals, Sequences, FiniteSets, SequencesExt

CONSTANTS
  Writers,       \* threads that call synchronized_enqueue
  Nodes,         \* addresses of messages
  EmptyDummy,    \* stack_empty_dummy()
  BlockedDummy,  \* reader_blocked_dummy()
  Null,          \* nullptr
  MaxMsgs        \* bound: how many messages are sent in all

Dummies == {EmptyDummy, BlockedDummy}

ASSUME SetsAssumption ==
  /\ IsFiniteSet(Nodes) /\ MaxMsgs \in Nat
  /\ Cardinality(Dummies) = 2 /\ Null \notin Dummies
  /\ Nodes \cap (Dummies \cup {Null}) = {}

VARIABLES
  stack,  \* stack_
  next,   \* message::next of the messages on the stack
  head,   \* the list at head_
  val,    \* what the message at an address says
  free,   \* addresses that hold no message
  sent,   \* how many messages were made so far
  wpc,    \* where each writer is in synchronized_enqueue
  new,    \* its new_element
  seen,   \* its local e
  rpc,    \* where the reader is
  op,     \* what the reader calls fetch_new_data for
  e       \* fetch_new_data's local e

queue == <<stack, next, head>>
store == <<val, free, sent>>
writer == <<wpc, new, seen>>
reader == <<rpc, op, e>>
vars == <<queue, store, writer, reader>>

Pointers == Nodes \cup Dummies \cup {Null}

Init ==
  /\ stack = EmptyDummy
  /\ next = [n \in Nodes |-> Null]
  /\ head = <<>>
  /\ val = [n \in Nodes |-> 0]
  /\ free = Nodes /\ sent = 0
  /\ wpc = [t \in Writers |-> "idle"]
  /\ new = [t \in Writers |-> Null]
  /\ seen = [t \in Writers |-> Null]
  /\ rpc = "idle" /\ op = "none" /\ e = Null

\* The pointer that follows the first i nodes of ns, in a list that starts at p.
Link(p, links, ns, i) == IF i = 0 THEN p ELSE links[ns[i]]

\* ns are the nodes that links lead to from p on, up to one for each address.
Follows(p, links, ns) ==
  /\ \A i \in 1..Len(ns) : ns[i] = Link(p, links, ns, i - 1)
  /\ Len(ns) < Cardinality(Nodes) => Link(p, links, ns, Len(ns)) \notin Nodes

ListFrom(p, links) ==
  CHOOSE ns \in BoundedSeq(Nodes, Cardinality(Nodes)) : Follows(p, links, ns)

\* The nodes on the stack from p on, newest first.
Chain(p) == ListFrom(p, next)

-----------------------------------------------------------------------------
(* Writers: synchronized_enqueue                                            *)

\* A writer makes a message and calls enqueue.
NewMessage(t) ==
  /\ wpc[t] = "idle" /\ sent < MaxMsgs
  /\ \E n \in free :
       /\ new' = [new EXCEPT ![t] = n]
       /\ free' = free \ {n}
       /\ val' = [val EXCEPT ![n] = sent + 1]
  /\ sent' = sent + 1
  /\ wpc' = [wpc EXCEPT ![t] = "load"]
  /\ UNCHANGED <<queue, seen, reader>>

\* e = stack_.load()
LoadStack(t) ==
  /\ wpc[t] = "load"
  /\ seen' = [seen EXCEPT ![t] = stack]
  /\ wpc' = [wpc EXCEPT ![t] = "cas"]
  /\ UNCHANGED <<queue, store, new, reader>>

\* The queue is closed: the message is deleted.
RejectMessage(t) ==
  /\ wpc[t] = "cas" /\ seen[t] = Null
  /\ free' = free \cup {new[t]}
  /\ new' = [new EXCEPT ![t] = Null]
  /\ wpc' = [wpc EXCEPT ![t] = "idle"]
  /\ UNCHANGED <<queue, val, sent, seen, reader>>

\* Mutated: the message is pushed although stack_ has changed.
PushUnchecked(t) ==
  /\ wpc[t] = "cas" /\ seen[t] # Null
  /\ stack' = new[t]
  /\ next' = [next EXCEPT ![new[t]] =
                IF seen[t] \in Dummies THEN Null ELSE seen[t]]
  /\ new' = [new EXCEPT ![t] = Null]
  /\ wpc' = [wpc EXCEPT ![t] = IF seen[t] = BlockedDummy THEN "notify" ELSE "idle"]
  /\ UNCHANGED <<head, store, seen, reader>>

\* Mutated: the wrong dummy is tested for unblocked_reader.
PushSilently(t) ==
  /\ wpc[t] = "cas" /\ seen[t] # Null /\ stack = seen[t]
  /\ stack' = new[t]
  /\ next' = [next EXCEPT ![new[t]] =
                IF seen[t] \in Dummies THEN Null ELSE seen[t]]
  /\ new' = [new EXCEPT ![t] = Null]
  /\ wpc' = [wpc EXCEPT ![t] = IF seen[t] = EmptyDummy THEN "notify" ELSE "idle"]
  /\ UNCHANGED <<head, store, seen, reader>>

\* Mutated: a dummy becomes part of the list.
PushKeepsDummy(t) ==
  /\ wpc[t] = "cas" /\ seen[t] # Null /\ stack = seen[t]
  /\ stack' = new[t]
  /\ next' = [next EXCEPT ![new[t]] = seen[t]]
  /\ new' = [new EXCEPT ![t] = Null]
  /\ wpc' = [wpc EXCEPT ![t] = IF seen[t] = BlockedDummy THEN "notify" ELSE "idle"]
  /\ UNCHANGED <<head, store, seen, reader>>

\* compare_exchange_strong succeeds.
Push(t) ==
  /\ wpc[t] = "cas" /\ seen[t] # Null /\ stack = seen[t]
  /\ stack' = new[t]
  /\ next' = [next EXCEPT ![new[t]] =
                IF seen[t] \in Dummies THEN Null ELSE seen[t]]
  /\ new' = [new EXCEPT ![t] = Null]
  /\ wpc' = [wpc EXCEPT ![t] = IF seen[t] = BlockedDummy THEN "notify" ELSE "idle"]
  /\ UNCHANGED <<head, store, seen, reader>>

\* It fails and loads the value it found.
PushFails(t) ==
  /\ wpc[t] = "cas" /\ seen[t] # Null /\ stack # seen[t]
  /\ seen' = [seen EXCEPT ![t] = stack]
  /\ UNCHANGED <<queue, store, wpc, new, reader>>

\* unblocked_reader: notify_one under the mutex.
Notify(t) ==
  /\ wpc[t] = "notify"
  /\ wpc' = [wpc EXCEPT ![t] = "idle"]
  /\ rpc' = IF rpc = "asleep" THEN "await" ELSE rpc
  /\ UNCHANGED <<queue, store, new, seen, op, e>>

FinishEnqueue(t) ==
  \/ LoadStack(t) \/ RejectMessage(t) \/ Push(t) \/ PushFails(t) \/ Notify(t)

-----------------------------------------------------------------------------
(* The reader: what it calls between other calls.                           *)

ReaderGoto(from, to) == rpc = from /\ rpc' = to

\* A message leaves the queue and is deleted.
Delete(ns) == free' = free \cup ns /\ UNCHANGED <<val, sent>>

\* try_pop, when head_ has a message.
PopHead ==
  /\ rpc = "idle" /\ head # <<>>
  /\ head' = Tail(head)
  /\ Delete({Head(head)})
  /\ UNCHANGED <<stack, next, writer, reader>>

\* try_pop and peek when head_ has none, count and peek_all: fetch_new_data.
CallFetch(f) ==
  /\ f \in {"pop", "peek"} => head = <<>>
  /\ ReaderGoto("idle", "load")
  /\ op' = f
  /\ UNCHANGED <<queue, store, writer, e>>

\* try_block succeeds for a reader that found no message: until a writer
\* unblocks it, it leaves the queue alone.
TryBlock ==
  /\ head = <<>> /\ stack = EmptyDummy
  /\ ReaderGoto("idle", "parked")
  /\ stack' = BlockedDummy
  /\ UNCHANGED <<next, head, store, writer, op, e>>

Rescheduled ==
  /\ stack # BlockedDummy
  /\ ReaderGoto("parked", "idle")
  /\ UNCHANGED <<queue, store, writer, op, e>>

\* try_unblock
TryUnblock ==
  /\ ReaderGoto("parked", "idle")
  /\ stack' = IF stack = BlockedDummy THEN EmptyDummy ELSE stack
  /\ UNCHANGED <<next, head, store, writer, op, e>>

\* close: clear_cached_elements, then fetch_new_data(nullptr) unless blocked.
CallClose ==
  /\ rpc \in {"idle", "parked"}
  /\ head' = <<>>
  /\ Delete(Range(head))
  /\ op' = "close"
  /\ rpc' = IF stack = BlockedDummy THEN "done" ELSE "load"
  /\ UNCHANGED <<stack, next, writer, e>>

-----------------------------------------------------------------------------
(* The reader: fetch_new_data                                               *)

EndPtr == IF op = "close" THEN Null ELSE EmptyDummy
AfterFetch == IF op = "close" THEN "done" ELSE "idle"

\* e = stack_.load(), and the first test of the loop
FetchLoad ==
  /\ rpc = "load"
  /\ e' = stack
  /\ rpc' = IF stack = EndPtr THEN AfterFetch ELSE "cas"
  /\ UNCHANGED <<queue, store, writer, op>>

\* Mutated: the stack is taken over as it is, newest message first.
TakeNewestFirst(ns) == ns

\* The loop that moves the messages to head_ turns their order around.
TakeOver(ns) == Reverse(ns)

\* compare_exchange_weak succeeds.  try_pop goes on to take the head; peek_all
\* puts the new messages behind the old ones, count in front of them.
Fetch ==
  /\ rpc = "cas" /\ stack = e
  /\ stack' = EndPtr
  /\ rpc' = AfterFetch
  /\ LET ns == TakeOver(Chain(e)) IN
       \/ /\ op = "close" /\ Delete(Range(ns)) /\ UNCHANGED head
       \/ /\ op = "pop" /\ Delete({Head(ns)}) /\ head' = Tail(ns)
       \/ /\ op \in {"peek", "peek_all"} /\ head' = head \o ns /\ UNCHANGED store
       \/ /\ op = "count" /\ head' = ns \o head /\ UNCHANGED store
  /\ UNCHANGED <<next, writer, op, e>>

\* It fails and loads the value it found.
FetchFails ==
  /\ rpc = "cas" /\ stack # e
  /\ e' = stack
  /\ UNCHANGED <<queue, store, writer, rpc, op>>

-----------------------------------------------------------------------------
(* The reader: synchronized_await, without and with a timeout               *)

\* if (!can_fetch_more() && try_block())
CallAwait ==
  /\ head = <<>> /\ stack \in Dummies
  /\ ReaderGoto("idle", "block")
  /\ UNCHANGED <<queue, store, writer, op, e>>

AwaitTryBlock ==
  /\ ReaderGoto("block", IF stack = EmptyDummy THEN "await" ELSE "idle")
  /\ stack' = IF stack = EmptyDummy THEN BlockedDummy ELSE stack
  /\ UNCHANGED <<next, head, store, writer, op, e>>

\* Mutated: cv.wait without the test of blocked() under the mutex.
WaitUnchecked ==
  /\ ReaderGoto("await", "asleep")
  /\ UNCHANGED <<queue, store, writer, op, e>>

\* while (blocked()) cv.wait(guard)
WaitWhileBlocked ==
  /\ ReaderGoto("await", IF stack = BlockedDummy THEN "asleep" ELSE "idle")
  /\ UNCHANGED <<queue, store, writer, op, e>>

\* cv.wait may return without a notification.
SpuriousWakeup ==
  /\ ReaderGoto("asleep", "await")
  /\ UNCHANGED <<queue, store, writer, op, e>>

\* cv.wait_until gave up ...
TimeOut ==
  /\ ReaderGoto("asleep", "timeout")
  /\ UNCHANGED <<queue, store, writer, op, e>>

\* Mutated: the queue stays blocked after a timeout.
AwaitKeepsBlocked ==
  /\ ReaderGoto("timeout", "idle")
  /\ UNCHANGED <<queue, store, writer, op, e>>

\* ... return !try_unblock()
AwaitTryUnblock ==
  /\ ReaderGoto("timeout", "idle")
  /\ stack' = IF stack = BlockedDummy THEN EmptyDummy ELSE stack
  /\ UNCHANGED <<next, head, store, writer, op, e>>

-----------------------------------------------------------------------------

FinishCall ==
  \/ FetchLoad \/ Fetch \/ FetchFails \/ AwaitTryBlock \/ WaitWhileBlocked
  \/ AwaitTryUnblock

ReaderStep ==
  \/ PopHead \/ \E f \in {"pop", "peek", "peek_all", "count"} : CallFetch(f)
  \/ TryBlock \/ Rescheduled \/ TryUnblock \/ CallClose \/ CallAwait
  \/ FinishCall \/ SpuriousWakeup \/ TimeOut

\* Nobody can do anything more: no message or no address for one is left.
Finished ==
  /\ (sent = MaxMsgs \/ free = {}) /\ rpc = "done"
  /\ \A t \in Writers : wpc[t] = "idle"
  /\ UNCHANGED vars

Next ==
  \/ \E t \in Writers : NewMessage(t) \/ FinishEnqueue(t)
  \/ ReaderStep
  \/ Finished

Spec == Init /\ [][Next]_vars

\* Threads are kept running: a call that was begun goes on.
FairSpec ==
  /\ Spec
  /\ \A t \in Writers : WF_vars(FinishEnqueue(t))
  /\ WF_vars(FinishCall)

-----------------------------------------------------------------------------
(* Properties.                                                              *)

\* Every variable keeps its type: a dummy is never part of a list, and no
\* link leads to one.
TypeOK ==
  /\ stack \in Pointers
  /\ next \in [Nodes -> Nodes \cup {Null}]
  /\ head \in Seq(Nodes)
  /\ val \in [Nodes -> 0..MaxMsgs]
  /\ free \subseteq Nodes /\ sent \in 0..MaxMsgs
  /\ wpc \in [Writers -> {"idle", "load", "cas", "notify"}]
  /\ new \in [Writers -> Nodes \cup {Null}]
  /\ seen \in [Writers -> Pointers]
  /\ rpc \in {"idle", "load", "cas", "block", "await", "asleep", "timeout",
              "parked", "done"}
  /\ op \in {"none", "pop", "peek", "peek_all", "count", "close"}
  /\ e \in Pointers

\* The writers that hold a message they have not pushed yet.
Held == {t \in Writers : new[t] # Null}

\* Every address is at one place: unused, held by one writer, on the stack
\* once or in the reader's list once.  No message leaks, is deleted twice or
\* is linked into two lists, also when an address comes back while a writer
\* still remembers it.
MemorySafe ==
  LET lists == Chain(stack) \o head
      inUse == Range(lists) \cup {new[t] : t \in Held}
  IN  /\ free \cup inUse = Nodes /\ free \cap inUse = {}
      /\ Cardinality(inUse) = Len(lists) + Cardinality(Held)

\* fetch_new_data finds neither a blocked nor a closed queue.
FetchIsLegal ==
  /\ rpc = "load" => stack \notin {BlockedDummy, Null}
  /\ rpc = "cas" => e \notin {BlockedDummy, Null}

\* A sleeping reader has a message only if a notification is on its way.
NoLostWakeup ==
  rpc = "asleep" /\ stack # BlockedDummy =>
    \E t \in Writers : wpc[t] = "notify"

\* A reader that sleeps while there is a message is woken.
SleeperWakes ==
  rpc = "asleep" /\ stack # BlockedDummy ~> rpc # "asleep"

\* What the messages of a list say, in its order.
Said(ns) == [i \in DOMAIN ns |-> val[ns[i]]]

contents == Said(head \o Reverse(Chain(stack)))
state == IF stack = Null THEN "closed"
         ELSE IF stack = BlockedDummy THEN "blocked" ELSE "open"

Abstract == INSTANCE Mailbox WITH Values <- 1..MaxMsgs

\* The queue implements the abstract mailbox: whatever writers and the reader
\* do at once, each effect is a step of one first-in first-out queue.  The
\* exception is count(), which may put newer messages before older ones; all
\* that follows is again a step of a queue with the messages in that order.
ImplementsMailbox ==
  /\ Abstract!Init
  /\ [][Abstract!Next \/ (op = "count" /\ Fetch)]_<<contents, state>>
=============================================================================
