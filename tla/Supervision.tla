----------------------------- MODULE Supervision -----------------------------
(***************************************************************************)
(* Supervisors, actors, the addresses they know of each other and the      *)
(* messages they exchange: supervisor_abstract, actor_abstract,            *)
(* communication_module, address_t, message, send, link and broadcast,     *)
(* under a program that is a parameter.                                    *)
(*                                                                         *)
(* A supervisor handles a message inside enqueue, on the thread of the     *)
(* sender; an actor handles it later, in run.  Calls therefore nest, and   *)
(* every thread has a call stack of the operations it still has to do:     *)
(*                                                                         *)
(*   send       address_t::enqueue         tell     send(address_book(..)) *)
(*   wake       cooperative_actor::enqueue_base after the push             *)
(*   turn       redirect_robin after its enqueue                           *)
(*   exec       communication_module::execute                              *)
(*   spawn      spawn_actor, spawn_supervisor       know     add_link_impl *)
(*   sync       the second half of supervisor_abstract::sync               *)
(*   introduce  link(address_book(..), ..)                                 *)
(*   cast, each broadcast to every contact  castto  broadcast to one type  *)
(*   run        the loop of cooperative_actor::run and, over, its end      *)
(*                                                                         *)
(* One step is one operation; threads interleave between operations.  A    *)
(* mailbox is a FIFO queue that run drains; CooperativeActor has the       *)
(* single accesses and what several senders and workers make of them.      *)
(***************************************************************************)
EXTENDS Naturals, Sequences, FiniteSets, SequencesExt

CONSTANTS
  Supervisors, Actors,  \* the objects a program may construct
  NoAddress,            \* address_t::empty_address()
  TypeOf,               \* type_ of every object: the key it is filed under
  Main,                 \* the thread of main()
  Programs,             \* the programs to check
  Roots,                \* the supervisors a program's main() constructs
  Script,               \* what main() calls: a sequence of alternatives
  Inline,               \* the executor runs an actor inside execute()
  Routing,              \* enqueue_base of a supervisor: "all", "lite", "robin"
  System,               \* system_: the commands a supervisor handles itself
  Signature,            \* add_handler: the parameters of each own command
  App(_, _)             \* the operations a handler of the program performs

Nodes   == Supervisors \cup Actors
Threads == {Main} \cup Actors
Types   == {TypeOf[n] : n \in Nodes}

ASSUME NodesAssumption ==
  /\ Supervisors \cap Actors = {}
  /\ Main \notin Nodes /\ NoAddress \notin Nodes
ASSUME TablesAssumption ==
  /\ \A n \in Nodes : n \in DOMAIN TypeOf /\ n \in DOMAIN Signature
  /\ \A s \in Supervisors : Routing[s] \in {"all", "lite", "robin"}
  /\ \A p \in Programs : Roots[p] \subseteq Supervisors /\ Inline[p] \in BOOLEAN

\* The operations a program may ask for; the others are the framework's own.
\* spawn_actor, spawn_supervisor and broadcast are methods of supervisors.
CallKinds == {"send", "tell", "introduce", "spawn", "cast", "castto"}
OnlyCalls(ops) ==
  /\ ops \in Seq(ToSet(ops))
  /\ \A i \in 1 .. Len(ops) :
       /\ ops[i].k \in CallKinds
       /\ ops[i].k \in {"spawn", "cast", "castto"} => ops[i].at \in Supervisors

ASSUME ScriptsAssumption ==
  \A p \in Programs :
    /\ Script[p] \in Seq(ToSet(Script[p]))
    /\ \A i \in 1 .. Len(Script[p]) : \A call \in Script[p][i] : OnlyCalls(call)

VARIABLES
  program,   \* the program that runs
  script,    \* what main() has still to call
  stack,     \* the operations each thread has still to do, innermost first
  created,   \* the objects constructed so far
  contacts,  \* contacts_: per object, a list of addresses per known type
  current,   \* current_message_
  inbox,     \* mailbox_ of each actor
  running,   \* the actors with flags_ = busy
  owned,     \* actors_ of each supervisor
  cursor,    \* cursor of redirect_robin
  halted,    \* how the process died, if it did
  asked,     \* history: who asked each object, by add_link, to be known, by type
  unlinked,  \* history: the types each object was asked to forget
  handled,   \* history: the commands each actor took from its mailbox
  turns      \* history: actors joining a round robin and getting its tasks

books == <<created, contacts, owned>>
past  == <<asked, unlinked, handled, turns>>
vars  == <<program, script, stack, books, current, inbox, running, cursor,
           halted, past>>

Alive == [why |-> "alive", at |-> NoAddress, type |-> ""]

-----------------------------------------------------------------------------
(* Messages and operations                                                  *)

\* A body is a sequence of <<sort, value>>: the std::any or std::tuple in it.
Msg(sender, cmd, body) == [sender |-> sender, cmd |-> cmd, body |-> body]

Send(to, msg)            == [k |-> "send", to |-> to, msg |-> msg, via |-> NoAddress]
Exec(n)                  == [k |-> "exec", at |-> n]
Wake(a)                  == [k |-> "wake", at |-> a]
Turn(s)                  == [k |-> "turn", at |-> s]
Run(a)                   == [k |-> "run", at |-> a, over |-> FALSE]
RunOver(a)               == [k |-> "run", at |-> a, over |-> TRUE]
Tell(n, type, msg)       == [k |-> "tell", at |-> n, type |-> type, msg |-> msg]
Spawn(s, type)           == [k |-> "spawn", at |-> s, type |-> type]
Introduce(s, type, to)   == [k |-> "introduce", at |-> s, type |-> type, to |-> to]
Broadcast(s, skip, msg)  == [k |-> "cast", at |-> s, done |-> {skip}, msg |-> msg]
Each(s, done, msg)       == [k |-> "each", at |-> s, done |-> done, msg |-> msg]
BroadcastTo(s, type, msg) == [k |-> "castto", at |-> s, type |-> type, msg |-> msg]

\* Mutant: a second half that is never sent.
LinkOneWay(a1, a2) == << Send(a1, Msg(a2, "add_link", <<>>)) >>

\* detail::link_imp: two messages, each naming the other side as its sender.
Link(a1, a2) == << Send(a1, Msg(a2, "add_link", <<>>)),
                   Send(a2, Msg(a1, "add_link", <<>>)) >>

\* delegate_send: the real message travels inside one to the supervisor itself.
DelegateSend(s, type, cmd, body) ==
  Send(s, Msg(s, "delegate", << <<"string", type>>,
                                <<"message", Msg(NoAddress, cmd, body)>> >>))

\* Two maps in one, in which an entry of the first hides one of the second.
Merge(f, g) ==
  [x \in DOMAIN f \cup DOMAIN g |-> IF x \in DOMAIN f THEN f[x] ELSE g[x]]

\* The handlers of the base class are registered first, and `on' keeps the
\* first handler of a name.
Handlers(n) ==
  Merge(IF n \in Actors THEN [add_link |-> <<>>, remove_link |-> <<>>]
        ELSE [add_link |-> <<>>, remove_link |-> <<>>, delegate |-> <<"string", "message">>],
        Signature[n])

\* transformer: a handler without parameters ignores the body, any other one
\* casts it to exactly its parameters.
Accepts(signature, body) ==
  signature = <<>> \/ signature = [i \in DOMAIN body |-> body[i][1]]

Book(n, type) == IF type \in DOMAIN contacts[n] THEN contacts[n][type] ELSE <<>>

-----------------------------------------------------------------------------
(* Control: what a thread does next                                         *)

At(t, k) == halted = Alive /\ stack[t] # <<>> /\ Head(stack[t]).k = k
Op(t)    == Head(stack[t])
Then(t, ops) == stack' = [stack EXCEPT ![t] = ops \o Tail(@)]
\* ... and nothing else changes.
Goto(t, ops) ==
  /\ Then(t, ops)
  /\ UNCHANGED <<program, script, books, current, inbox, running, cursor, halted, past>>

\* An exception leaves a thread, or a null or dangling pointer is followed.
Halt(why, at, type) ==
  /\ halted' = [why |-> why, at |-> at, type |-> type]
  /\ UNCHANGED <<program, script, stack, books, current, inbox, running, cursor, past>>

\* main() makes its next call.
Call ==
  /\ halted = Alive /\ stack[Main] = <<>> /\ script # <<>>
  /\ \E call \in Head(script) : stack' = [stack EXCEPT ![Main] = call]
  /\ script' = Tail(script)
  /\ UNCHANGED <<program, books, current, inbox, running, cursor, halted, past>>

-----------------------------------------------------------------------------
(* address_t::enqueue                                                       *)

\* n is asked to know a.
Ask(n, a) ==
  asked' = IF a \in {NoAddress, n} THEN asked
           ELSE [asked EXCEPT ![n][TypeOf[a]] = Append(@, a)]

\* What the histories keep of a message handed to n.
Note(n, msg) ==
  /\ IF msg.cmd = "add_link" THEN Ask(n, msg.sender) ELSE UNCHANGED asked
  /\ unlinked' = IF msg.cmd = "remove_link" /\ msg.sender # NoAddress
                 THEN unlinked \cup {<<n, TypeOf[msg.sender]>>} ELSE unlinked


\* cooperative_actor::enqueue_base, first: mailbox().enqueue
Post(a, msg) ==
  /\ inbox' = [inbox EXCEPT ![a] = Append(@, msg)]
  /\ Note(a, msg)

SendToActor(t) ==
  /\ At(t, "send") /\ Op(t).to \in Actors
  /\ Post(Op(t).to, Op(t).msg)
  /\ Then(t, <<Wake(Op(t).to)>>)
  /\ UNCHANGED <<program, script, books, current, running, cursor, halted, handled,
                 turns>>

\* The rest of enqueue_base: an actor whose flags() are empty is handed to the
\* executor, which runs it on a thread of its own or, a dummy_executor, on this
\* one.
Schedule(t) ==
  LET a    == Op(t).at
      rest == [stack EXCEPT ![t] = Tail(@)]
      on   == IF Inline[program] THEN t ELSE a
  IN  /\ At(t, "wake")
      /\ running' = running \cup {a}
      /\ stack' = IF a \in running THEN rest
                  ELSE [rest EXCEPT ![on] = <<Run(a)>> \o @]
      /\ UNCHANGED <<program, script, books, current, inbox, cursor, halted, past>>

\* enqueue through an empty address.
SendNowhere(t) ==
  /\ At(t, "send") /\ Op(t).to = NoAddress
  /\ Halt("null", NoAddress, "")

Local(s, cmd) == Routing[s] = "all" \/ cmd \in System[s]

\* enqueue_base of the examples' supervisors: set_current_message, execute.
SendToSupervisor(t) ==
  /\ At(t, "send") /\ Op(t).to \in Supervisors /\ Local(Op(t).to, Op(t).msg.cmd)
  /\ current' = [current EXCEPT ![Op(t).to] = Op(t).msg]
  /\ Then(t, <<Exec(Op(t).to)>>)
  /\ Note(Op(t).to, Op(t).msg)
  /\ UNCHANGED <<program, script, books, inbox, running, cursor, halted, handled, turns>>

\* Mutant: the turn starts again whenever the round is not over.
NextCursorReset(s) == IF cursor[s] + 1 < Len(owned[s]) THEN 0 ELSE cursor[s]

NextCursor(s) == IF cursor[s] + 1 >= Len(owned[s]) THEN 0 ELSE cursor[s] + 1

\* redirect_robin: any other command goes to the actors in turn.
RedirectRobin(t) ==
  LET s == Op(t).to
      a == owned[s][cursor[s] + 1]
  IN  /\ At(t, "send") /\ s \in Supervisors /\ ~Local(s, Op(t).msg.cmd)
      /\ Routing[s] = "robin" /\ owned[s] # <<>>
      /\ Post(a, Op(t).msg)
      /\ Then(t, <<Wake(a), Turn(s)>>)
      /\ turns' = Append(turns, <<"task", a>>)
      /\ UNCHANGED <<program, script, books, current, running, cursor, halted, handled>>

\* Only after the enqueue, which may have run the actor, comes ++cursor.
Advance(t) ==
  /\ At(t, "turn")
  /\ cursor' = [cursor EXCEPT ![Op(t).at] = NextCursor(Op(t).at)]
  /\ Then(t, <<>>)
  /\ UNCHANGED <<program, script, books, current, inbox, running, halted, past>>

\* No actor to redirect to, or a supervisor that only knows its own commands.
DropMessage(t) ==
  LET s == Op(t).to
  IN  /\ At(t, "send") /\ s \in Supervisors /\ ~Local(s, Op(t).msg.cmd)
      /\ Routing[s] = "lite" \/ owned[s] = <<>>
      /\ Goto(t, <<>>)

-----------------------------------------------------------------------------
(* communication_module::execute                                            *)

\* The message t is about to handle at n, of command cmd, with a handler that
\* takes it.
Handling(t, cmd) ==
  LET msg == current[Op(t).at]
  IN  /\ At(t, "exec") /\ msg.cmd = cmd
      /\ Accepts(Handlers(Op(t).at)[cmd], msg.body)

\* No handler: error_skip asks the sender for its type.
NoHandler(t) ==
  LET msg == current[Op(t).at]
  IN  /\ At(t, "exec") /\ msg.cmd \notin DOMAIN Handlers(Op(t).at)
      /\ IF msg.sender = NoAddress THEN Halt("null", Op(t).at, msg.cmd)
         ELSE Goto(t, <<>>)

\* The body is not what the handler takes: bad_any_cast (or the assert in body).
BadCast(t) ==
  LET msg == current[Op(t).at]
  IN  /\ At(t, "exec") /\ msg.cmd \in DOMAIN Handlers(Op(t).at)
      /\ ~Accepts(Handlers(Op(t).at)[msg.cmd], msg.body)
      /\ Halt("bad_any_cast", Op(t).at, msg.cmd)

\* Mutants: a list is replaced by its newest address; an actor keeps only the
\* first address it hears of, whatever its type.
AcquaintedLast(n, a) == Merge([x \in {TypeOf[a]} |-> <<a>>], contacts[n])
AcquaintedOnce(n, a) ==
  IF n \in Actors /\ DOMAIN contacts[n] # {} THEN contacts[n]
  ELSE Merge([x \in {TypeOf[a]} |-> Append(Book(n, TypeOf[a]), a)], contacts[n])

\* add_link_impl: a supervisor appends to the list of the type, an actor keeps
\* the first address of a type.
Acquainted(n, a) ==
  LET type == TypeOf[a]
  IN  IF n \in Actors /\ type \in DOMAIN contacts[n] THEN contacts[n]
      ELSE Merge([x \in {type} |-> Append(Book(n, type), a)], contacts[n])

\* Mutant: no test for the object's own address.
MeetAnyone(t, n, a) ==
  /\ contacts' = [contacts EXCEPT ![n] = Acquainted(n, a)]
  /\ Then(t, <<>>)
  /\ UNCHANGED <<program, script, created, owned, inbox, running, cursor, halted,
                 unlinked, handled, turns>>

\* add_link_impl for an address that is not empty.
Meet(t, n, a) ==
  /\ contacts' = IF a = n THEN contacts
                 ELSE [contacts EXCEPT ![n] = Acquainted(n, a)]
  /\ Then(t, <<>>)
  /\ UNCHANGED <<program, script, created, owned, inbox, running, cursor, halted,
                 unlinked, handled, turns>>

\* The sender is moved out of the message, except into an actor's own error
\* branch.  (The move leaves an uninitialised pointer there, not an empty one;
\* the next message replaces it before anyone reads it, see SyncSeesCreator.)
\* The error branch prints address.type(), also of an empty address.
AddLink(t) ==
  LET n == Op(t).at
      a == current[n].sender
  IN  /\ Handling(t, "add_link")
      /\ \/ a = NoAddress /\ Halt("null", n, "add_link")
         \/ /\ a # NoAddress
            /\ Meet(t, n, a)
            /\ current' = IF n \in Actors /\ a = n THEN current
                          ELSE [current EXCEPT ![n] = Msg(NoAddress, @.cmd, @.body)]
            /\ UNCHANGED asked

\* remove_link_impl of an actor: whatever it knows under the sender's type goes.
RemoveLinkActor(t) ==
  LET n == Op(t).at
      a == current[n].sender
  IN  /\ Handling(t, "remove_link") /\ n \in Actors
      /\ IF a = NoAddress THEN Halt("null", n, "remove_link")
         ELSE /\ contacts' = [contacts EXCEPT ![n] =
                    [x \in DOMAIN @ \ {TypeOf[a]} |-> @[x]]]
              /\ Then(t, <<>>)
              /\ UNCHANGED <<program, script, created, owned, current, inbox,
                             running, cursor, halted, past>>

\* The elements of a set of positions, in their order.
Ascending(S) ==
  {f \in [1 .. Cardinality(S) -> S] : \A i, j \in DOMAIN f : i < j => f[i] < f[j]}

\* remove_link_impl of a supervisor: after erase(i) the loop steps on from the
\* node it has just freed, which works out or crashes.
RemoveLinkSupervisor(t) ==
  LET n    == Op(t).at
      a    == current[n].sender
      list == Book(n, TypeOf[a])
      kept == {i \in DOMAIN list : list[i] # a}
  IN  /\ Handling(t, "remove_link") /\ n \in Supervisors
      /\ \/ a = NoAddress /\ Halt("null", n, "remove_link")
         \/ a # NoAddress /\ kept # DOMAIN list /\ Halt("erased", n, TypeOf[a])
         \/ /\ a # NoAddress
            /\ \E f \in Ascending(kept) : contacts' = [contacts EXCEPT ![n] =
                  [x \in DOMAIN @ |-> IF x = TypeOf[a] THEN [i \in DOMAIN f |-> list[f[i]]]
                                     ELSE @[x]]]
            /\ Then(t, <<>>)
            /\ UNCHANGED <<program, script, created, owned, current, inbox,
                           running, cursor, halted, past>>

\* supervisor_abstract::redirect: the supervisor becomes the sender.
Redirect(t) ==
  LET n    == Op(t).at
      body == current[n].body
      tmp  == body[2][2]
  IN  /\ Handling(t, "delegate") /\ n \in Supervisors
      /\ Goto(t, <<Tell(n, body[1][2], Msg(n, tmp.cmd, tmp.body))>>)

\* A handler the program registered.
AppHandler(t) ==
  LET n   == Op(t).at
      msg == current[n]
  IN  /\ At(t, "exec") /\ msg.cmd \in DOMAIN Handlers(n)
      /\ msg.cmd \notin {"add_link", "remove_link", "delegate"}
      /\ Handling(t, msg.cmd)
      /\ Goto(t, App(n, msg))

-----------------------------------------------------------------------------
(* address_book, broadcast                                                  *)

\* send(address_book(type), msg)
TellKnown(t) ==
  /\ At(t, "tell") /\ Book(Op(t).at, Op(t).type) # <<>>
  /\ Goto(t, <<Send(Head(Book(Op(t).at, Op(t).type)), Op(t).msg)>>)

\* An actor's address_book throws; a supervisor's returns the empty address,
\* or dereferences the end of a list that remove_link has emptied.
TellUnknown(t) ==
  LET n == Op(t).at
  IN  /\ At(t, "tell") /\ Book(n, Op(t).type) = <<>>
      /\ \/ n \in Actors /\ Halt("out_of_range", n, Op(t).type)
         \/ /\ n \in Supervisors /\ Op(t).type \in DOMAIN contacts[n]
            /\ Halt("end", n, Op(t).type)
         \/ /\ n \in Supervisors /\ Op(t).type \notin DOMAIN contacts[n]
            /\ Goto(t, <<Send(NoAddress, Op(t).msg)>>)

\* link(address_book(type), to)
DoIntroduce(t) ==
  LET book == Book(Op(t).at, Op(t).type)
      a    == IF book = <<>> THEN NoAddress ELSE Head(book)
  IN  /\ At(t, "introduce")
      /\ Goto(t, Link(a, Op(t).to))

\* One clone of the message for every entry of a list.
Copies(s, type, msg) ==
  [i \in DOMAIN Book(s, type) |->
     [Send(Book(s, type)[i], msg) EXCEPT !.via = s]]

\* broadcast(msg) and spawn_broadcast: the loop over contacts_, all of its lists
\* but one, in the order of an unordered_map.
DoBroadcast(t) ==
  LET s    == Op(t).at
      left == DOMAIN contacts[s] \ Op(t).done
  IN  /\ At(t, "cast") \/ At(t, "each")
      /\ \/ left = {} /\ Goto(t, <<>>)
         \/ \E type \in left :
              Goto(t, Copies(s, type, Op(t).msg) \o
                        <<Each(s, Op(t).done \cup {type}, Op(t).msg)>>)

\* broadcast(type, msg): contacts_.find is not compared with end().
DoBroadcastTo(t) ==
  LET s == Op(t).at
  IN  /\ At(t, "castto")
      /\ IF Op(t).type \notin DOMAIN contacts[s] THEN Halt("end", s, Op(t).type)
         ELSE Goto(t, Copies(s, Op(t).type, Op(t).msg))

-----------------------------------------------------------------------------
(* spawn_actor, spawn_supervisor                                            *)

\* An object the program has not constructed yet.
Fresh(type) == CHOOSE n \in Nodes \ created : TypeOf[n] = type

\* add_actor_impl of spawn_actor's supervisor_lite tells its contacts first.
Announce(s, new) ==
  IF Routing[s] = "lite"
  THEN << Broadcast(s, TypeOf[s], Msg(s, "spawn_broadcast",
                                      << <<"address", s>>, <<"address", new>> >>)) >>
  ELSE <<>>

\* Construction, add_actor_impl (or add_supervisor_impl) and sync.
SpawnOps(s, new) ==
  Announce(s, new) \o
  << [k |-> "know", at |-> s, new |-> new],
     Send(new, Msg(s, "add_link", <<>>)),
     [k |-> "sync", at |-> s, new |-> new, cause |-> current[s]] >>

DoSpawn(t) ==
  LET s   == Op(t).at
      new == Fresh(Op(t).type)
  IN  /\ At(t, "spawn") /\ \E n \in Nodes \ created : TypeOf[n] = Op(t).type
      /\ created' = created \cup {new}
      /\ owned' = IF new \in Actors THEN [owned EXCEPT ![s] = Append(@, new)] ELSE owned
      /\ Then(t, SpawnOps(s, new))
      /\ turns' = IF new \in Actors THEN Append(turns, <<"new", new>>) ELSE turns
      /\ UNCHANGED <<program, script, contacts, current, inbox, running, cursor,
                     halted, asked, unlinked, handled>>

\* sync, first line: add_link_impl(address).
Know(t) ==
  /\ At(t, "know")
  /\ Meet(t, Op(t).at, Op(t).new)
  /\ Ask(Op(t).at, Op(t).new)
  /\ UNCHANGED current

\* Mutant: whoever asked for the new object is not linked with it.
SyncAlone(t) == At(t, "sync") /\ Goto(t, <<>>)

\* sync, the rest: whoever asked for the new object is linked with it, and
\* that is looked up in current_message() only now.
Sync(t) ==
  LET s      == Op(t).at
      sender == current[s].sender
  IN  /\ At(t, "sync")
      /\ Goto(t, IF sender = NoAddress \/ sender = s THEN <<>>
                 ELSE Link(sender, Op(t).new))

-----------------------------------------------------------------------------
(* cooperative_actor::run                                                   *)

Consume(t) ==
  LET a == Op(t).at
  IN  /\ At(t, "run") /\ ~Op(t).over /\ inbox[a] # <<>>
      /\ current' = [current EXCEPT ![a] = Head(inbox[a])]
      /\ inbox' = [inbox EXCEPT ![a] = Tail(@)]
      /\ handled' = [handled EXCEPT ![a] = Append(@, Head(inbox[a]).cmd)]
      /\ stack' = [stack EXCEPT ![t] = <<Exec(a)>> \o @]
      /\ UNCHANGED <<program, script, books, running, cursor, halted, asked,
                     unlinked, turns>>

\* run's last look at the mailbox.  A message that is pushed after it finds the
\* actor still busy.
LastLook(t) ==
  /\ At(t, "run") /\ ~Op(t).over /\ inbox[Op(t).at] = <<>>
  /\ Goto(t, <<RunOver(Op(t).at)>>)

\* Mutant: run returns with the actor still marked busy.
RestBusy(t) == At(t, "run") /\ Op(t).over /\ Goto(t, <<>>)

\* intrusive_ptr_release_impl: flags(empty), whatever has come meanwhile.
Rest(t) ==
  /\ At(t, "run") /\ Op(t).over
  /\ running' = running \ {Op(t).at}
  /\ Then(t, <<>>)
  /\ UNCHANGED <<program, script, books, current, inbox, cursor, halted, past>>

-----------------------------------------------------------------------------
Init ==
  /\ program \in Programs
  /\ script = Script[program]
  /\ stack = [t \in Threads |-> <<>>]
  /\ created = Roots[program]
  /\ contacts = [n \in Nodes |-> <<>>]
  /\ current = [n \in Nodes |-> Msg(NoAddress, "", <<>>)]
  /\ inbox = [a \in Actors |-> <<>>]
  /\ running = {}
  /\ owned = [s \in Supervisors |-> <<>>]
  /\ cursor = [s \in Supervisors |-> 0]
  /\ halted = Alive
  /\ asked = [n \in Nodes |-> [type \in Types |-> <<>>]]
  /\ unlinked = {}
  /\ handled = [a \in Actors |-> <<>>]
  /\ turns = <<>>

Step(t) ==
  \/ SendToActor(t) \/ Schedule(t) \/ SendNowhere(t) \/ SendToSupervisor(t)
  \/ RedirectRobin(t) \/ Advance(t) \/ DropMessage(t)
  \/ NoHandler(t) \/ BadCast(t) \/ AddLink(t) \/ RemoveLinkActor(t)
  \/ RemoveLinkSupervisor(t) \/ Redirect(t) \/ AppHandler(t)
  \/ TellKnown(t) \/ TellUnknown(t) \/ DoIntroduce(t)
  \/ DoBroadcast(t) \/ DoBroadcastTo(t)
  \/ DoSpawn(t) \/ Know(t) \/ Sync(t) \/ Consume(t) \/ LastLook(t) \/ Rest(t)

Next == Call \/ \E t \in Threads : Step(t)

\* Every thread that has something to do eventually does it: main() and the
\* workers are preemptively scheduled threads.
Fairness == WF_vars(Call) /\ \A t \in Threads : WF_vars(Step(t))

Spec == Init /\ [][Next]_vars /\ Fairness

-----------------------------------------------------------------------------
(* Properties                                                               *)

\* main() has made all its calls and every call has returned ...
Returned == script = <<>> /\ \A t \in Threads : stack[t] = <<>>

\* ... and every message sent has been handled.
Quiet == Returned /\ \A a \in Actors : inbox[a] = <<>>

\* Every address filed under a type has that type, nobody knows himself, the
\* objects in use are constructed, and an actor keeps one address per type.
TypeOK ==
  /\ program \in Programs /\ created \subseteq Nodes
  /\ running \subseteq Actors \cap created
  /\ DOMAIN stack = Threads /\ DOMAIN inbox = Actors
  /\ \A s \in Supervisors : cursor[s] \in 0 .. Len(owned[s])
  /\ \A n \in Nodes : \A type \in DOMAIN contacts[n] :
       \A i \in DOMAIN contacts[n][type] :
         /\ contacts[n][type][i] \in created \ {n}
         /\ TypeOf[contacts[n][type][i]] = type
         /\ n \in Actors => i = 1

\* Once everything sent has been handled, what an object knows is what it was
\* asked to know by sync, link and add_link, in the order the messages were
\* sent: no half of a link is lost or overtaken, although some are handled
\* inside enqueue and others later by a worker.
LinksSettle ==
  Quiet /\ halted = Alive =>
    \A n \in created : \A type \in Types :
      \/ <<n, type>> \in unlinked
      \/ Book(n, type) = asked[n][type]
      \/ /\ n \in Actors /\ asked[n][type] # <<>>
         /\ Book(n, type) = <<Head(asked[n][type])>>

\* Once everything sent has been handled links are mutual: whoever holds an
\* address is known to the object at that address, unless that is an actor and
\* keeps another one of the same type, who asked before.
LinksMutual ==
  Quiet /\ halted = Alive =>
    \A n \in created : \A type \in DOMAIN contacts[n] :
      \A m \in ToSet(contacts[n][type]) :
        \/ n \in ToSet(Book(m, TypeOf[n]))
        \/ /\ m \in Actors /\ n \in ToSet(Tail(asked[m][TypeOf[n]]))
           /\ Book(m, TypeOf[n]) = <<Head(asked[m][TypeOf[n]])>>
        \/ <<m, TypeOf[n]>> \in unlinked

\* address_book throws on an actor only for a type that nobody ever asked it
\* to know: a link that was sent is never looked up too early.
LookupAfterLink ==
  halted.why = "out_of_range" =>
    \/ <<halted.at, halted.type>> \in unlinked
    \/ halted.type \in Types => asked[halted.at][halted.type] = <<>>

\* sync reads current_message() after it has sent and broadcast: until then no
\* nested or concurrent enqueue may have replaced the message that asked for
\* the new object.
SyncSeesCreator ==
  \A t \in Threads : \A i \in DOMAIN stack[t] :
    stack[t][i].k = "sync" => current[stack[t][i].at] = stack[t][i].cause

\* Until the last copy of a broadcast has been enqueued the loops hold iterators
\* into contacts_: no handler they call may change the supervisor's lists under
\* them.
BroadcastUndisturbed ==
  [][\A s \in Supervisors : contacts'[s] # contacts[s] =>
       \A t \in Threads : \A i \in DOMAIN stack[t] :
         /\ ~(stack[t][i].k = "send" /\ stack[t][i].via = s)
         /\ ~(stack[t][i].k = "each" /\ stack[t][i].at = s)]_vars

\* redirect_robin passes nobody over: since its last task, or since it joined,
\* an actor has seen fewer tasks go to its supervisor's other actors than there
\* are actors, also when actors join between two tasks.
TurnWithinRound ==
  \A s \in Supervisors : \A a \in ToSet(owned[s]) :
    LET last == CHOOSE i \in DOMAIN turns :
                  turns[i][2] = a /\ \A j \in i + 1 .. Len(turns) : turns[j][2] # a
    IN  Cardinality({j \in last + 1 .. Len(turns) :
                       turns[j][1] = "task" /\ turns[j][2] \in ToSet(owned[s])})
          < Len(owned[s])

\* Every program comes to an end: all calls return, however they nest and
\* whatever the workers do meanwhile, or the process has died.  Where actors run
\* inside execute() every message has been handled then; a worker may have left
\* one behind that came between its last look and flags(empty).
Settles ==
  <>(\/ halted # Alive
     \/ Returned /\ (Inline[program] => Quiet))
=============================================================================
