------------------------------ MODULE Examples ------------------------------
(***************************************************************************)
(* The programs under src/examples as instances of Supervision: their      *)
(* supervisors and actors, the handlers they register, what the handlers   *)
(* do and what main() calls.  Clients of our own join them: "client" calls *)
(* the public interface in any order, with a dummy_executor; "workers"     *)
(* does with worker threads, as far as one thread at a time may call a     *)
(* supervisor; "growing" mixes tasks with the creation of the actors that  *)
(* share them.                                                             *)
(***************************************************************************)
EXTENDS Supervision

CONSTANTS
  NumActors,  \* actors of smart-send (there 9)
  NumTasks,   \* tasks of smart-send (there 9999 of each kind)
  NumCalls    \* calls a client makes once it has created its actors

Bots == {"worker1", "worker2", "worker3"}
ExampleSupervisors ==
  {"dummy", "network1", "network2", "delegator", "smart", "mdb", "mdispatcher",
   "database_test", "manager-1", "manager-2", "sA", "sB"}
ExampleActors ==
  Bots \cup {"storage", "dispatcher", "collection_test", "bot1", "bot2", "bot3",
             "p", "q1", "q2", "q3", "q4"}
ExampleTypeOf ==
  [n \in ExampleSupervisors \cup ExampleActors |->
     CASE n \in Bots -> "bot"
       [] n \in {"q1", "q2", "q3", "q4"} -> "q"
       [] n \in {"network1", "network2", "delegator", "smart"} -> "network"
       [] OTHER -> n]

\* A class of supervisors: what enqueue_base does, system_ and the handlers
\* the constructor adds.  A class of actors is its handlers.
Class(routing, system, handlers) ==
  [routing |-> routing, system |-> system, handlers |-> handlers]
Links == {"sync_contacts", "add_link", "remove_link"}

Order(s, cmd)     == <<Send(s, Msg(NoAddress, cmd, <<>>))>>
Create(s, by, nm) == <<Send(s, Msg(by, "create", << <<"string", nm>> >>))>>
Delegate(s, type, cmd, body) == <<DelegateSend(s, type, cmd, body)>>
Only(ops, n) == [i \in 1 .. n |-> {ops}]

-----------------------------------------------------------------------------
(* add_method, communication, delegate: one supervisor and its storage      *)

DummySupervisor == Class("all", {}, [create |-> <<>>])
DummyHandles(n, msg) == <<Spawn(n, "storage")>>
AddMethodMain == <<{Order("dummy", "create")}>>

NetworkSupervisor ==
  Class("robin", Links, [create_network |-> <<>>, create_storage |-> <<>>])
NetworkHandles(n, msg) ==
  <<Spawn(n, IF msg.cmd = "create_storage" THEN "storage" ELSE "network")>>
CommunicationMain ==
  << {Order("network1", "create_storage")}, {Order("network1", "create_network")},
     {Link("network1", "network2")},
     {Order("network2", "create_storage")}, {Order("network2", "create_network")} >>

Storage == [update |-> <<"string">>, find |-> <<>>, remove |-> <<>>, status |-> <<>>]
DelegateSupervisor ==
  Class("robin", Links \cup {"spawn_actor", "delegate", "create"}, [create |-> <<>>])
DelegateMain ==
  << {Order("delegator", "create")},
     {Delegate("delegator", "storage", "update", << <<"string", "payload">> >>)},
     {Delegate("delegator", "storage", "find", <<>>)},
     {Delegate("delegator", "storage", "remove", <<>>)},
     {Delegate("delegator", "storage", "status", <<>>)} >>

-----------------------------------------------------------------------------
(* smart-send: tasks in turn, and broadcasts                                *)

Worker == [download |-> <<"download_data">>, work_data |-> <<"work_data">>]
SmartSupervisor ==
  Class("robin", Links \cup {"spawn_actor", "create"}, [create |-> <<>>])
SmartHandles(n, msg) == <<Spawn(n, "bot")>>
MakeTask ==
  <<Send("smart", Msg("smart", "download", << <<"download_data", 0>> >>))>>
MakeTaskBroadcast ==
  <<Broadcast("smart", NoAddress, Msg("smart", "work_data", << <<"work_data", 0>> >>))>>
SmartSendMain ==
  Only(Order("smart", "create"), NumActors) \o Only(MakeTask, NumTasks)
    \o Only(MakeTaskBroadcast, NumTasks)

\* Ours: actors join between the tasks.
GrowingMain ==
  Only(MakeTask, 1) \o [i \in 1 .. 3 |-> {MakeTask, Order("smart", "create")}]
    \o Only(MakeTask, NumTasks)

-----------------------------------------------------------------------------
(* spawn_actor: managers announce the bots they create                      *)

Bot2 == [spawn_broadcast |-> <<"address">>, print_links |-> <<>>]
Bot3 == [spawn_broadcast |-> <<"address">>, print_links |-> <<>>]
Bot1 == [spawn_actor_in_bot |-> <<>>, spawn_broadcast |-> <<"address">>, print_links |-> <<>>]
Manager ==
  Class("lite", Links \cup {"spawn_actor", "delegate", "spawn_broadcast", "create_worker",
                            "create_worker2", "create_worker3"},
        [spawn_broadcast |-> <<"address", "address">>, create_worker |-> <<>>,
         create_worker2 |-> <<>>, create_worker3 |-> <<>>])

\* A bot links with the next kind of bot it hears of; bot1 also asks for them.
BotHandles(n, msg) ==
  CASE msg.cmd = "spawn_actor_in_bot" ->
         << Tell(n, "manager-2", Msg(n, "create_worker2", <<>>)),
            Tell(n, "manager-2", Msg(n, "create_worker3", <<>>)) >>
    [] msg.cmd = "spawn_broadcast" /\
       <<n, msg.body[1][2]>> \in {<<"bot1", "bot2">>, <<"bot2", "bot3">>} ->
         Link(n, msg.body[1][2])
    [] OTHER -> <<>>

CreateWorker(n, msg) ==
  <<Spawn(n, CASE msg.cmd = "create_worker"  -> "bot1"
               [] msg.cmd = "create_worker2" -> "bot2"
               [] msg.cmd = "create_worker3" -> "bot3")>>

\* Mutants: an announcement goes back to where it came from; a manager links
\* itself with the one that announces.
SpawnBroadcastToAll(n, msg) ==
  << Broadcast(n, NoAddress,
       Msg(n, "spawn_broadcast", << <<"address", n>>, msg.body[2] >>)) >>
SpawnBroadcastLinks(n, msg) == Link(n, msg.body[1][2])

\* supervisor_lite::spawn_broadcast passes an announcement on.
SpawnBroadcast(n, msg) ==
  << Broadcast(n, ExampleTypeOf[msg.body[1][2]],
       Msg(n, "spawn_broadcast", << <<"address", n>>, msg.body[2] >>)) >>
ManagerHandles(n, msg) ==
  IF msg.cmd = "spawn_broadcast" THEN SpawnBroadcast(n, msg) ELSE CreateWorker(n, msg)

SpawnActorMain ==
  << {Link("manager-1", "manager-2")}, {Order("manager-1", "create_worker")},
     {Delegate("manager-1", "bot1", "add_link", << <<"address", "manager-2">> >>)},
     {Delegate("manager-1", "bot1", "spawn_actor_in_bot", <<>>)},
     {Delegate("manager-1", "bot1", "print_links", <<>>)},
     {Delegate("manager-2", "bot2", "print_links", <<>>)},
     {Delegate("manager-2", "bot3", "print_links", <<>>)} >>

\* Ours: its second half, with main() making bot1's requests.
SpawnBotsMain ==
  << {Link("manager-1", "manager-2")},
     {Order("manager-2", "create_worker2"), Order("manager-1", "create_worker")},
     {Order("manager-2", "create_worker3")},
     {Delegate("manager-2", "bot3", "print_links", <<>>)} >>

-----------------------------------------------------------------------------
(* spawn_supervisor: a dispatcher, a database and its collections           *)

Dispatcher ==
  [create_database |-> <<"string">>, create_collection |-> <<"string", "string">>,
   insert |-> <<"string", "int", "int">>]
DispatcherHandles(n, msg) ==
  << CASE msg.cmd = "create_database"   -> Tell(n, "mdb", Msg(n, "create", msg.body))
       [] msg.cmd = "create_collection" ->
            Tell(n, msg.body[1][2], Msg(n, "create", <<msg.body[2]>>))
       [] msg.cmd = "insert" -> Tell(n, "collection_test", Msg(n, "insert", msg.body)) >>
Collection == [insert |-> <<"int", "int">>]

Database == Class("all", {}, [create |-> <<"string">>])
Mdb      == Class("all", {}, [create |-> <<"string">>])
MdbHandles(n, msg) == <<Spawn(n, msg.body[1][2])>>
Mdispatcher == Class("all", {}, [create |-> <<"string">>])
MdispatcherHandles(n, msg) ==
  <<Spawn(n, msg.body[1][2]), Introduce(n, "mdb", msg.body[1][2])>>

SpawnSupervisorMain ==
  << {Link("mdb", "mdispatcher")}, {Create("mdispatcher", NoAddress, "dispatcher")},
     {Delegate("mdispatcher", "dispatcher", "create_database",
               << <<"string", "database_test">> >>)},
     {Delegate("mdispatcher", "dispatcher", "create_collection",
               << <<"string", "database_test">>, <<"string", "collection_test">> >>)},
     {Delegate("mdispatcher", "dispatcher", "insert",
               << <<"string", "collection_test">>, <<"int", 1>>, <<"int", 5>> >>)} >>

-----------------------------------------------------------------------------
(* A client that calls the public interface in any order                    *)

Client == Class("all", {}, [create |-> <<"string">>])
Peer   == [ping |-> <<>>, leave |-> <<>>, hire |-> <<>>]
PeerHandles(n, msg) ==
  CASE msg.cmd = "leave" -> <<Tell(n, "sA", Msg(n, "remove_link", <<>>))>>
    [] msg.cmd = "hire"  -> <<Tell(n, "sA", Msg(n, "create", << <<"string", "q">> >>))>>
    [] OTHER -> <<>>

ClientCalls ==
  { Link("sA", "sB"), <<DelegateSend("sA", "p", "ping", <<>>)>>,
    <<DelegateSend("sA", "q", "ping", <<>>)>>,
    <<Broadcast("sA", NoAddress, Msg("sB", "ping", <<>>))>>,
    <<BroadcastTo("sA", "q", Msg("sA", "ping", <<>>))>>,
    \* the overload of delegate_send that takes an address_t
    <<Send("sA", Msg("sA", "delegate", << <<"address", "sB">>,
                      <<"message", Msg(NoAddress, "ping", <<>>)>> >>))>>,
    <<Send("sA", Msg("sA", "add_link", <<>>))>>, <<Send("sA", Msg(NoAddress, "add_link", <<>>))>>,
    <<Send("sA", Msg("sB", "ping", <<>>))>>, <<Send("sA", Msg(NoAddress, "ping", <<>>))>> }

ClientScript ==
  << {Create("sA", NoAddress, "p"), Create("sA", "sB", "p")},
     {Create("sA", NoAddress, "q"), Create("sB", "sA", "q"), Link("sA", "sB")},
     {Create("sA", "sA", "q"), <<>>} >>

\* After these an actor calls sA, or forgets it.
ActorCalls ==
  { Delegate("sA", "p", "leave", <<>>), Delegate("sA", "q", "leave", <<>>),
    Delegate("sA", "p", "hire", <<>>), Delegate("sA", "p", "remove_link", <<>>) }

ClientMain == ClientScript \o [i \in 1 .. NumCalls |-> ClientCalls \cup ActorCalls]

\* No supervisor may be called from two threads at once, and main() cannot wait
\* for an actor: it makes an actor call one only in its last call.
WorkersMain == SubSeq(ClientScript, 1, 2) \o <<ClientCalls \cup ActorCalls>>

-----------------------------------------------------------------------------
(* The tables Supervision takes                                             *)

ClassOf ==
  [s \in ExampleSupervisors |->
     CASE s = "dummy" -> DummySupervisor
       [] s \in {"network1", "network2"} -> NetworkSupervisor
       [] s = "delegator" -> DelegateSupervisor
       [] s = "smart" -> SmartSupervisor
       [] s \in {"manager-1", "manager-2"} -> Manager
       [] s = "database_test" -> Database
       [] s = "mdb" -> Mdb
       [] s = "mdispatcher" -> Mdispatcher
       [] OTHER -> Client]
ExampleRouting == [s \in ExampleSupervisors |-> ClassOf[s].routing]
ExampleSystem  == [s \in ExampleSupervisors |-> ClassOf[s].system]
ExampleSignature ==
  [n \in ExampleSupervisors \cup ExampleActors |->
     CASE n \in ExampleSupervisors -> ClassOf[n].handlers
       [] n = "storage" -> Storage
       [] n \in Bots -> Worker
       [] n = "bot1" -> Bot1
       [] n = "bot2" -> Bot2
       [] n = "bot3" -> Bot3
       [] n = "dispatcher" -> Dispatcher
       [] n = "collection_test" -> Collection
       [] OTHER -> Peer]

ExampleApp(n, msg) ==
  CASE n \in {"dummy", "delegator"} -> DummyHandles(n, msg)
    [] n \in {"network1", "network2"} -> NetworkHandles(n, msg)
    [] n = "smart" -> SmartHandles(n, msg)
    [] n \in {"manager-1", "manager-2"} -> ManagerHandles(n, msg)
    [] n \in {"bot1", "bot2", "bot3"} -> BotHandles(n, msg)
    [] n = "dispatcher" -> DispatcherHandles(n, msg)
    [] n = "mdispatcher" -> MdispatcherHandles(n, msg)
    [] n \in {"mdb", "database_test", "sA", "sB"} -> MdbHandles(n, msg)
    [] OTHER -> PeerHandles(n, msg)

\* The programs whose dummy_executor runs an actor inside execute.
ExampleInline ==
  [p \in Programs |-> p \in {"add_method", "communication", "spawn_supervisor", "client"}]

ExampleRoots ==
  [p \in Programs |->
     CASE p = "add_method"       -> {"dummy"}
       [] p = "communication"    -> {"network1", "network2"}
       [] p = "delegate"         -> {"delegator"}
       [] p \in {"smart_send", "growing"} -> {"smart"}
       [] p = "spawn_supervisor" -> {"mdb", "mdispatcher"}
       [] p \in {"spawn_actor", "spawn_bots"} -> {"manager-1", "manager-2"}
       [] OTHER                  -> {"sA", "sB"}]

ExampleScript ==
  [p \in Programs |->
     CASE p = "add_method"       -> AddMethodMain
       [] p = "communication"    -> CommunicationMain
       [] p = "delegate"         -> DelegateMain
       [] p = "smart_send"       -> SmartSendMain
       [] p = "growing"          -> GrowingMain
       [] p = "spawn_supervisor" -> SpawnSupervisorMain
       [] p = "spawn_actor"      -> SpawnActorMain
       [] p = "spawn_bots"       -> SpawnBotsMain
       [] p = "client"           -> ClientMain
       [] p = "workers"          -> WorkersMain]

-----------------------------------------------------------------------------
(* What the programs achieve                                                *)

Handled(a, cmd) == Len(SelectSeq(handled[a], LAMBDA c : c = cmd))


\* spawn_supervisor gets as far as the insert: the dispatcher always finds the
\* database and the collection that supervisors two levels down created on its
\* behalf, because their links reach its mailbox before main()'s next command.
DispatcherFindsAll ==
  program = "spawn_supervisor" =>
    /\ halted # Alive => halted.why = "bad_any_cast" /\ halted.at = "collection_test"
    /\ Quiet => halted # Alive

\* spawn_actor: once bot1 has taken both the link of its own supervisor and
\* the delegated add_link that main() sends to link it with manager-2, it
\* knows manager-2.
Bot1KnowsManager2 ==
  /\ SelectSeq(handled["bot1"], LAMBDA c : c = "add_link") = <<"add_link", "add_link">>
  /\ Exec("bot1") \notin ToSet(stack["bot1"])
  => Book("bot1", "manager-2") # <<>>
=============================================================================
