SPECIFICATION Spec
CONSTANTS
  Supervisors <- ExampleSupervisors
  Actors <- ExampleActors
  NoAddress = "no_address"
  TypeOf <- ExampleTypeOf
  Main = "main"
  Programs = {"add_method", "communication", "delegate", "smart_send", "growing",
              "spawn_supervisor", "spawn_actor", "spawn_bots", "client", "workers"}
  Roots <- ExampleRoots
  Script <- ExampleScript
  Inline <- ExampleInline
  Routing <- ExampleRouting
  System <- ExampleSystem
  Signature <- ExampleSignature
  App <- ExampleApp
  NumActors = 2
  NumTasks = 3
  NumCalls = 2
INVARIANTS
  TypeOK
  LinksSettle
  LinksMutual
  LookupAfterLink
  SyncSeesCreator
  TurnWithinRound
  
  DispatcherFindsAll
PROPERTIES
  BroadcastUndisturbed
  Settles
CHECK_DEADLOCK FALSE
