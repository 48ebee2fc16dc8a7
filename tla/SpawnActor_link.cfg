SPECIFICATION Spec
CONSTANTS
  Supervisors <- ExampleSupervisors
  Actors <- ExampleActors
  NoAddress = "no_address"
  TypeOf <- ExampleTypeOf
  Main = "main"
  Programs = {"spawn_actor"}
  Roots <- ExampleRoots
  Script <- ExampleScript
  Inline <- ExampleInline
  Routing <- ExampleRouting
  System <- ExampleSystem
  Signature <- ExampleSignature
  App <- ExampleApp
  NumActors = 2
  NumTasks = 3
  NumCalls = 2
INVARIANT Bot1KnowsManager2
CHECK_DEADLOCK FALSE
