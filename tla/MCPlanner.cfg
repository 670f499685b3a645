SPECIFICATION FairSpec
CONSTANT Inputs <- ThreeOperations
INVARIANTS
  TypeOK
  EdgesRespected
  PlanComplete
  ThrownOnlyOnCycle
  MinIdFirst
  ComputesPlanOrder
PROPERTY Ends
CHECK_DEADLOCK FALSE
