CONSTANTS
  Interval = 2
  EventStages = 1
  LastStage = 3
  StaleAfter = 4
  MaxWaiting = 2
  MaxFaults = 2

SPECIFICATION Spec

INVARIANTS
  TypeOK
  OneSchedulerJob
  StatusFollowsTheSync

PROPERTIES
  
  SyncsGoOn
  StallIsRepaired
  RefusalEnds
  RequestsAreServed
