\* Three EMTs and two calls of any type.
CONSTANTS
  cCpus = 3
  Requests <- RequestsMC
  Results <- ResultsMC
  MaxCalls = 2
SPECIFICATION LiveSpec
CHECK_DEADLOCK FALSE
INVARIANTS TypeOK KeptApart OneTurn
PROPERTIES ImplementsGathering CallsReturn
