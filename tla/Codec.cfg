SPECIFICATION Spec
CONSTANTS
  Prime = 97
  Low <- LowModulo97
  Calls <- SomeCalls
  SampleCapacities = {8, 18}
  MemorySize = 20
  MaxTransformed = 64
INVARIANTS
  Recovered
  SamplesGuarded
  Invertible
CHECK_DEADLOCK FALSE
