SPECIFICATION Spec
CONSTANTS
  Inputs <- SomeInputs
  Parts = 100
  Alphas = {4, 25, 50, 75}
  Epsilons <- SomeEpsilons
  MaxObservations = 9
INVARIANTS
  ScoresInRange
PROPERTIES
  ChangesVisible
CHECK_DEADLOCK FALSE
