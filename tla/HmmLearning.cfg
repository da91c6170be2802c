SPECIFICATION LearnSpec
CONSTANTS
  MaxHold = 3
  Configurations <- SomeConfigurations
  One = 2
  Strength = 2
INVARIANTS
  HoldRespected
  LearnsPolicy
  NanOnlyUnsmoothed
  CongestionNoticed
PROPERTIES
  RecoveryOnlyAfterCongested
  RecoveryEnds
