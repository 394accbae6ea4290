SPECIFICATION FairSpec
CONSTANTS
  NoJob = NoJob
  NoPod = NoPod
  Max <- PodFailures
INVARIANTS
  TypeOK
  SuccessMeansFilled
PROPERTIES
  UndisturbedWithoutFailure
  JobSettles
  Initialises
