SPECIFICATION FairSpec
CONSTANTS
  NoJob = NoJob
  NoPod = NoPod
  Max <- OneOutage
PROPERTY
  ReadyMeansPopulated
