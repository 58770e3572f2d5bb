SPECIFICATION Spec
CONSTANTS
  Day = 4
  HalfWord = 128
  Unset = Unset
  Refused = Refused
  NoConfig = NoConfig
  Environment <- Environments
  Connection = {c1, c2}
  MaxFaults = 1
INVARIANTS
  ProtectedOnNetwork
  AcceptedConfigWorks
  DatabaseClosedQuietly
PROPERTIES
  AnswersOutliveShutdown
  SignalStops
  ComesUpAgain
