SPECIFICATION FairSpec
CONSTANTS
  f1 = f1
  f2 = f2
  q1 = q1
  r1 = r1
  r2 = r2
  t1 = t1
  Null = Null
  Facts <- PageSet
  CompanyFacts <- CompanySet
  Questions <- QuestionSet
  Projects <- ProjectSet
  Secrets <- SecretSet
  Policies <- PolicySet
  LlmModels <- ModelSet
  MaxClicks = 3
  MaxOpens = 1
  MaxInFlight = 3
  MaxFaults = 1
INVARIANTS
  RestingViewIsTrue
  SavedIsStored
  MintedIsShown
PROPERTIES
  OnlyEditsAreSaved
  ControlsComeBack
CHECK_DEADLOCK FALSE
