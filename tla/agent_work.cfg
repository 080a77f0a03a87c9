SPECIFICATION FairSpec
CONSTANTS
  TreatmentNamed = {"t"}
  OutcomeNamed = {"y"}
  Asked <- MCAsked
  LlmAnswers <- MCLlmAnswers
  None = None
  Disks = {d1, d2}
  d1 = d1
  d2 = d2
  Tools <- MCTools
  MaxAttempts = 2
  Threshold = 1
  MaxFaults = 2
INVARIANTS TypeOK OwnDataAnalysed UnderstandingDescribesData
INVARIANTS NumbersComplete ResultsWhole
PROPERTIES WorkEnds
CHECK_DEADLOCK FALSE
