SPECIFICATION Spec
CONSTANTS
  Indices <- MCIndices
  Ops = {"read", "send"}
  UrcCap = 1
  ProcCap = 2
  AnswerCap = 2
  MaxGen = 2
  MaxPending = 2
  LateAnswers = TRUE
INVARIANT ShownIsAnnounced
