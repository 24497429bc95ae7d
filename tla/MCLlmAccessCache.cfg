\* The same question twice within the life of a cached answer.
SPECIFICATION Spec
CONSTANTS
  run1 = run1
  run2 = run2
  stream = stream
  openai = openai
  openrouter = openrouter
  gemini = gemini
  theQuestion = theQuestion
  Call = {run1, run2}
  Run = {run1, run2}
  Provider = {openai, openrouter, gemini}
  KindOf <- Kinds
  QuestionOf <- SameQuestion
  Models <- Cascades
  NoProvider = NoProvider
  Threshold = 2
  Sound <- Answering
  PoolSize = 1
  MaxAgents = 2
  NoAgent = NoAgent
INVARIANT CachedAnswersUsable
CHECK_DEADLOCK FALSE
