\* Two runs and a stream; gemini answers one run, openai the other, the shared
\* openrouter only the stream, whose circuit the failures of the runs may open.
SPECIFICATION Spec
CONSTANTS
  run1 = run1
  run2 = run2
  stream = stream
  openai = openai
  openrouter = openrouter
  gemini = gemini
  theQuestion = theQuestion
  Call = {run1, run2, stream}
  Run = {run1, run2}
  Provider = {openai, openrouter, gemini}
  KindOf <- Kinds
  QuestionOf <- SameQuestion
  Models <- Cascades
  NoProvider = NoProvider
  Threshold = 2
  Sound <- Answering
  PoolSize = 1
  MaxAgents = 2
  NoAgent = NoAgent
INVARIANTS TypeOK BreakerHolds FallbackReaches AgentsExclusive
CHECK_DEADLOCK FALSE
