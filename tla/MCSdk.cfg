SPECIFICATION SdkSpec
CONSTANTS
  w1 = w1
  w2 = w2
  Clients = {"python", "typescript"}
  MaxRetries = 1
  MaxCalls = 2
  Kinds = {"messages", "peers", "conclusions"}
  Writer = {w1, w2}
  PageSize = 2
  MaxRows = 5
  NoTime = NoTime
  Programs = {w1, w2}
  Languages <- MCLanguages
  Records = {"workspace", "peer", "session"}
  MaxUses = 2
  None = None
INVARIANTS StoredAsCalled IterationIsExhaustive UpdatesSurvive
PROPERTIES CallsEnd CachesWereTrue
CHECK_DEADLOCK FALSE
