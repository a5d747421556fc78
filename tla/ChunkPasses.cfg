CONSTANTS
  Files = {f1}
  Modes = {m1, m2}
  Providers = {"openai", "minimax", "claude", "deepseek", "opencode"}
  Rounds = 3
  Permits = 1
  MaxTransient = 3
  MaxTimeout = 2
  MaxOverloaded = 3
  MaxFormat = 3
  MaxDeadRounds = 2
SPECIFICATION FairSpec
INVARIANTS TypeOK TimeoutsAreFew OnlyDeadProviderIsAbandoned
PROPERTY ChunkEnds
CHECK_DEADLOCK FALSE
