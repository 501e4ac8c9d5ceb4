SPECIFICATION FairSpec
CONSTANTS
  Providers = {codex, gemini}
  Refs = {r1, r2}
  Fetches = {q1, q2}
  MaxSends = 2
  MaxActs = 2
  Nothing = Nothing
CHECK_DEADLOCK FALSE
INVARIANTS ShownIsResumed
PROPERTIES WrittenIsKept SendingEnds
