SPECIFICATION FairSpec
CONSTANTS
  Agent = a1
  Ticket = e1
  Agents = {a1}
  Tickets = {e1}
  Tokens = {t1, t2, t3, t4, t5}
  Calls = {r1, r2}
  MaxUses = 3
  MaxFaults = 1
  MaxFailures = 1
  None = None
CHECK_DEADLOCK FALSE
INVARIANTS StoredTokenIsLive UsesAreSpentOnFaults
PROPERTIES StreamsAgain Recovers
