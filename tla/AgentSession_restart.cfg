SPECIFICATION FairSpec
CONSTANTS
  Agent = a1
  Ticket = e1
  Agents = {a1}
  Tickets = {e1}
  Tokens = {t1, t2, t3}
  Calls = {r1, r2}
  MaxUses = 1
  MaxFaults = 0
  MaxFailures = 1
  None = None
CHECK_DEADLOCK FALSE
PROPERTIES RestartReconnects
