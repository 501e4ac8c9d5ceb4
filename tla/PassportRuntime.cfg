SPECIFICATION FairSpec
CONSTANTS
  Agents = {"a1"}
  Streams = {"s1", "s2"}
  Sessions = {"s1", "s2"}
  Handlers = {h1}
  Slots = {"k1", "k2"}
  AgentOf <- OneAgentOf
  SessionsOf <- OwnSession
  Timeout = 1
  MaxFaults = 1
  None = None
  Idle = Idle
CHECK_DEADLOCK FALSE
INVARIANTS AnswerIsRecent TimedOutCallIsClosed
PROPERTIES GoneIsDelisted SelfHealing ExpiredNeverRelisted PresenceSpec
