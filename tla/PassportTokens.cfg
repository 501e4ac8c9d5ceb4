SPECIFICATION Spec
CONSTANTS
  Agents = {a1, a2}
  Tickets = {e1}
  Tokens = {t1, t2, t3}
  Calls = {r1, r2}
  MaxUses = 2
  MaxFaults = 2
  None = None
SYMMETRY Symmetry
CHECK_DEADLOCK FALSE
INVARIANTS OneLiveToken AnswerIsLive TokensAreRegistered
PROPERTIES FamilySpec
