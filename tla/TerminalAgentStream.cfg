SPECIFICATION FairSpec
CONSTANTS
  Streams = {m1, m2, m3}
  Refs = {p1, p2}
  MaxFaults = 1
  None = None
CHECK_DEADLOCK FALSE
INVARIANTS OpenIsServed EndedIsSilent ToldOnce RefIsListed
PROPERTIES RunningSettles
