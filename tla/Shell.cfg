SPECIFICATION FairSpec
CONSTANTS
  Agents = {a1}
  Anonymous = Anonymous
  NoCookie = NoCookie
  Invalid = Invalid
  Widgets = {terminal, transcribe, weather}
  Gated = {terminal, transcribe}
  Slots = {s1, s2}
  MaxEvents = 3
  None = None
INVARIANTS NoDraftOutsideEdit FlagsAreOwed
PROPERTIES UserChoiceSticks StatusSettles
