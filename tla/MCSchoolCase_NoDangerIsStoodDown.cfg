SPECIFICATION MCSpec
CONSTANTS
  Messages <- MCMessages
  Authorities <- MCAuthorities
  Additions <- MCAdditions
  MaxTasks = 3
  MaxFacts = 3
  MaxRegistry = 3
INVARIANT NoDangerIsStoodDown
CHECK_DEADLOCK FALSE
