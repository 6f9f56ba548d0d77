SPECIFICATION MCSpec
CONSTANTS
  Messages <- MCMessages
  Authorities <- MCAuthorities
  Additions <- MCAdditions
  MaxTasks = 3
  MaxFacts = 3
  MaxRegistry = 3
INVARIANTS
  FactsStayInTheirCase
  AnsweredNoStands
  DangerKeepsItsFloor
  WordedDangerIsHeard
  FollowUpKeepsTheCase
  ReleaseWasCommanded
  BroadcastIsRewritten
CHECK_DEADLOCK FALSE
