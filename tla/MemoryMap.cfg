CONSTANTS
  Last = 3
  Slack = 2
  none = none
SPECIFICATION FairSpec
INVARIANTS
  TypeOK
  MapFresh
PROPERTIES
  SizedReadSpec
  LeavingEnds
CHECK_DEADLOCK FALSE
