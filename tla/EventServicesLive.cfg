CONSTANTS
  first = first
  second = second
  nullptr = nullptr
  Events <- MCEvents
  EventTypes <- MCLiveTypes
  MaxTPL = 3
SPECIFICATION FairSpec
PROPERTY SignalRuns
