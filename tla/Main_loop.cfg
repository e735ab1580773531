SPECIFICATION FairSpec
CONSTANTS
  Conns = {c1, c2}
  REAPER_INTERVAL_S = 3
  CONNECTION_TIMEOUT = 6
  EPOLL_EVENTS_MAX = 2
INVARIANTS
  EndsClean
  ReaperOnTime
  StopsInTime
  LateAtMostTwice
PROPERTIES
  StalledCloses
