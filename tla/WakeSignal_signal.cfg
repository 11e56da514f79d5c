CONSTANTS
  Tasks = {t1, t2}
  Workers = {w1}
  Requests = {r1, r2, r3}
  Here = {r1, r2}
  None = None
SPECIFICATION SignalSpec
PROPERTIES
  SignalledTaskTaken
  PostsAnswered
  PoolStops
  EveryTaskTaken
CHECK_DEADLOCK FALSE
