CONSTANTS
  w1 = w1
  w2 = w2
  c1 = c1
  t1 = t1
  t2 = t2
  t3 = t3
  Workers = {w1, w2}
  Clients = {c1}
  Tasks = {t1, t2, t3}
  NoTask = NoTask
SPECIFICATION Spec
CHECK_DEADLOCK FALSE
INVARIANTS DestroyedMeansDrained
PROPERTIES EveryTaskRuns
