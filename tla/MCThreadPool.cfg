SPECIFICATION Spec
CONSTANTS
  NumThreads = 3
  t1 = t1
  t2 = t2
  t3 = t3
  t4 = t4
  Tasks <- MCTasks
  NullTasks <- MCNull
  NoTask = NoTask
INVARIANTS FIFO RunOnce CloseDrains DestroyedIsQuiet
PROPERTIES DestroyEnds ImplementsTaskQueue
