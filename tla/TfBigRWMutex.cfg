CONSTANTS
  t1 = t1
  t2 = t2
  t3 = t3
  None = None
  Threads = {t1, t2, t3}
  NumStates = 3
SPECIFICATION FairSpec
INVARIANTS FlagsHaveOneOwner
PROPERTIES ActiveWriterAcquires SomeoneAcquires ImplementsRWLock
