\* Three threads that may produce, consume, stop and start; a queue of two.
CONSTANTS
  Threads = {t1, t2, t3}
  MAX_SAFE_QUEUE = 2
  MaxCalls = 2
SPECIFICATION FairSpec
INVARIANTS
  TypeOK
  NoLostWakeup
  CapacityRespected
  FifoPerProducer
PROPERTIES
  StopReleasesWaiters
  ImplementsFifo
