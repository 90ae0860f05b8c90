SPECIFICATION MCSpec
CONSTANTS
  Streams = {s1, s2}
  Gzipped = {s1}
  ObserverItems = 2
  ObserverBytes = 3
  QueueMax = 2
  BodySizes = {1, 2}
  EventLimit = 2
  MaxLeases = 2
  LoopProducers = {"loop"}
  ThreadProducers = {"thread"}
  MaxWrites = 3
  Capacity = 3
  BatchSize = 3
  u1 = u1  u2 = u2  u3 = u3
  Uploads = {u1, u2, u3}
  UploadWeight <- Weight3
  MaxUploadBytes = 3
CHECK_DEADLOCK FALSE
INVARIANTS NothingHeld PaidBeforeDelivered WritesKept
PROPERTIES ServingSettles
