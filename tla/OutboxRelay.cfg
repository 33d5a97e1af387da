SPECIFICATION LiveSpec
CONSTANTS
  r1 = r1
  r2 = r2
  Relays = {r1, r2}
  Events = {1, 2, 3}
  BatchSize = 2
  MaxFaults = 2
INVARIANTS TypeOK PublishedWasSent DuplicatesAreRetries
PROPERTY ImplementsPromise EventuallyPublished
CHECK_DEADLOCK FALSE
