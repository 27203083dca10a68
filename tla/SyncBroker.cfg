SPECIFICATION FairSyncBrokerSpec
CONSTANTS
  Threads = {t1, t2}
  Streams = {s1, s2}
  Nobody = Nobody
INVARIANTS
  SettledWhenClosed
PROPERTIES
  CloseEndsAPull
  TeardownIsFinished
CHECK_DEADLOCK FALSE
