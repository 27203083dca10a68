SPECIFICATION FairKeyRingSpec
CONSTANTS
  Shared = shared
  Scope = user
  Rings <- OneScope
  Refs = {k1, k2}
  Values = {good, dead}
  NoKey = NoKey
  Dead = {dead}
  Stored <- FirstStores
  Calls = {c1, c2}
  Unscoped = {c2}
  RingOf <- Scoped
  MaxEvents = 1
PROPERTIES
  ReplacementIsUsed
