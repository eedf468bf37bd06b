\* Three queries, an edit back and forth, a delete and a shutdown.
SPECIFICATION Spec
CONSTANTS
  Queries = {q1, q2, q3}
  Deletes = {del}
  Shutdown = shutdown
  Engines = {e1, e2, e3}
  Configs = {old, new}
INVARIANTS InUseIsOpen NoStray
PROPERTIES RetiredTakesNone RetiredCloses
CHECK_DEADLOCK FALSE
