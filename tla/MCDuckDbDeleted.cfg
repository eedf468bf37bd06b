\* One query reads the source's record before it is deleted.
SPECIFICATION Spec
CONSTANTS
  Queries = {q1}
  Deletes = {del}
  Shutdown = shutdown
  Engines = {e1, e2}
  Configs = {old}
INVARIANT GoneWhenDeleted
CHECK_DEADLOCK FALSE
