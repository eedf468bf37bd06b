SPECIFICATION GuardSpec
CONSTANTS
  s1 = s1
  s2 = s2
  s3 = s3
  a1 = a1
  a2 = a2
  Streams <- MCStreams
  RealmSessions = {a1, a2}
  SessionOf <- MCSessionOf
INVARIANTS
  
  ReasonIsTrue
PROPERTIES
  SaidOnce
  SessionEndsStream
  WithdrawalEndsStream
