SPECIFICATION FairSpec
CONSTANTS
  c1 = c1
  c2 = c2
  t1 = t1
  t2 = t2
  Conns = {c1}
  NoConn = NoConn
  Writer = Writer
  Tokens = {t1}
  NoToken = NoToken
  QueueCap = 1
  NetCap = 1
  UseKeys = TRUE
  UseLayout = TRUE
  Stalls = TRUE
INVARIANTS
  SessionIsGuarded
  ControlAgrees
  EdgeIsAsTold
PROPERTIES
  RemoteIsTaken
  ImplementsSharing
