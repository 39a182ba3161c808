SPECIFICATION Spec
CONSTANTS
  c1 = c1
  c2 = c2
  t1 = t1
  t2 = t2
  Conns = {c1, c2}
  NoConn = NoConn
  Writer = Writer
  Tokens = {t1, t2}
  NoToken = NoToken
  QueueCap = 1
  NetCap = 1
  UseKeys = FALSE
  UseLayout = FALSE
  Stalls = FALSE
SYMMETRY Symmetry
INVARIANTS
  TypeOK
  ControlIsAsTold
  NoGhostIsShown
PROPERTIES
  NothingAfterGap
