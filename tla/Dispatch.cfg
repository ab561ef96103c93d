SPECIFICATION Spec
CONSTANTS
  Conns = {c1, c2}
  NoConn = NoConn
  MaxFd = 2
  Workers = {w1, w2}
  MaxErr = 1
INVARIANTS
  TypeOK
  OneTaskPerFd
  ResponseToAsker
PROPERTIES
  MarkIsTemporary
