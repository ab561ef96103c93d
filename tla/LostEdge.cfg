SPECIFICATION Spec
CONSTANTS
  Conns = {c1, c2}
  NoConn = NoConn
  MaxFd = 1
  Workers = {w1}
  MaxErr = 0
PROPERTIES
  EveryConnectionRead
