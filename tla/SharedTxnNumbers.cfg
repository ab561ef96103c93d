SPECIFICATION Spec
SYMMETRY PoolSymmetry
CONSTANTS
  Clients = {A, B}
  NoClient = NoClient
  Guests = {}
  MaxNode = 2
  Workers = {w1, w2}
  Ops = {"agree"}
  AskedKeys = {0}
  Requests <- MCRequests
  MaxReq = 2
  MaxLapse = 0
  MaxFaults = 0
INVARIANT
  NumbersAllocatedOnce
