SPECIFICATION Spec
SYMMETRY PoolSymmetry
CONSTANTS
  Clients = {A, B}
  NoClient = NoClient
  Guests = {}
  MaxNode = 2
  Workers = {w1, w2}
  Ops = {"agree", "logout"}
  AskedKeys = {0, 1}
  Requests <- MCRequests
  MaxReq = 3
  MaxLapse = 0
  MaxFaults = 1
PROPERTY
  LoggedOutKeyStaysOut
