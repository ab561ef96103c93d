SPECIFICATION Spec
SYMMETRY PoolSymmetry
CONSTANTS
  Clients = {A, B}
  NoClient = NoClient
  Guests = {}
  MaxNode = 2
  Workers = {w1, w2}
  Ops = {"agree", "check", "logout", "send"}
  AskedKeys = {0, 1, 2}
  Requests <- PoolRequests
  MaxReq = 3
  MaxLapse = 1
  MaxFaults = 1
INVARIANTS
  
  ResultHasOwner
  MessageKeyMatchesNumber
PROPERTIES
  CommittedStatesFinal
