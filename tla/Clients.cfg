SPECIFICATION Spec
CONSTANTS
  Clients = {A, B}
  NoClient = NoClient
  MaxNode = 1
  MaxReq = 4
  MaxFaults = 1
INVARIANTS
  TypeOK
  
  OffMeansFinal
  OnMeansUsable
PROPERTIES
  OffStaysOff
