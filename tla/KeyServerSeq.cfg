SPECIFICATION Spec
CONSTANTS
  Clients = {A, B, C}
  NoClient = NoClient
  Guests = {C}
  MaxNode = 2
  Workers = {w1}
  Ops = {"agree", "check", "logout", "send"}
  AskedKeys = {0, 1, 2}
  Requests <- MCRequests
  MaxReq = 4
  MaxLapse = 1
  MaxFaults = 2
INVARIANTS
  TypeOK
  NoTransactionAtRest
  ResultHasOwner
  CacheBackedByTable
  ActiveKeyUsable
  SuccessIsDurable
  AuditTellsTruth
PROPERTIES
  ImplementsLifecycle
  StoredUnderActiveKeys
  EveryRequestAnswered
