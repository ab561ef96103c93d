SPECIFICATION QuerySpec
CONSTANTS
  sender = sender
  receiver = receiver
  stranger = stranger
  Clients = {sender, receiver, stranger}
  NoClient = NoClient
  MaxNode = 2
  Workers = {w1}
  Readers = {q1}
  Requests <- MCRequests
  Queries <- MCQueries
  MaxReq = 4
  MaxQuery = 1
  MaxLapse = 1
  MaxFaults = 1
  Burst = 2
INVARIANTS
  QueryTypeOK
  ShownToItsParties
  ListShowsSent
  NotFoundMeansAbsent
PROPERTIES
  EveryQueryAnswered
