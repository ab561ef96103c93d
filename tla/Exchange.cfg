SPECIFICATION ExchangeSpec
CONSTANTS
  Conns <- MCConns
  Units <- MCUnits
  NoPayload = NoPayload
  NotSet = NotSet
  NotUtf8 = NotUtf8
  Base = 3
  Room = 1
  Chunk = 1
  MaxFaults = 1
INVARIANTS
  ExchangeTypeOK
  FrameIntact
  CarriedOutAsAsked
  
  
PROPERTIES
  ImplementsRequestReply
  ExchangeEnds
