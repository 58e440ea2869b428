SPECIFICATION Spec
CONSTANTS
  begin = begin
  commit = commit
  select = select
  other = other
  empty = empty
  st = st
  unnamed = unnamed
  Unnamed = unnamed
  NoText = empty
  Names <- MCNames
  Texts <- MCTexts
  Begins <- MCBegins
  Ends <- MCEnds
  Outcomes <- MCOutcomes
  Drivers <- AllDrivers
  MaxMessages = 6
INVARIANTS TypeOK SyncPoints HandshakeOrder ServedEncrypted PortalKeepsStatement
PROPERTIES Answered EndsWhenClosed
