\* Every example program but select's: the programs end or wait for ever.
SPECIFICATION FairSpec
CONSTANTS
  Program <- AllPrograms
  Reader <- AllReaders
  MaxInputs = 3
  MaxLines = 3
  MaxPosts = 3
  Client = {c1, c2}
  MaxUnits = 3
  MaxFlight = 2
  Room = 2
  Limit <- Limits
  Panel <- Panels
  Glyph <- Glyphs
  GB2312 <- Zhong
CHECK_DEADLOCK FALSE
INVARIANTS
  ExamplesTypeOK
  ReadInOrder
  NoTornLine
  PrintedAsSent
  ClosedAtEnd
  BoxesInFramebuffer
PROPERTIES
  InputIsRead
  LastLineShown
  ClientIsServed
  ProcessEnds
