\* select's program alone: an input after a timeout is never read.
SPECIFICATION FairSpec
CONSTANTS
  Program = {"select"}
  Reader <- AllReaders
  MaxInputs = 2
  MaxLines = 0
  MaxPosts = 1
  Client = {}
  MaxUnits = 2
  MaxFlight = 0
  Room = 2
  Limit <- Limits
  Panel <- Panels
  Glyph <- Glyphs
  GB2312 <- Zhong
CHECK_DEADLOCK FALSE
PROPERTIES
  InputIsRead
