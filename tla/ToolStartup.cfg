\* Six screens, and the shipped file among files of up to 21 items.  The parser's
\* buffer is cut to 16 bytes, and the lines with it.
SPECIFICATION Spec
CONSTANTS
  Screen <- Screens
  File <- Files
  CONFIG_MAX_NUMBER = 20
  BufSize = 16
  Letter <- Letters
INVARIANTS
  StartupTypeOK
  TwoLeftOpen
  DrawsInFramebuffer
  OneButtonPerTouch
  ReadsWritten
  ConfigIsRead
