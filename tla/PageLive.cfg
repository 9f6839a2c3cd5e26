\* Reports for a button that cannot be pressed, behind each other, behind touches
\* that hit the button or nothing, and after a ring of two slots has overflowed and
\* the get that fails for it has been made: four events, of either thread.
CONSTANTS
  wifi = wifi
  lcd = lcd
  touch_screen = touch_screen
  NumItemMax = 2
  TouchDevs = {touchscreen}
  SocketDevs = {socketinput}
  Block = {b1, b2, b3, b4}
  MaxEvents = 2
  Main = main
  NULL = null
  Val <- MCVal
  Button = {lcd}
  CanBePress = {}
  HasCommand = {}
  Nowhere = nowhere
  Unknown = unknown
  Progress = {}
  Script <- NoScript
  External <- LcdOk
  MaxForks = 0
SPECIFICATION FairToolSpec
PROPERTIES
  DeviceComesBack
  ReportIsShown
