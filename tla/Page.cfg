\* The page without commands: two buttons, lcd with reports only and
\* touch_screen to be pressed, as in config.conf; a ring of two slots.
CONSTANTS
  wifi = wifi
  lcd = lcd
  touch_screen = touch_screen
  NumItemMax = 2
  TouchDevs = {touchscreen}
  SocketDevs = {socketinput}
  Block = {b1, b2, b3, b4}
  MaxEvents = 2
  Main = main
  NULL = null
  Val <- MCVal
  Button = {lcd, touch_screen}
  CanBePress = {touch_screen}
  HasCommand = {}
  Nowhere = nowhere
  Unknown = unknown
  Progress = {"50"}
  Script <- NoScript
  External <- LcdReports
  MaxForks = 0
SPECIFICATION ToolSpec
SYMMETRY BlockSymmetry
INVARIANTS
  OneText
  ManualShown
