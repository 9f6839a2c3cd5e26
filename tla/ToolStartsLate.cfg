\* One press on a command button, whose script reports before it ends.
CONSTANTS
  wifi = wifi
  lcd = lcd
  touch_screen = touch_screen
  NumItemMax = 2
  TouchDevs = {touchscreen}
  SocketDevs = {socketinput}
  Block = {b1, b2, b3}
  MaxEvents = 2
  Main = main
  NULL = null
  Val <- MCVal
  Button = {wifi}
  CanBePress = {wifi}
  HasCommand = {wifi}
  Nowhere = nowhere
  Unknown = unknown
  Progress = {"50"}
  Script <- ShortScript
  External <- NoExternal
  MaxForks = 1
SPECIFICATION ToolSpec
SYMMETRY BlockSymmetry
PROPERTY StartNotOverResult
