\* A command button, its script and reports on a ring of one slot, with fair
\* threads and room for one more process: forks at every point of a device's
\* critical section, a child that replays what it inherited, a fork that fails with
\* an event behind it in the ring, an event that the ring refuses, the get that
\* fails for it, and an event that comes later.
CONSTANTS
  wifi = wifi
  lcd = lcd
  touch_screen = touch_screen
  NumItemMax = 1
  TouchDevs = {touchscreen}
  SocketDevs = {socketinput}
  Block = {b1, b2, b3}
  MaxEvents = 2
  Main = main
  NULL = null
  Val <- MCVal
  Button = {wifi}
  CanBePress = {wifi}
  HasCommand = {wifi}
  Nowhere = nowhere
  Unknown = unknown
  Progress = {"50"}
  Script <- ShortScript
  External <- NoExternal
  MaxForks = 1
SPECIFICATION FairToolSpec
INVARIANT PageTypeOK
PROPERTIES
  ImplementsInputMgr
  QueuedIsDelivered
