\* The program's two devices.  A ring of two slots fills, wraps and overflows
\* within the three inputs of each device.
CONSTANTS
  NumItemMax = 2
  TouchDevs = {touchscreen}
  SocketDevs = {socketinput}
  Val = {v}
  Block = {b1, b2, b3, b4}
  MaxEvents = 3
  Main = main
  NULL = null
SPECIFICATION Spec
SYMMETRY BlockSymmetry
INVARIANTS
  TypeOK
  StartedOnce
  MutualExclusion
  NoLostWakeup
  InputsInOrder
  DataOwned
PROPERTIES
  DeliveredOnceInOrder
  ImplementsChannel
