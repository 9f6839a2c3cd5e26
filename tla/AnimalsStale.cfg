\* The same programs: can a watcher hold a mood the service has not?
SPECIFICATION Spec
CONSTANTS
  Animal = {a0, a1}
  Cat = {a1}
  Target = a1
  Watcher = {w}
  Caller = {c}
  Prober = {p}
  MaxCalls = 2
  MaxStarts = 2
INVARIANT
  ClientReadsMood
CHECK_DEADLOCK FALSE
