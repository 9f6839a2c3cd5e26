\* The D-Bus service that may be restarted, a watcher, a caller and a prober.
SPECIFICATION FairSpec
CONSTANTS
  Animal = {a0, a1}
  Cat = {a1}
  Target = a1
  Watcher = {w}
  Caller = {c}
  Prober = {p}
  MaxCalls = 2
  MaxStarts = 2
INVARIANTS
  AnimalsTypeOK
  AnsweredOnce
  ViewFollowsService
  ChangesAlternate
PROPERTIES
  MoodChangesByPoke
  WatchersCatchUp
CHECK_DEADLOCK FALSE
