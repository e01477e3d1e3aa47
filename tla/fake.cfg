SPECIFICATION FairSpec
CONSTANTS
  Procs = {main, listener, setter}
  Main = main
  Listener = listener
  Setter = setter
  NoTest = "none"
INVARIANTS TypeOK RegistryCount PanicNeedsTwoListeners FailsByLostWakeupOnly FakeListsLikePostgres
PROPERTIES NotifierReturns TestsEnd
CHECK_DEADLOCK FALSE
