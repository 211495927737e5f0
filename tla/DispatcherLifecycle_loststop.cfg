SPECIFICATION FairLifecycle
CONSTANTS
  Runs = {r1}
  Shutdowns = {s1}
  NoRun = NoRun
PROPERTY StopIsHeeded
CHECK_DEADLOCK FALSE
