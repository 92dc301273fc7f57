SPECIFICATION Spec
CONSTANTS
  Commands = {"app.main", "main_script", "run_live", "run_shadow"}
  FileModes = {"backtest", "paper", "guarded_live", "live"}
  ClobInstalled = TRUE
CHECK_DEADLOCK FALSE
INVARIANTS
  CommandStarts
