SPECIFICATION Spec
CONSTANTS
  MaxDepth = 2
  MaxRuns = 3
  Taken = {"minimal_choices", "deferred_cache"}
  Published = {"minimal_choices"}
  Copied = {"slip_enabled", "last_draw_secs", "use_py_clock"}
  SlipEnabled = "slip_enabled"
  Clock = "use_py_clock"
  Drawn = {"deferred_cache", "last_draw_secs"}
INVARIANTS
  StatisticsPushed
CHECK_DEADLOCK FALSE
