\* Wakeups and refinement: no timeout rescues a sleeper, no ping filters.
SPECIFICATION Spec
CONSTANTS
  Thread = {t1, t2, t3}
  Conn = {c1, c2, c3}
  NoThread = NoThread
  NoConn = NoConn
  MinSize = 0
  MaxSize = 2
  Validate = FALSE
  ResetOnRelease = FALSE
  IdleTimeout = TRUE
  MaxLifetime = FALSE
  Timeouts = FALSE
  MaxHeld = 2
  MaxBreaks = 0
SYMMETRY Symmetry
INVARIANTS NoLostWakeup
PROPERTY ImplementsLeasePool
