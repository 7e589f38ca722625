\* Liveness: calls return, a closed pool lets every connection go.
SPECIFICATION FairSpec
CONSTANTS
  Thread = {t1, t2}
  Conn = {c1, c2}
  NoThread = NoThread
  NoConn = NoConn
  MinSize = 0
  MaxSize = 1
  Validate = TRUE
  ResetOnRelease = FALSE
  IdleTimeout = FALSE
  MaxLifetime = FALSE
  Timeouts = TRUE
  MaxHeld = 1
  MaxBreaks = 1
PROPERTIES CallsReturn ClosedPoolDrains
