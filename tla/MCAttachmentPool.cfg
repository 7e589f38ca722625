\* Safety: three threads, every option on.
SPECIFICATION Spec
CONSTANTS
  Thread = {t1, t2, t3}
  Conn = {c1, c2, c3}
  NoThread = NoThread
  NoConn = NoConn
  MinSize = 1
  MaxSize = 2
  Validate = TRUE
  ResetOnRelease = TRUE
  IdleTimeout = TRUE
  MaxLifetime = TRUE
  Timeouts = TRUE
  MaxHeld = 1
  MaxBreaks = 1
SYMMETRY Symmetry
INVARIANTS IInv OneOwner Accounting Capacity ClosedStaysDrained PooledIsUsable
PROPERTY IdleEvictionKeepsMin
