SPECIFICATION Spec
CONSTANTS
  Thread = {t1, t2}
  Conn = {c1, c2, c3}
  NoThread = NoThread
  NoConn = NoConn
  MinSize = 1
  MaxSize = 2
  Validate = TRUE
  ResetOnRelease = FALSE
  IdleTimeout = TRUE
  MaxLifetime = TRUE
  Timeouts = TRUE
  MaxHeld = 2
  MaxBreaks = 1
SYMMETRY Symmetry
PROPERTY TimesOutOnlyIfExhausted
