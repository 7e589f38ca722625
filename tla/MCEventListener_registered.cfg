SPECIFICATION Spec
CONSTANTS
  Event = {e1}
  Reg = {r1, r2, r3}
  NoReg = NoReg
  ReleaseCancels = TRUE
  MayDisconnect = FALSE
  Asserts = FALSE
  MaxPosts = 2
INVARIANT ListeningIsRegistered
