\* Two events, posted twice in all; every registration and every call may fail, the attachment may be
\* disconnected; built with assertions, so that a stop() from the callback aborts the process or does not.
SPECIFICATION FairSpec
CONSTANTS
  Event = {e1, e2}
  Reg = {r1, r2, r3}
  NoReg = NoReg
  ReleaseCancels = TRUE
  MayDisconnect = TRUE
  Asserts = TRUE
  MaxPosts = 2
INVARIANTS ELInv CountsConserved NothingDropped AllCancelled
PROPERTIES StopReturns NotificationsDelivered DispatcherEnds
