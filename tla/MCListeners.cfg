SPECIFICATION ListenersSpec
CONSTANTS
  Id = {1, 2}
  Spec <- MCSpec
  First <- MCFirst
  Off = Off
  b = b
  b2 = b2
  off = off
  w1 = w1
  w2 = w2
  c1 = c1
  Base = {b, b2, off}
  Disabled = off
  Request = {w1, w2}
  Runtime = {1, 2, 3, 4, 5, 6, 7}
  Conn = {c1}
  None = None
  MaxErrors = 1
INVARIANTS
  ForgottenHasACause
  ClosedServerHasNoSession
  SettledIsStored
SYMMETRY Symmetry
CHECK_DEADLOCK FALSE
