SPECIFICATION ReactorSpec
CONSTANTS
  Conn = {c1}
  Thread = {t1}
  ReactorOwner = Owner
  None = None
INVARIANT
  LinkedAlive
CHECK_DEADLOCK FALSE
