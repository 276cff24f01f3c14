CONSTANTS
  Op = {o1}
  Worker = {w1}
  Closer = {c1}
  Starter = s
  Strand = strand
  None = none
  MaxQueue = 1
SPECIFICATION Spec
INVARIANT NotStranded
CHECK_DEADLOCK FALSE
