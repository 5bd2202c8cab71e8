\* a pre-release before the hardening, whose name has a part that is no number
SPECIFICATION Spec
CONSTANTS
  MaxMajor = 1
  MaxMinor = 6
  MaxPatch = 8
  MaxParts = 4
INVARIANT UnparseableIsNotVouchedFor
CHECK_DEADLOCK FALSE
