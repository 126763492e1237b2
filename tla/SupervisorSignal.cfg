SPECIFICATION Spec
CONSTANTS
  Pid <- FourPids
  MaxOthers = 1
INVARIANTS
  SignalLeavesNoChild
