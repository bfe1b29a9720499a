SPECIFICATION Spec
CONSTANTS
  Events <- MCEvents
  Boot <- MCBoot
  Values = {"v", "-0", "nan1"}
  MaxLen = 3
  MaxEvents = 3
  SigEvents = 1
  Window = 3
INVARIANTS
  TransitionsCounted
  FaultsReported
  SignatureFair
CHECK_DEADLOCK FALSE
