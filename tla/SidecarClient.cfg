\* One restart, one answer of each kind under way: every way a respawn can
\* cross the client.  The chain stops, the app ends: no deadlock check
CONSTANTS
  MaxRetries = 1
  MaxAnswers = 1
SPECIFICATION ClientSpec
INVARIANTS ClientTypeOK OneSidecar Supervised ShellIsCurrent
PROPERTIES  CrashesAreRetried QuitEnds RequestsCarryTheToken PortSpec
CHECK_DEADLOCK FALSE
