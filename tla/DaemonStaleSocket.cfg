\* A daemon is killed and a command looks for it.
SPECIFICATION DaemonSpec
CONSTANTS
  a = a
  b = b
  c1 = c1
  Daemons <- ThreeDaemons
  Nobody = Nobody
  BasePort <- Bases
  Managed = 2
  Command = {k1}
  MaxStarts = 2
  MaxRuns = 2
INVARIANT AttachesOnlyToLive
\* Starts and runs are bounded, so the system stops.
CHECK_DEADLOCK FALSE
