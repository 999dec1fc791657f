\* Two daemons with a port in common, a third with its own, one command at a time.
SPECIFICATION DaemonSpec
CONSTANTS
  a = a
  b = b
  c1 = c1
  Daemons <- ThreeDaemons
  Nobody = Nobody
  BasePort <- Bases
  Managed = 2
  Command = {k1}
  MaxStarts = 4
  MaxRuns = 2
INVARIANTS
  DaemonTypeOK
  MappingTrue
  OrphanOnlyByKill

  
  
\* Starts and runs are bounded, so the system stops.
CHECK_DEADLOCK FALSE
