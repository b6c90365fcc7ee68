CONSTANTS
  NumServers = 2
  Obfuscating = {2}
  DualStack = {2}
  Static = {2}
  DeadRetries = 1
  Configs <- MCConfigsAll
  Anomalies = {"newID", "garbledAuto", "garbledSingle", "lateFull"}
SPECIFICATION Spec
INVARIANTS
  TypeOK
  SocketRoles
  ConnectionIsAsWanted
