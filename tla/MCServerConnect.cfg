CONSTANTS
  NumServers = 2
  Obfuscating = {2}
  DualStack = {2}
  Static = {2}
  DeadRetries = 1
  Configs <- MCConfigs
  Anomalies = {"garbledAuto"}
SPECIFICATION Spec
INVARIANTS
  TypeOK
  SocketRoles
  ConnectionIsAsWanted
PROPERTIES
  KeepsDialling
