CONSTANTS
  NumServers = 2
  Obfuscating = {2}
  DualStack = {2}
  Static = {2}
  DeadRetries = 1
  Configs <- ShippedOnly
  Anomalies = {"garbledSingle"}
SPECIFICATION Spec
INVARIANTS
  SingleConnectIsAlive
