SPECIFICATION Spec
CONSTANTS
  a1 = a1
  b1 = b1
  r1 = r1
  r2 = r2
  NoRow = NoRow
  Agents <- MCAgents
  Runtimes <- MCRuntimes
  IdOf <- MCIdOf
  Persistent <- MCPersistent
  TTL = 2
  MaxClock = 4
  MaxFaults = 0
INVARIANT OneWinner
