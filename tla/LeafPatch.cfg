SPECIFICATION FairSpec
CONSTANTS
  Leaves <- MCLeaves
  Order <- MCOrder
  Tables <- MCTables
  Servers = {"s"}
  Approvals = {"tools"}
  Secrets = {"env"}
  Transports = {"cmd", "url"}
  Lists = {"args"}
  Above <- MCAbove
  Values = {"v1", "v2"}
  Catalogs <- MCCatalogs
  Existing <- MCExisting
  MaxMeddle = 2
  MaxFaults = 1
  None = None
INVARIANT TypeOK
PROPERTIES UserContentKept ServersSound Converges
CHECK_DEADLOCK FALSE
