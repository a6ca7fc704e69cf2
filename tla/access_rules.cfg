SPECIFICATION RulesSpec
CONSTANTS
  Catalog <- MCCatalog
  MaxChosen = 3
  Ana = "ana"
  Staff = "staff"
  Entries <- MCEntries
  Requests <- MCRequests
CHECK_DEADLOCK FALSE
INVARIANTS MapExact GrantsFounded QueriesFounded QueriesComplete
