\* One client, two upstream connections: enough for a query after the first ReadyForQuery.
CONSTANTS
  Clients = {1}
  MaxUps = 2
SPECIFICATION Spec
INVARIANT QueriesHoldTheBackend
