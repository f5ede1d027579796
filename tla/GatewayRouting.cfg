CONSTANTS
  Catalog <- MCCatalog
  Fleet <- MCFleet
  Requests = {r1, r2}
  Asks <- MCAsks
  Sessions = {1}
  NoAsk = NoAsk
  Late = {3}
  Mortal = {1}
  Polled = {2}
SPECIFICATION Spec
SYMMETRY Same
CHECK_DEADLOCK FALSE
INVARIANTS RoutingTypeOK ServedAsConstrained
PROPERTIES NoInstanceTwice
