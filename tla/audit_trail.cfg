SPECIFICATION Spec
CONSTANTS
  Tenants = {t1}
  EventIds = {1, 2, 3, 4}
  Exporters = {x1}
  MaxTime = 2
  Retentions = {1}
  Security = 3
  Starts = {1}
  Ends = {2}
  Befores = {2}
  Limits = {2}
  MaxTampered = 1
SYMMETRY Symmetry
INVARIANTS
  ExportComplete
  PagesAscend
  HeldForGood
  BooksBalance
  SealTells
CHECK_DEADLOCK FALSE
