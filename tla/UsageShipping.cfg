\* Two shippers with batches of two, one tenant and three rows, so that a row
\* may be overtaken, a batch may be cut off by the limit and shipped twice.
\* When every row is dealt with only ticks that find nothing remain.
SPECIFICATION Spec
CONSTANTS
  t1 = t1
  MaxId = 3
  Tenants = {t1}
  TenantOf <- MCTenantOf
  Shippers = {s1, s2}
  BatchSize = 2
  FaultKinds = {"orb", "ship_crash"}
  MaxFaults = 2
INVARIANTS
  TypeOK
  PassedIsBilled
  PrunedIsBilled
PROPERTIES
  ImplementsOutbox
  RecordedIsBilled
