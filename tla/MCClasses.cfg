SPECIFICATION MCFairSpec
CONSTANTS
  t1 = t1
  t2 = t2
  t3 = t3
  Workers = {w1, w2}
  Items = {t1, t2, t3}
  Nothing = Nothing
  Nobody = Nobody
  NPrios = 3
  Prio <- MCPrio
  Sticky = {t2}
  MaxInserts = 3
  NULL = NULL
  Nodes = {n1, n2, n3}
  Criteria = {1, 2, 3, 4}
  Users = {"a", "b"}
  Ids = {0, 1, 2, 3}
  Sizes = {0, 2}
  MaxOps = 4
INVARIANTS TypeOK NoneStranded ListInOrder IdsInOrder
PROPERTIES ScanRepairsHead EverybodyServed
