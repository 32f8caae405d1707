CONSTANTS
  t1 = t1
  t2 = t2
  t3 = t3
  c1 = c1
  c2 = c2
  c3 = c3
  s1 = s1
  s2 = s2
  Tasks <- MCTasks
  Children <- MCChildren
  NameOf <- MCNameOf
  NoChild = NoChild
  Free = Free
  Capacity = 3
SPECIFICATION Spec
INVARIANTS
  OccupiedWithinCapacity
