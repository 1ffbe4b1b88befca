SPECIFICATION BoundedSpec
CONSTANTS
  Roots = {a, b, c}
  Names = {x}
  OuterKeys = {k}
  InnerKeys = {i}
  Plain = Plain
  Absent = Absent
  ChildStatuses = {i, Absent}
  MaxPrototypes = 4
  MaxBatch = 2
  None = None
SYMMETRY RootSymmetry
INVARIANTS CacheConsistent InstancesAreExact RecomposedFully
