SPECIFICATION Spec
CONSTANTS
  Score = {1, 2, 3}
  Mids = {0, 1, 2, 3}
  Member = {m1, m2}
  Nil = Nil
  ErrNodeExists = ErrNodeExists
  WriteErr = WriteErr
  Head = Head
  MaxLevel = 2
INVARIANTS
  LevelsConsistent
  CountersExact
PROPERTY ImplementsMap
SYMMETRY Symmetry
