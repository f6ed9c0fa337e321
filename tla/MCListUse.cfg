SPECIFICATION Spec
CONSTANTS
  n1 = n1
  n2 = n2
  n3 = n3
  n4 = n4
  l1 = l1
  l2 = l2
  Node = {n1, n2, n3, n4}
  ListId = {l1, l2}
  Nil = Nil
SYMMETRY NodeSymmetry
INVARIANTS WellFormed
PROPERTIES ImplementsSequences
CHECK_DEADLOCK FALSE
