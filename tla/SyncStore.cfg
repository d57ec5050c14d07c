CONSTANTS
  Threads = {t1, t2, t3}
  Sources = {s1, s2, s3}
  Nodes = {n1, n2, n3, n4}
  NULL = NULL
SPECIFICATION Spec
SYMMETRY Symmetry
INVARIANTS
  TypeOK
  ListSound
PROPERTY ActsAsPairStore
