SPECIFICATION FairSpec
CONSTANTS
  p1 = p1
  p2 = p2
  a = a
  b = b
  c1 = c1
  w1 = w1
  w2 = w2
  f1 = f1
  f2 = f2
  f3 = f3
  g1 = g1
  Main = Main
  NoPair = NoPair
  Pairs = {p1, p2}
  Sources = {a, b}
  SourceOf <- MCSourceOf
  ClientOf <- OneClient
  Clients = {c1}
  ConfigLines <- OnePair
  FilesOf <- TwoFiles
  Missing = {}
  Workers = {w1, w2}
  BufferSize = 1
  Faults = {}
PROPERTY CancelStops
CHECK_DEADLOCK FALSE
