SPECIFICATION Spec
CONSTANTS
  w1 = w1
  w2 = w2
  p1 = p1
  p2 = p2
  Worker = {w1, w2}
  Process = {p1, p2}
  ProcessOf <- TwoProcesses
  Value = {v1, v2}
  Inode = {i1, i2, i3, i4}
  Retries = 2
  MaxRefusals = 1
  Trouble <- AllTroubles
  Default = Default
  Torn = Torn
  NoFile = NoFile
PROPERTY IsAtomic
SYMMETRY Symmetry
