SPECIFICATION Spec
CONSTANTS
  i1 = i1
  i2 = i2
  i3 = i3
  i4 = i4
  u1 = u1
  u2 = u2
  c1 = c1
  c2 = c2
  NoFile = NoFile
  Inodes = {i1, i2, i3, i4}
  Updaters = {u1, u2}
  Conns = {c1}
  MaxRFC = 3
  MaxCrash = 0
SYMMETRY Symm
INVARIANT ServedWhole
