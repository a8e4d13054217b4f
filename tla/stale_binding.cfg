SPECIFICATION Spec
CONSTANTS
  Key = {k1}
  Id = {x, y}
  Blank = Blank
  Seg = {i1, i2, i3}
  NoSeg = NoSeg
  Addr = {a1, a2, a3}
  Null = Null
  Var = {u, v}
  MaxItems = 4
PROPERTIES BindsTheSlot
