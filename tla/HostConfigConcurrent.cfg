SPECIFICATION Spec
CONSTANTS
  Puts = {p1, p2}
  Configs = {d, c1, c2}
  Default = d
  Invalid = Invalid
  Absent = Absent
  Empty = Empty
  Torn = Torn
  IoErrors = FALSE
INVARIANT
  StoredIsServed
