SPECIFICATION Spec
CONSTANTS
  Refused = Refused
  Blank = Blank
  u = u
  v = v
  View = {u, v}
  MaxDescriptors = 3
SYMMETRY Symmetry
INVARIANTS OwnersFindTheirViews ShadersSeeOwnersViews
PROPERTY ImplementsPool
CHECK_DEADLOCK FALSE
