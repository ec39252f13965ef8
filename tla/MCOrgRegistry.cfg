SPECIFICATION Spec
CONSTANTS
  r = r
  a = a
  b = b
  c = c
  gov = gov
  zero = zero
  Account <- MCAccount
  Root = r
  Zero = zero
  Outsider <- MCOutsider
  Kind = {"HumanRoot"}
  MaxZeros = 1
SYMMETRY MCSymmetry
INVARIANTS RootedTree ChildrenMatchParents
PROPERTIES ImplementsChart FiringKeepsChains
