SPECIFICATION Spec
CONSTANTS
  Directive = {d}
  NoBrief = none
  MaxWrites = 4
  Slot = {s}
  Scopes = {w}
  Operation = {o1, o2}
  MaxSessions = 2
CONSTRAINT FewWrites
INVARIANTS WishesStand PauseLeavesOnlyNamed HeldKeysAreLive
SYMMETRY Symmetric
CHECK_DEADLOCK FALSE
