\* Password set, server wants it; the application does whatever the types allow.
SPECIFICATION Spec
CONSTANTS
  Handle = {h1, h2, h3}
  Conn = {c1, c2, c3}
  NoConn = NoConn
  DB = {0, 1}
  HasPassword = TRUE
  NeedsAuth = TRUE
  UserSelects = TRUE
  MoveAssigns = TRUE
SYMMETRY Symmetry
INVARIANTS TypeOK HandlesExclusive PooledReady Authenticated
PROPERTIES BrokenForGood OnlyMoveAssignLeaks OnlySelectDiverts
