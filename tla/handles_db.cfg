\* No password: Connect returns before SELECT.
SPECIFICATION Spec
CONSTANTS
  Handle = {h1, h2, h3}
  Conn = {c1, c2, c3}
  NoConn = NoConn
  DB = {0, 1}
  HasPassword = FALSE
  NeedsAuth = FALSE
  UserSelects = FALSE
  MoveAssigns = FALSE
SYMMETRY Symmetry
INVARIANT RightDatabase
