\* Move assignment onto a handle that holds a connection.
SPECIFICATION Spec
CONSTANTS
  Handle = {h1, h2, h3}
  Conn = {c1, c2, c3}
  NoConn = NoConn
  DB = {0, 1}
  HasPassword = TRUE
  NeedsAuth = TRUE
  UserSelects = FALSE
  MoveAssigns = TRUE
SYMMETRY Symmetry
INVARIANT NoLeak
