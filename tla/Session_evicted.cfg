SPECIFICATION Spec
CONSTANTS
  MaxId = 6
  MaxConn = 4
  NpcIds <- NoNpcs
  a1 = a1
  a2 = a2
  n1 = n1
  n2 = n2
  Auths <- MCAuths
  Names <- MCNames
  NoAuth = NoAuth
  NoName = NoName
SYMMETRY Symm
INVARIANTS ActiveSessionNamesOwnPlayer
