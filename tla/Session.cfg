SPECIFICATION FairSpec
CONSTANTS
  MaxId = 5
  MaxConn = 3
  NpcIds <- NpcInTheWay
  a1 = a1
  a2 = a2
  n1 = n1
  n2 = n2
  Auths <- MCAuths
  Names <- MCNames
  NoAuth = NoAuth
  NoName = NoName
INVARIANTS TypeOK BindingsInverse OnePlayerPerAccount NamesExclusive BoundSessionNamesOwnPlayer SessionsHeldByConnections
PROPERTIES EntityOutlivesSession LostSocketEndsSession
