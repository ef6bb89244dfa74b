\* A message is put on the socket of a client that is gone.
SPECIFICATION Spec
CONSTANTS
  Servers = {s1, s2}
  Users = {a, b}
  Conns = {c1, c2, c3}
  Texts = {t1}
  NoConn = NoConn
  NoServer = NoServer
  NoUser = NoUser
  MaxFailures = 1
  MaxFrames = 1
  Budget = 5
SYMMETRY Symm
INVARIANT AtLeastOnce
CHECK_DEADLOCK FALSE
