\* Two servers, two users, one text and the receipts it causes; three connections,
\* so that a user may come back elsewhere, or one failure may happen.  Deadlock is
\* not checked: when all have left, nothing more happens.
SPECIFICATION Spec
CONSTANTS
  Servers = {s1, s2}
  Users = {a, b}
  Conns = {c1, c2, c3}
  Texts = {t1}
  NoConn = NoConn
  NoServer = NoServer
  NoUser = NoUser
  MaxFailures = 1
  MaxFrames = 1
  Budget = 5
SYMMETRY Symm
INVARIANTS TypeOK NothingLost ReceiptsTruthful NotStranded
CHECK_DEADLOCK FALSE
