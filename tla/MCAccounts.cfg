SPECIFICATION Spec
SYMMETRY Symmetry
CONSTANTS
  Conn = {c1, c2}
  Email = {e1, e2}
  LongEmail = {}
  OddEmail = {e2}
  Password = {p1, p2}
  ShortPassword = {}
  NoRequest = NoRequest
  NoAccount = NoAccount
  BufLen = 2
  Width = 3
  Faults = {"crash", "dbfail", "gone"}
  MaxRequests = 2
  MaxHandled = 2
  MaxFailures = 1
INVARIANTS TypeOK UsersLinked OrphansCounted
PROPERTIES RefinesAccountStore EndsOnlyForCause
