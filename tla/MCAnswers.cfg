SPECIFICATION LiveSpec
CONSTANTS
  Conn = {c1, c2}
  Email = {e1, e2}
  LongEmail = {e2}
  OddEmail = {}
  Password = {p1, p2}
  ShortPassword = {p2}
  NoRequest = NoRequest
  NoAccount = NoAccount
  BufLen = 2
  Width = 3
  Faults = {"gone", "crash"}
  MaxRequests = 2
  MaxHandled = 2
  MaxFailures = 1
PROPERTY RequestsAnswered
