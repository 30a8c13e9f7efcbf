SPECIFICATION SystemLiveSpec
CONSTANTS
  Socket = {s1, s2}
  Room = {r1}
  User <- MCUser
  userName <- MCUserName
  Garbled = Garbled
  NoPacket = NoPacket
  Kinds = {"CREATE", "AUTHENTICATE"}
  BufLen = 2
  Width <- OneCell
  AnswerWidth = 1
  FdSetSize = 64
  Faults = {"unparsed", "repeat", "authloss"}
  MaxPackets = 1
  Careful = {}
  MaxLog = 0
  ChatEnd = ChatEnd
  Email = {e1, e2, e3}
  LongEmail = {e2}
  OddEmail = {e3}
  Password = {p1, p2}
  ShortPassword = {p2}
  NoRequest = NoRequest
  NoAccount = NoAccount
  AuthWidth = 3
  AuthFaults = {"crash"}
  MaxRequests = 2
  MaxHandled = 3
  MaxFailures = 1
INVARIANT ToldTheTruth
PROPERTIES ImplementsChatServer ImplementsAuthServer WaitEnds
