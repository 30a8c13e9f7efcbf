SPECIFICATION LiveSpec
CONSTANTS
  Socket = {s1, s2}
  Room = {r1}
  User <- MCUser
  userName <- MCUserName
  Garbled = Garbled
  NoPacket = NoPacket
  Kinds = {"SEND", "AUTHENTICATE"}
  BufLen = 3
  Width <- TwoCells
  AnswerWidth = 1
  FdSetSize = 64
  Faults = {"exit", "rst", "kill"}
  MaxPackets = 2
  Careful = {}
  MaxLog = 3
PROPERTIES NewcomersRegistered PacketsRead RequestsAnswered DeparturesNoticed
