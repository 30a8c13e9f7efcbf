SPECIFICATION Spec
CONSTANTS
  Socket = {s1, s2}
  Room = {r1}
  User <- MCUser
  userName <- MCUserName
  Garbled = Garbled
  NoPacket = NoPacket
  Kinds = {"JOIN", "LEAVE"}
  BufLen = 3
  Width <- TwoCells
  AnswerWidth = 1
  FdSetSize = 64
  Faults = {}
  MaxPackets = 3
  Careful = {}
  MaxLog = 6
PROPERTY LeftMeansOut
